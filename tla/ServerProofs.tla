---------------------------- MODULE ServerProofs ----------------------------
(***************************************************************************)
(* Proofs about the server, for every size of its queues, its pool and its *)
(* ring, and every set of connections.  First that decoding undoes the     *)
(* encoding of the user data; then the type invariant, that no log buffer  *)
(* is ever lost or in two places, that the program borrows and returns log *)
(* buffers as a lender expects, that it never sleeps on work of its own    *)
(* and that it dies of nothing it left undone; then, by counting what is   *)
(* in the two queues, that no receive slot is lost and that each piece of  *)
(* input is owed one answer, on the connection it came from; and last that *)
(* the server goes on reading its connections and listening.               *)
(***************************************************************************)
EXTENDS ServerProperties, FiniteSetTheorems, TLAPS

USE DEF OP_ACCEPT, OP_RECVMSG, OP_WRITE_FIXED, OP_SENDMSG, Answered

-----------------------------------------------------------------------------
\* Where bindings.rs has clang place the parts of the union.
LEMMA FieldPlaces == FdField.at = 0 /\ OpField.at = 4
  BY DEF FdField, OpField, userdata__bindgen_ty_1__bindgen_ty_1, F, Struct,
         Declared, u32, u8, Scalar

\* The numbers of 16 bits, each of which is its two bytes.
U16 == 0..(UdFdMod - 1)

LEMMA TwoBytes ==
  ASSUME NEW n \in U16
  PROVE  /\ n % 256 \in Int
         /\ (n \div 256) % 256 \in Int
         /\ (n % 256) + 256 * ((n \div 256) % 256) = n
<1> DEFINE q == n \div 256
<1>1. n \in Nat /\ n <= 65535
  <2>1. UdFdMod \in Nat /\ UdFdMod - 1 = 65535
    BY DEF UdFdMod
  <2>2. n \in Nat /\ n <= UdFdMod - 1
    BY <2>1 DEF U16
  <2> QED
    BY <2>1, <2>2
<1>2. n = 256 * q + (n % 256) /\ n % 256 \in 0..255 /\ q \in Int
  BY <1>1
<1> HIDE DEF q
<1>3. q \in 0..255
  BY <1>1, <1>2
<1>4. q % 256 = q
  BY <1>3
<1> QED
  BY <1>2, <1>3, <1>4 DEF q

\* What decoding finds: the four bytes of the descriptor, and the opcode.
LEMMA Decoded ==
  ASSUME NEW n, NEW code, NEW pad
  PROVE  Decode(Encode(n, code, pad)) =
           [fd |-> (Narrowed(n) % 256) + 256 * ((Narrowed(n) \div 256) % 256)
                     + 65536 * 0 + 16777216 * 0,
            op |-> code]
<1> DEFINE w == Narrowed(n)
           v == Encode(n, code, pad)
<1>1. /\ v[0] = w % 256
      /\ v[1] = (w \div 256) % 256
      /\ v[2] = 0
      /\ v[3] = 0
      /\ v[4] = code
  BY FieldPlaces DEF Encode, Packed, ValBytes
<1> HIDE DEF v, w
<1>2. Decode(v) = [fd |-> v[0] + 256 * v[1] + 65536 * v[2] + 16777216 * v[3],
                   op |-> v[4]]
  BY FieldPlaces DEF Decode
<1> QED
  BY <1>1, <1>2 DEF v, w

\* Decode(Encode(...)) gives the opcode back, and the descriptor modulo 2^16,
\* whatever the padding holds: a descriptor below 2^16 survives.
THEOREM RoundTrip ==
  ASSUME NEW n \in Nat, NEW code \in 0..255, NEW pad
  PROVE  Decode(Encode(n, code, pad)) = [fd |-> n % UdFdMod, op |-> code]
<1> DEFINE w == Narrowed(n)
<1>1. w = n % UdFdMod /\ w \in U16
  <2>1. UdFdMod \in Nat \ {0}
    BY DEF UdFdMod
  <2>2. n % UdFdMod \in 0..(UdFdMod - 1)
    BY <2>1
  <2> QED
    BY <2>2 DEF U16, Narrowed
<1> HIDE DEF w
<1>2. /\ w % 256 \in Int
      /\ (w \div 256) % 256 \in Int
      /\ (w % 256) + 256 * ((w \div 256) % 256) = w
  BY <1>1, TwoBytes
<1>3. (w % 256) + 256 * ((w \div 256) % 256) + 65536 * 0 + 16777216 * 0 = w
  BY <1>2
<1> QED
  BY <1>1, <1>3, Decoded DEF w

-----------------------------------------------------------------------------
\* What is left of a descriptor in a completion, whose opcode is the request's.
EncodeFd(fd) == Decode(Encode(fd, 0, Unset)).fd

LEMMA CompletionIs ==
  \A op, fd, res :
    Completion(op, fd, res) = [op |-> op, fd |-> EncodeFd(fd), res |-> res]
  BY Decoded DEF Completion, EncodeFd

LEMMA EncodeMod == \A n \in Nat : EncodeFd(n) = n % UdFdMod
<1>. SUFFICES ASSUME NEW n \in Nat PROVE EncodeFd(n) = n % UdFdMod
  OBVIOUS
<1>1. 0 \in 0..255
  OBVIOUS
<1>2. Decode(Encode(n, 0, Unset)) = [fd |-> n % UdFdMod, op |-> 0]
  BY <1>1, RoundTrip
<1>3. QED
  BY <1>2 DEF EncodeFd

LEMMA EncodeNat == \A n \in Nat : EncodeFd(n) \in Nat
  BY EncodeMod DEF UdFdMod

\* The user data of a log write gives back the buffer it was made from, for
\* the pool is no larger than what the descriptor field can count.
LEMMA EncodeBid == \A bid \in Bids : EncodeFd(bid) = bid
  BY EncodeMod, ServerAssumption DEF UdFdMod, Bids

\* What an entry of the submission queue is about.
LEMMA SqeFd ==
  ASSUME NEW e \in SQE
  PROVE  /\ e.op \in {OP_ACCEPT, OP_RECVMSG, OP_WRITE_FIXED, OP_SENDMSG}
         /\ e.fd \in Nat
         /\ e.op = OP_RECVMSG => e.fd \in Fds
         /\ e.op = OP_WRITE_FIXED => e.fd \in Bids
<1>1. CASE e \in [op : {OP_ACCEPT}, fd : {ListenFd}]
  BY <1>1, UringAssumption
<1>2. CASE e \in [op : {OP_RECVMSG}, fd : Fds]
  <2>1. e.op = OP_RECVMSG /\ e.fd \in Fds
    BY <1>2
  <2>2. \A fd \in Fds : fd \in Nat
    BY UringAssumption
  <2>3. e.fd \in Nat
    BY <2>1, <2>2
  <2>4. QED
    BY <2>1, <2>3
<1>3. CASE e \in [op : {OP_WRITE_FIXED}, fd : Bids]
  BY <1>3, ServerAssumption DEF Bids
<1>4. CASE e \in [op : {OP_SENDMSG}, fd : Nat]
  BY <1>4
<1>5. QED
  BY <1>1, <1>2, <1>3, <1>4 DEF SQE

\* What a completion is about.
LEMMA CqeFd ==
  ASSUME NEW e \in CQE
  PROVE  /\ e.fd \in Nat
         /\ e.op = OP_ACCEPT => e.res \in Fds \cup {-1}
         /\ e.op = OP_WRITE_FIXED => e.fd \in Bids
  BY UringAssumption, ServerAssumption DEF CQE, Bids

\* The entries that the program makes are entries of the queue.
LEMMA MadeSqe ==
  /\ Sqe(OP_ACCEPT, ListenFd) \in SQE
  /\ \A fd \in Fds : Sqe(OP_RECVMSG, fd) \in SQE
  /\ \A bid \in Bids : Sqe(OP_WRITE_FIXED, bid) \in SQE
  /\ \A fd \in Nat : Sqe(OP_SENDMSG, fd) \in SQE
  BY DEF Sqe, SQE

\* The completions that the kernel posts are completions of the queue.
LEMMA PostedCqe ==
  /\ \A res \in Fds \cup {-1} :
       [op |-> OP_ACCEPT, fd |-> EncodeFd(ListenFd), res |-> res] \in CQE
  /\ \A fd \in Fds, res \in {1, -1} :
       [op |-> OP_RECVMSG, fd |-> EncodeFd(fd), res |-> res] \in CQE
  /\ \A bid \in Bids :
       [op |-> OP_WRITE_FIXED, fd |-> EncodeFd(bid), res |-> 0] \in CQE
  /\ \A fd \in Fds :
       [op |-> OP_SENDMSG, fd |-> EncodeFd(fd), res |-> 0] \in CQE
  BY EncodeBid, EncodeNat, UringAssumption DEF CQE

-----------------------------------------------------------------------------
\* Posting a completion keeps both queues well-formed.
LEMMA PostType ==
  ASSUME QueuesOK, NEW op, NEW fd, NEW res,
         [op |-> op, fd |-> EncodeFd(fd), res |-> res] \in CQE,
         Post(op, fd, res), UNCHANGED pc
  PROVE  QueuesOK'
  BY UringAssumption, CompletionIs DEF QueuesOK, Post, Fits, sqVars

\* So does the SQPOLL thread taking an entry.
LEMMA FetchType ==
  ASSUME QueuesOK, NEW op, Fetch(op), UNCHANGED pc
  PROVE  QueuesOK' /\ Head(sq) \in SQE /\ Head(sq).op = op
  BY UringAssumption DEF QueuesOK, Fetch, cqVars

\* Dying changes nothing but where the program is.
LEMMA DieType ==
  ASSUME TypeOK,
         NEW why \in {"no_log_buffer", "no_log_sqe", "null_sqe",
                      "accept_failed", "recv_failed", "wait_interrupted"},
         Die(why)
  PROVE  TypeOK'
<1>. USE DEF Die, uringVars, sqVars, cqVars, acceptVars, recvVars, sendVars
<1>1. ProgramOK'
  BY DEF TypeOK, ProgramOK
<1>2. QueuesOK'
  BY DEF TypeOK, QueuesOK
<1>3. RequestsOK'
  BY DEF TypeOK, RequestsOK
<1>4. QED
  BY <1>1, <1>2, <1>3 DEF TypeOK

LEMMA LogEventDiesType ==
  ASSUME TypeOK, NEW q, LogEventDies(q)
  PROVE  TypeOK'
  BY DieType DEF LogEventDies

LEMMA InitType == Init => TypeOK
<1>. SUFFICES ASSUME Init PROVE TypeOK
  OBVIOUS
<1>1. free \in Seq(Bids)
  BY ServerAssumption DEF Init, Bids
<1>2. ProgramOK
  BY <1>1 DEF Init, ProgramOK
<1>3. QueuesOK
  BY UringAssumption DEF Init, UringInit, QueuesOK
<1>4. RequestsOK
  <2>1. UringInit
    BY DEF Init
  <2>2. chunks \in [Fds -> 0..MaxChunks]
    BY <2>1, UringAssumption DEF UringInit
  <2>3. sending \in [Fds -> Nat] /\ notifying \in [Fds -> Nat]
    BY <2>1 DEF UringInit
  <2>4. QED
    BY <2>1, <2>2, <2>3, UringAssumption DEF UringInit, RequestsOK
<1>5. QED
  BY <1>2, <1>3, <1>4 DEF TypeOK

-----------------------------------------------------------------------------
\* A line is logged: a buffer leaves the freelist and an entry is queued.
LEMMA LogType ==
  ASSUME free \in Seq(Bids), NEW q \in Seq(SQE), CanLog(q)
  PROVE  /\ Head(free) \in Bids /\ Tail(free) \in Seq(Bids)
         /\ Logged(q) \in Seq(SQE)
         /\ Len(Logged(q)) = Len(q) + 1 /\ Len(q) < SqEntries
<1>1. Head(free) \in Bids /\ Tail(free) \in Seq(Bids)
  BY DEF CanLog
<1>2. QED
  BY <1>1, MadeSqe, UringAssumption DEF Logged, CanLog, Full

\* A step of the program keeps the types.
LEMMA ProgramType ==
  ASSUME TypeOK, Program
  PROVE  TypeOK'
<1>. USE DEF sqVars, cqVars, acceptVars, recvVars, sendVars
<1>0. ProgramOK /\ QueuesOK /\ RequestsOK
  BY DEF TypeOK
<1>1. CASE QueueAccept
  <2>1. sq' \in Seq(SQE) /\ Len(sq') = Len(sq) + 1
    BY <1>0, <1>1, MadeSqe DEF QueueAccept, QueuesOK
  <2>2. ProgramOK'
    BY <1>0, <1>1 DEF QueueAccept, ProgramOK
  <2>3. QueuesOK'
    BY <1>0, <1>1, <2>1, UringAssumption DEF QueueAccept, QueuesOK
  <2>4. RequestsOK'
    BY <1>0, <1>1 DEF QueueAccept, RequestsOK
  <2>5. QED
    BY <2>2, <2>3, <2>4 DEF TypeOK
<1>2. CASE Greet
  <2>1. /\ sq' \in Seq(SQE) /\ Len(sq') = Len(sq) + 1 /\ Len(sq) < SqEntries
        /\ free' \in Seq(Bids)
    BY <1>0, <1>2, LogType DEF Greet, BufpoolPop, ProgramOK, QueuesOK
  <2>2. ProgramOK'
    BY <1>0, <1>2, <2>1 DEF Greet, ProgramOK
  <2>3. QueuesOK'
    BY <1>0, <1>2, <2>1, UringAssumption DEF Greet, QueuesOK
  <2>4. RequestsOK'
    BY <1>0, <1>2 DEF Greet, RequestsOK
  <2>5. QED
    BY <2>2, <2>3, <2>4 DEF TypeOK
<1>3. CASE Submit
  <2>1. ProgramOK'
    BY <1>0, <1>3 DEF Submit, ProgramOK
  <2>2. QueuesOK'
    BY <1>0, <1>3, UringAssumption DEF Submit, Publish, FlushOverflow, QueuesOK
  <2>3. RequestsOK'
    BY <1>0, <1>3 DEF Submit, RequestsOK
  <2>4. QED
    BY <2>1, <2>2, <2>3 DEF TypeOK
<1>4. CASE Seen
  <2>1. ProgramOK'
    BY <1>0, <1>4 DEF Seen, ProgramOK
  <2>2. QueuesOK'
    BY <1>0, <1>4, UringAssumption DEF Seen, QueuesOK
  <2>3. RequestsOK'
    BY <1>0, <1>4 DEF Seen, RequestsOK
  <2>4. QED
    BY <2>1, <2>2, <2>3 DEF TypeOK
<1>5. CASE HandleWriteFixed
  <2>1. Head(cq) \in CQE /\ Head(cq).fd \in Bids
    BY <1>0, <1>5, CqeFd DEF HandleWriteFixed, Dispatch, QueuesOK
  <2>2. ProgramOK'
    BY <1>0, <1>5, <2>1
       DEF HandleWriteFixed, Dispatch, BufpoolPut, Handled, ProgramOK
  <2>3. QueuesOK'
    BY <1>0, <1>5 DEF HandleWriteFixed, Dispatch, Handled, QueuesOK
  <2>4. RequestsOK'
    BY <1>0, <1>5 DEF HandleWriteFixed, Handled, RequestsOK
  <2>5. QED
    BY <2>2, <2>3, <2>4 DEF TypeOK
<1>6. CASE HandleSendmsg
  <2>1. ProgramOK'
    BY <1>0, <1>6 DEF HandleSendmsg, Dispatch, Handled, ProgramOK
  <2>2. QueuesOK'
    BY <1>0, <1>6 DEF HandleSendmsg, Dispatch, Handled, QueuesOK
  <2>3. RequestsOK'
    BY <1>0, <1>6 DEF HandleSendmsg, Handled, RequestsOK
  <2>4. QED
    BY <2>1, <2>2, <2>3 DEF TypeOK
<1>7. CASE HandleAccept
  <2>. DEFINE clientfd == Head(cq).res
              q == Append(sq, Sqe(OP_RECVMSG, clientfd))
  <2>1. CASE Die("accept_failed") \/ Die("null_sqe") \/ LogEventDies(q)
    BY <2>1, DieType, LogEventDiesType
  <2>2. CASE /\ clientfd >= 0 /\ ~Full(sq) /\ CanLog(q)
             /\ sq' = Logged(q)
             /\ BufpoolPop
             /\ fmt_addr' \in FormattedAddr(clientfd)
             /\ Handled
             /\ UNCHANGED avail
    <3>1. Head(cq) \in CQE /\ clientfd \in Fds
      BY <1>0, <1>7, <2>2, CqeFd DEF HandleAccept, AcceptFailureAsserted, Dispatch, QueuesOK
    <3>2. q \in Seq(SQE)
      BY <1>0, <3>1, MadeSqe DEF QueuesOK
    <3>3. Len(q) = Len(sq) + 1
      BY <1>0 DEF QueuesOK
    <3>4. /\ sq' \in Seq(SQE) /\ Len(sq') = Len(q) + 1 /\ Len(q) < SqEntries
          /\ free' \in Seq(Bids)
      BY <1>0, <2>2, <3>2, LogType DEF BufpoolPop, ProgramOK
    <3>5. fmt_addr' \in Fds \cup {Zeroed, Garbage}
      BY <2>2, <3>1 DEF FormattedAddr
    <3>6. ProgramOK'
      BY <1>0, <1>7, <2>2, <3>4, <3>5
         DEF HandleAccept, AcceptFailureAsserted, Dispatch, Handled, ProgramOK
    <3>7. QueuesOK'
      BY <1>0, <1>7, <2>2, <3>3, <3>4, UringAssumption
         DEF HandleAccept, AcceptFailureAsserted, Dispatch, Handled, QueuesOK
    <3>8. RequestsOK'
      BY <1>0, <2>2 DEF Handled, RequestsOK
    <3>9. QED
      BY <3>6, <3>7, <3>8 DEF TypeOK
  <2>3. QED
    BY <1>7, <2>1, <2>2 DEF HandleAccept, AcceptFailureAsserted
<1>8. CASE HandleRecvmsg
  <2>1. CASE \/ Die("recv_failed") \/ Die("null_sqe") \/ LogEventDies(sq)
    BY <2>1, DieType, LogEventDiesType
  <2>2. CASE /\ Head(cq).res >= 0 /\ CanLog(sq) /\ ~Full(Logged(sq))
             /\ BufpoolPop
             /\ AdvanceReceiveRing
             /\ sq' = Answered(Logged(sq))
             /\ Handled
             /\ UNCHANGED fmt_addr
    <3>1. Head(cq) \in CQE /\ Sender \in Nat
      BY <1>0, <1>8, CqeFd DEF HandleRecvmsg, Dispatch, Sender, QueuesOK
    <3>2. /\ Logged(sq) \in Seq(SQE) /\ Len(Logged(sq)) = Len(sq) + 1
          /\ free' \in Seq(Bids)
      BY <1>0, <2>2, LogType DEF BufpoolPop, ProgramOK, QueuesOK
    <3>3. sq' \in Seq(SQE) /\ Len(sq') = Len(sq) + 2 /\ Len(sq) + 1 < SqEntries
      BY <1>0, <2>2, <3>1, <3>2, MadeSqe, UringAssumption DEF QueuesOK, Full
    <3>4. ProgramOK'
      BY <1>0, <1>8, <2>2, <3>2
         DEF HandleRecvmsg, Dispatch, Handled, ProgramOK
    <3>5. QueuesOK'
      BY <1>0, <1>8, <2>2, <3>3, UringAssumption
         DEF HandleRecvmsg, Dispatch, Handled, QueuesOK
    <3>6. RequestsOK'
      BY <1>0, <2>2 DEF Handled, AdvanceReceiveRing, RequestsOK
    <3>7. QED
      BY <3>4, <3>5, <3>6 DEF TypeOK
  <2>3. QED
    BY <1>8, <2>1, <2>2 DEF HandleRecvmsg
<1>9. QED
  BY <1>1, <1>2, <1>3, <1>4, <1>5, <1>6, <1>7, <1>8 DEF Program

\* A step of the kernel keeps the types.
LEMMA KernelType ==
  ASSUME TypeOK, Kernel
  PROVE  TypeOK'
<1>. USE DEF acceptVars, recvVars, sendVars
<1>0. ProgramOK /\ QueuesOK /\ RequestsOK
  BY DEF TypeOK
<1>a. ProgramOK' /\ UNCHANGED pc
  BY <1>0 DEF Kernel, ProgramOK
<1>1. CASE StartAccept
  <2>1. QueuesOK'
    BY <1>0, <1>1, <1>a, FetchType DEF StartAccept
  <2>2. RequestsOK'
    BY <1>0, <1>1 DEF StartAccept, RequestsOK
  <2>3. QED
    BY <1>a, <2>1, <2>2 DEF TypeOK
<1>2. CASE StartRecvmsg
  <2>1. QueuesOK' /\ Head(sq).fd \in Fds
    BY <1>0, <1>2, <1>a, FetchType, SqeFd DEF StartRecvmsg
  <2>2. RequestsOK'
    BY <1>0, <1>2, <2>1 DEF StartRecvmsg, RequestsOK
  <2>3. QED
    BY <1>a, <2>1, <2>2 DEF TypeOK
<1>3. CASE StartWrite
  <2>1. QueuesOK' /\ Head(sq).fd \in Bids
    BY <1>0, <1>3, <1>a, FetchType, SqeFd DEF StartWrite
  <2>2. RequestsOK'
    BY <1>0, <1>3, <2>1 DEF StartWrite, RequestsOK
  <2>3. QED
    BY <1>a, <2>1, <2>2 DEF TypeOK
<1>4. CASE StartSend
  <2>1. QueuesOK'
    BY <1>0, <1>4, <1>a, FetchType DEF StartSend
  <2>2. sending' \in [Fds -> Nat]
    BY <1>0, <1>4 DEF StartSend, RequestsOK
  <2>3. RequestsOK'
    BY <1>0, <1>4, <2>2 DEF StartSend, RequestsOK
  <2>4. QED
    BY <1>a, <2>1, <2>3 DEF TypeOK
<1>5. ASSUME NEW fd \in Fds, AcceptConnection(fd)
      PROVE  TypeOK'
  <2>1. QueuesOK'
    BY <1>0, <1>5, <1>a, PostType, PostedCqe DEF AcceptConnection
  <2>2. RequestsOK'
    BY <1>0, <1>5 DEF AcceptConnection, Fits, RequestsOK
  <2>3. QED
    BY <1>a, <2>1, <2>2 DEF TypeOK
<1>6. CASE AcceptFails
  <2>1. QueuesOK'
    BY <1>0, <1>6, <1>a, PostType, PostedCqe DEF AcceptFails
  <2>2. RequestsOK'
    BY <1>0, <1>6 DEF AcceptFails, RequestsOK
  <2>3. QED
    BY <1>a, <2>1, <2>2 DEF TypeOK
<1>7. ASSUME NEW fd \in Fds, ReceiveChunk(fd)
      PROVE  TypeOK'
  <2>1. QueuesOK'
    BY <1>0, <1>7, <1>a, PostType, PostedCqe DEF ReceiveChunk
  <2>2. chunks' \in [Fds -> 0..MaxChunks]
    BY <1>0, <1>7, UringAssumption DEF ReceiveChunk, RequestsOK
  <2>3. RequestsOK'
    BY <1>0, <1>7, <2>2 DEF ReceiveChunk, RequestsOK
  <2>4. QED
    BY <1>a, <2>1, <2>3 DEF TypeOK
<1>8. ASSUME NEW fd \in Fds, ReceiveEnd(fd)
      PROVE  TypeOK'
  <2>1. QueuesOK'
    BY <1>0, <1>8, <1>a, PostType, PostedCqe DEF ReceiveEnd
  <2>2. RequestsOK'
    BY <1>0, <1>8 DEF ReceiveEnd, RequestsOK
  <2>3. QED
    BY <1>a, <2>1, <2>2 DEF TypeOK
<1>9. ASSUME NEW fd \in Fds, ReceiveFails(fd)
      PROVE  TypeOK'
  <2>1. QueuesOK'
    BY <1>0, <1>9, <1>a, PostType, PostedCqe DEF ReceiveFails
  <2>2. RequestsOK'
    BY <1>0, <1>9 DEF ReceiveFails, RequestsOK
  <2>3. QED
    BY <1>a, <2>1, <2>2 DEF TypeOK
<1>10. ASSUME NEW bid \in Bids, CompleteWrite(bid)
       PROVE  TypeOK'
  <2>1. QueuesOK'
    BY <1>0, <1>10, <1>a, PostType, PostedCqe DEF CompleteWrite
  <2>2. RequestsOK'
    BY <1>0, <1>10 DEF CompleteWrite, RequestsOK
  <2>3. QED
    BY <1>a, <2>1, <2>2 DEF TypeOK
<1>11. ASSUME NEW fd \in Fds, SendResult(fd)
       PROVE  TypeOK'
  <2>1. QueuesOK'
    BY <1>0, <1>11, <1>a, PostType, PostedCqe DEF SendResult
  <2>2. sending' \in [Fds -> Nat] /\ notifying' \in [Fds -> Nat]
    BY <1>0, <1>11 DEF SendResult, RequestsOK
  <2>3. RequestsOK'
    BY <1>0, <1>11, <2>2 DEF SendResult, RequestsOK
  <2>4. QED
    BY <1>a, <2>1, <2>3 DEF TypeOK
<1>12. ASSUME NEW fd \in Fds, SendNotification(fd)
       PROVE  TypeOK'
  <2>1. QueuesOK'
    BY <1>0, <1>12, <1>a, PostType, PostedCqe DEF SendNotification
  <2>2. notifying' \in [Fds -> Nat]
    BY <1>0, <1>12 DEF SendNotification, RequestsOK
  <2>3. RequestsOK'
    BY <1>0, <1>12, <2>2 DEF SendNotification, RequestsOK
  <2>4. QED
    BY <1>a, <2>1, <2>3 DEF TypeOK
<1>13. QED
  BY <1>1, <1>2, <1>3, <1>4, <1>5, <1>6, <1>7, <1>8, <1>9, <1>10, <1>11, <1>12
     DEF Kernel, KernelWork, Poll, Peers

\* The variables of the program and of its io_uring instance always have the
\* values the code gives them, and neither queue ever outgrows its ring: the
\* submission queue because every io_uring_get_sqe that could fail is followed
\* by a check or by the death of the process (logging.c:90, appctx.c:122 and
\* 159), the visible part of the completion queue because the rest overflows.
THEOREM TypeCorrect == Spec => []TypeOK
<1>1. TypeOK /\ [Next]_vars => TypeOK'
  <2>. SUFFICES ASSUME TypeOK, [Next]_vars PROVE TypeOK'
    OBVIOUS
  <2>1. CASE Next
    BY <2>1, ProgramType, KernelType, DieType DEF Next, WaitInterrupted
  <2>2. CASE UNCHANGED vars
    <3>. USE DEF vars, uringVars, sqVars, cqVars, acceptVars, recvVars, sendVars
    <3>1. ProgramOK'
      BY <2>2 DEF TypeOK, ProgramOK
    <3>2. QueuesOK'
      BY <2>2 DEF TypeOK, QueuesOK
    <3>3. RequestsOK'
      BY <2>2 DEF TypeOK, RequestsOK
    <3>4. QED
      BY <3>1, <3>2, <3>3 DEF TypeOK
  <2>3. QED
    BY <2>1, <2>2
<1>2. QED
  BY <1>1, InitType, PTL DEF Spec

-----------------------------------------------------------------------------
\* What a queue is about after an entry is added, and after one is taken.
LEMMA AppendBids ==
  ASSUME NEW S, NEW s \in Seq(S), NEW e \in S
  PROVE  BidsIn(Append(s, e)) =
           BidsIn(s) \cup (IF e.op = OP_WRITE_FIXED THEN {e.fd} ELSE {})
<1>. DEFINE t == Append(s, e)
<1>1. /\ t \in Seq(S) /\ Len(t) = Len(s) + 1 /\ t[Len(s) + 1] = e
      /\ \A i \in 1..Len(s) : t[i] = s[i]
  OBVIOUS
<1>2. Writes(t) =
        Writes(s) \cup (IF e.op = OP_WRITE_FIXED THEN {Len(s) + 1} ELSE {})
  BY <1>1 DEF Writes
<1>3. QED
  BY <1>1, <1>2 DEF BidsIn, Writes

LEMMA AppendDistinct ==
  ASSUME NEW S, NEW s \in Seq(S), NEW e \in S, Distinct(s),
         e.op = OP_WRITE_FIXED => e.fd \notin BidsIn(s)
  PROVE  Distinct(Append(s, e))
<1>. DEFINE t == Append(s, e)
<1>1. /\ t \in Seq(S) /\ Len(t) = Len(s) + 1 /\ t[Len(s) + 1] = e
      /\ \A i \in 1..Len(s) : t[i] = s[i]
  OBVIOUS
<1>2. SUFFICES ASSUME NEW i \in Writes(t), NEW j \in Writes(t), t[i].fd = t[j].fd
               PROVE  i = j
  BY DEF Distinct
<1>3. \A k \in Writes(t) : k \in Writes(s) \/ (k = Len(s) + 1 /\ e.op = OP_WRITE_FIXED)
  BY <1>1 DEF Writes
<1>4. \A k \in Writes(s) : t[k] = s[k] /\ s[k].fd \in BidsIn(s)
  BY <1>1 DEF Writes, BidsIn
<1>5. CASE i \in Writes(s) /\ j \in Writes(s)
  BY <1>2, <1>4, <1>5 DEF Distinct
<1>6. CASE i \in Writes(s) /\ j = Len(s) + 1 /\ e.op = OP_WRITE_FIXED
  BY <1>1, <1>2, <1>4, <1>6
<1>7. CASE j \in Writes(s) /\ i = Len(s) + 1 /\ e.op = OP_WRITE_FIXED
  BY <1>1, <1>2, <1>4, <1>7
<1>8. QED
  BY <1>2, <1>3, <1>5, <1>6, <1>7

LEMMA AppendOther ==
  ASSUME NEW S, NEW s \in Seq(S), NEW e \in S, Distinct(s),
         e.op # OP_WRITE_FIXED
  PROVE  /\ Append(s, e) \in Seq(S)
         /\ BidsIn(Append(s, e)) = BidsIn(s) /\ Distinct(Append(s, e))
<1>1. Append(s, e) \in Seq(S)
  OBVIOUS
<1>2. BidsIn(Append(s, e)) = BidsIn(s) \cup {}
  BY AppendBids
<1>3. Distinct(Append(s, e))
  BY AppendDistinct
<1>4. QED
  BY <1>1, <1>2, <1>3

LEMMA TailBids ==
  ASSUME NEW S, NEW s \in Seq(S), s # <<>>, Distinct(s)
  PROVE  /\ Distinct(Tail(s))
         /\ BidsIn(Tail(s)) =
              BidsIn(s) \ (IF Head(s).op = OP_WRITE_FIXED THEN {Head(s).fd} ELSE {})
         /\ Head(s).op = OP_WRITE_FIXED => Head(s).fd \in BidsIn(s)
<1>. DEFINE t == Tail(s)
<1>1. /\ t \in Seq(S) /\ Len(t) = Len(s) - 1 /\ Len(s) \in Nat \ {0}
      /\ \A i \in 1..Len(t) : t[i] = s[i + 1]
      /\ Head(s) = s[1]
  OBVIOUS
<1>2. \A i \in Writes(t) : i + 1 \in Writes(s) /\ t[i] = s[i + 1] /\ i \in Nat
  BY <1>1 DEF Writes
<1>3. \A i \in Writes(s) : i = 1 \/ (i - 1 \in Writes(t) /\ t[i - 1] = s[i])
  BY <1>1 DEF Writes
<1>4. 1 \in Writes(s) <=> Head(s).op = OP_WRITE_FIXED
  BY <1>1 DEF Writes
<1>5. Distinct(t)
  <2>. SUFFICES ASSUME NEW i \in Writes(t), NEW j \in Writes(t), t[i].fd = t[j].fd
                PROVE  i = j
    BY DEF Distinct
  <2>1. i + 1 = j + 1
    BY <1>2 DEF Distinct
  <2>2. QED
    BY <2>1, <1>2
<1>6. Head(s).op = OP_WRITE_FIXED => Head(s).fd \in BidsIn(s)
  BY <1>1, <1>4 DEF BidsIn
<1>7. ASSUME NEW b \in BidsIn(t)
      PROVE  b \in BidsIn(s) /\ (Head(s).op = OP_WRITE_FIXED => b # Head(s).fd)
  <2>1. PICK i \in Writes(t) : t[i].fd = b
    BY <1>7 DEF BidsIn
  <2>2. i + 1 \in Writes(s) /\ s[i + 1].fd = b /\ i \in Nat \ {0}
    BY <1>2, <2>1 DEF Writes
  <2>3. b \in BidsIn(s)
    BY <2>2 DEF BidsIn
  <2>4. ASSUME Head(s).op = OP_WRITE_FIXED, b = Head(s).fd PROVE FALSE
    <3>1. 1 \in Writes(s) /\ s[1].fd = s[i + 1].fd
      BY <1>1, <1>4, <2>2, <2>4
    <3>2. 1 = i + 1
      BY <2>2, <3>1 DEF Distinct
    <3>3. QED
      BY <2>2, <3>2
  <2>5. QED
    BY <2>3, <2>4
<1>8. ASSUME NEW b \in BidsIn(s), ~(Head(s).op = OP_WRITE_FIXED /\ b = Head(s).fd)
      PROVE  b \in BidsIn(t)
  <2>1. PICK i \in Writes(s) : s[i].fd = b
    BY <1>8 DEF BidsIn
  <2>2. i # 1
    BY <1>1, <1>4, <1>8, <2>1
  <2>3. i - 1 \in Writes(t) /\ t[i - 1].fd = b
    BY <1>3, <2>1, <2>2
  <2>4. QED
    BY <2>3 DEF BidsIn
<1>9. QED
  BY <1>5, <1>6, <1>7, <1>8

\* The freelist after a pop and after a put.
LEMMA PopRange ==
  ASSUME NEW S, NEW s \in Seq(S), s # <<>>, IsInjective(s)
  PROVE  /\ IsInjective(Tail(s)) /\ Head(s) \in Range(s)
         /\ Range(Tail(s)) = Range(s) \ {Head(s)}
<1>. DEFINE t == Tail(s)
<1>1. /\ DOMAIN s = 1..Len(s) /\ DOMAIN t = 1..(Len(s) - 1)
      /\ Len(s) \in Nat \ {0} /\ Head(s) = s[1]
      /\ \A i \in DOMAIN t : t[i] = s[i + 1]
  OBVIOUS
<1>2. IsInjective(t)
  BY <1>1 DEF IsInjective
<1>3. Head(s) \in Range(s)
  BY <1>1 DEF Range
<1>4. ASSUME NEW x \in Range(t) PROVE x \in Range(s) /\ x # Head(s)
  BY <1>1, <1>4 DEF Range, IsInjective
<1>5. ASSUME NEW x \in Range(s), x # Head(s) PROVE x \in Range(t)
  <2>1. PICK i \in DOMAIN s : s[i] = x
    BY <1>5 DEF Range
  <2>2. i - 1 \in DOMAIN t /\ t[i - 1] = x
    BY <1>1, <1>5, <2>1
  <2>3. QED
    BY <2>2 DEF Range
<1>6. QED
  BY <1>2, <1>3, <1>4, <1>5

LEMMA PutRange ==
  ASSUME NEW S, NEW s \in Seq(S), IsInjective(s), NEW b \in S, b \notin Range(s)
  PROVE  IsInjective(<<b>> \o s) /\ Range(<<b>> \o s) = Range(s) \cup {b}
<1>. DEFINE t == <<b>> \o s
<1>1. /\ DOMAIN s = 1..Len(s) /\ DOMAIN t = 1..(Len(s) + 1)
      /\ Len(s) \in Nat /\ t[1] = b
      /\ \A i \in DOMAIN s : t[i + 1] = s[i]
  OBVIOUS
<1>2. \A i \in DOMAIN t : i = 1 \/ (i - 1 \in DOMAIN s /\ t[i] = s[i - 1])
  BY <1>1
<1>3. \A i \in DOMAIN s : s[i] # b
  BY DEF Range
<1>4. IsInjective(t)
  BY <1>1, <1>2, <1>3 DEF IsInjective
<1>5. \A x \in Range(t) : x \in Range(s) \cup {b}
  BY <1>1, <1>2 DEF Range
<1>6. \A x \in Range(s) \cup {b} : x \in Range(t)
  <2>1. b \in Range(t)
    BY <1>1 DEF Range
  <2>2. ASSUME NEW i \in DOMAIN s PROVE s[i] \in Range(t)
    <3>1. i + 1 \in DOMAIN t /\ t[i + 1] = s[i]
      BY <1>1
    <3>2. QED
      BY <3>1 DEF Range
  <2>3. QED
    BY <2>1, <2>2 DEF Range
<1>7. QED
  BY <1>4, <1>5, <1>6

-----------------------------------------------------------------------------
\* What stays where it is when nothing about buffers changes.
LEMMA PoolStays ==
  ASSUME PoolConserved, UNCHANGED <<free, writing>>,
         BidsIn(sq') = BidsIn(sq), Distinct(sq'),
         BidsIn(Unhandled') = BidsIn(Unhandled), Distinct(Unhandled')
  PROVE  PoolConserved'
  BY DEF PoolConserved

\* Logging a line moves a buffer from the freelist to the queue; q is the
\* queue as the caller leaves it.
LEMMA LogMoves ==
  ASSUME TypeOK, PoolConserved, NEW q \in Seq(SQE),
         BidsIn(q) = BidsIn(sq), Distinct(q), CanLog(q), BufpoolPop
  PROVE  /\ Logged(q) \in Seq(SQE) /\ Distinct(Logged(q))
         /\ BidsIn(Logged(q)) = BidsIn(sq) \cup {Head(free)}
         /\ IsInjective(free') /\ Head(free) \in Range(free)
         /\ Range(free') = Range(free) \ {Head(free)}
<1>. DEFINE bid == Head(free)
            e   == Sqe(OP_WRITE_FIXED, bid)
<1>1. free \in Seq(Bids) /\ free # <<>> /\ IsInjective(free)
  BY DEF TypeOK, ProgramOK, CanLog, PoolConserved
<1>2. /\ IsInjective(Tail(free)) /\ bid \in Range(free)
      /\ Range(Tail(free)) = Range(free) \ {bid}
  BY <1>1, PopRange
<1>3. bid \in Bids /\ Logged(q) \in Seq(SQE)
  BY <1>1, LogType
<1>4. e \in SQE /\ e.op = OP_WRITE_FIXED /\ e.fd = bid
  BY <1>3, MadeSqe DEF Sqe
<1>5. bid \notin BidsIn(q)
  BY <1>2 DEF PoolConserved
<1>6. BidsIn(Logged(q)) = BidsIn(q) \cup {bid}
  BY <1>4, AppendBids DEF Logged
<1>7. Distinct(Logged(q))
  BY <1>4, <1>5, AppendDistinct DEF Logged
<1>8. QED
  BY <1>2, <1>3, <1>6, <1>7 DEF BufpoolPop

\* A completion is handled: what it was about is no longer to be handled.
LEMMA HandledMoves ==
  ASSUME TypeOK, PoolConserved, NEW op, Dispatch(op), Handled
  PROVE  /\ Unhandled = cq /\ Distinct(Unhandled')
         /\ op = OP_WRITE_FIXED => /\ Head(cq).fd \in BidsIn(Unhandled)
                                   /\ BidsIn(Unhandled') =
                                        BidsIn(Unhandled) \ {Head(cq).fd}
         /\ op # OP_WRITE_FIXED => BidsIn(Unhandled') = BidsIn(Unhandled)
<1>1. Unhandled = cq /\ Unhandled' = Tail(cq)
  BY DEF Dispatch, Handled, cqVars, Unhandled
<1>2. cq \in Seq(CQE) /\ cq # <<>> /\ Head(cq).op = op
  BY DEF TypeOK, QueuesOK, Dispatch
<1>3. Distinct(cq)
  BY <1>1 DEF PoolConserved
<1>4. QED
  BY <1>1, <1>2, <1>3, TailBids

\* A step of the program keeps every buffer in one place.
LEMMA ProgramConserves ==
  ASSUME TypeOK, PoolConserved, Program
  PROVE  PoolConserved'
<1>. USE DEF sqVars, cqVars, acceptVars, recvVars, sendVars
<1>0. sq \in Seq(SQE) /\ cq \in Seq(CQE) /\ Distinct(sq) /\ Distinct(Unhandled)
  BY DEF TypeOK, QueuesOK, PoolConserved
\* The process dies in a handler or in the logger.
<1>d. ASSUME pc = "wait", NEW why, Die(why)
      PROVE  PoolConserved'
  <2>1. UNCHANGED <<sq, cq, free, writing>> /\ Unhandled' = Unhandled
    BY <1>d DEF Die, uringVars, Unhandled
  <2>2. QED
    BY <1>0, <2>1, PoolStays
<1>l. ASSUME pc = "wait", NEW q, LogEventDies(q)
      PROVE  PoolConserved'
  BY <1>d, <1>l DEF LogEventDies
<1>1. CASE QueueAccept
  <2>. DEFINE e == Sqe(OP_ACCEPT, ListenFd)
  <2>1. e \in SQE /\ e.op # OP_WRITE_FIXED /\ sq' = Append(sq, e)
    BY <1>1, MadeSqe DEF QueueAccept, Sqe
  <2>2. BidsIn(sq') = BidsIn(sq) /\ Distinct(sq')
    BY <1>0, <2>1, AppendOther
  <2>3. UNCHANGED <<free, writing>> /\ Unhandled' = Unhandled
    BY <1>1 DEF QueueAccept, Unhandled
  <2>4. QED
    BY <1>0, <2>2, <2>3, PoolStays
<1>2. CASE Greet
  <2>1. /\ Distinct(sq') /\ BidsIn(sq') = BidsIn(sq) \cup {Head(free)}
        /\ IsInjective(free') /\ Head(free) \in Range(free)
        /\ Range(free') = Range(free) \ {Head(free)}
    BY <1>0, <1>2, LogMoves DEF Greet
  <2>2. UNCHANGED writing /\ Unhandled' = Unhandled
    BY <1>2 DEF Greet, Unhandled
  <2>3. QED
    BY <2>1, <2>2 DEF PoolConserved
<1>3. CASE Submit
  <2>1. UNCHANGED <<sq, cq, free, writing>> /\ Unhandled' = Unhandled
    BY <1>3 DEF Submit, Unhandled
  <2>2. QED
    BY <1>0, <2>1, PoolStays
<1>4. CASE Seen
  <2>1. UNCHANGED <<sq, free, writing>> /\ Unhandled' = Unhandled
    BY <1>4 DEF Seen, Unhandled
  <2>2. QED
    BY <1>0, <2>1, PoolStays
<1>5. CASE HandleWriteFixed
  <2>. DEFINE bid == Head(cq).fd
  <2>1. Dispatch(OP_WRITE_FIXED) /\ Handled
    BY <1>5 DEF HandleWriteFixed
  <2>2. /\ bid \in BidsIn(Unhandled) /\ Distinct(Unhandled')
        /\ BidsIn(Unhandled') = BidsIn(Unhandled) \ {bid}
    BY <2>1, HandledMoves
  <2>3. bid \in Bids /\ bid \notin Range(free)
    BY <2>2 DEF PoolConserved
  <2>4. IsInjective(free') /\ Range(free') = Range(free) \cup {bid}
    BY <1>5, <2>3, PutRange
       DEF HandleWriteFixed, BufpoolPut, TypeOK, ProgramOK, PoolConserved
  <2>5. UNCHANGED <<sq, writing>>
    BY <1>5 DEF HandleWriteFixed, Handled
  <2>6. QED
    BY <2>2, <2>3, <2>4, <2>5 DEF PoolConserved
<1>6. CASE HandleSendmsg
  <2>1. Dispatch(OP_SENDMSG) /\ Handled /\ UNCHANGED <<sq, free, writing>>
    BY <1>6 DEF HandleSendmsg, Handled
  <2>2. BidsIn(Unhandled') = BidsIn(Unhandled) /\ Distinct(Unhandled')
    BY <2>1, HandledMoves
  <2>3. QED
    BY <1>0, <2>1, <2>2, PoolStays
<1>7. CASE HandleAccept
  <2>. DEFINE clientfd == Head(cq).res
              e        == Sqe(OP_RECVMSG, clientfd)
              q        == Append(sq, e)
  <2>1. CASE Die("accept_failed") \/ Die("null_sqe") \/ LogEventDies(q)
    BY <1>7, <2>1, <1>d, <1>l DEF HandleAccept, AcceptFailureAsserted, Dispatch
  <2>2. CASE clientfd >= 0 /\ CanLog(q) /\ sq' = Logged(q) /\ BufpoolPop /\ Handled
    <3>1. Head(cq) \in CQE /\ clientfd \in Fds
      BY <1>0, <1>7, <2>2, CqeFd DEF HandleAccept, AcceptFailureAsserted, Dispatch, TypeOK, QueuesOK
    <3>2. e \in SQE /\ e.op # OP_WRITE_FIXED
      BY <3>1, MadeSqe DEF Sqe
    <3>3. q \in Seq(SQE) /\ BidsIn(q) = BidsIn(sq) /\ Distinct(q)
      BY <1>0, <3>2, AppendOther
    <3>4. /\ Distinct(sq') /\ BidsIn(sq') = BidsIn(sq) \cup {Head(free)}
          /\ IsInjective(free') /\ Head(free) \in Range(free)
          /\ Range(free') = Range(free) \ {Head(free)}
      BY <2>2, <3>3, LogMoves
    <3>5. BidsIn(Unhandled') = BidsIn(Unhandled) /\ Distinct(Unhandled')
      BY <1>7, <2>2, HandledMoves DEF HandleAccept, AcceptFailureAsserted
    <3>6. UNCHANGED writing
      BY <2>2 DEF Handled
    <3>7. QED
      BY <3>4, <3>5, <3>6 DEF PoolConserved
  <2>3. QED
    BY <1>7, <2>1, <2>2 DEF HandleAccept, AcceptFailureAsserted
<1>8. CASE HandleRecvmsg
  <2>. DEFINE e == Sqe(OP_SENDMSG, Sender)
  <2>1. CASE Die("recv_failed") \/ Die("null_sqe") \/ LogEventDies(sq)
    BY <1>8, <2>1, <1>d, <1>l DEF HandleRecvmsg, Dispatch
  <2>2. CASE CanLog(sq) /\ sq' = Append(Logged(sq), e) /\ BufpoolPop /\ Handled
    <3>1. Head(cq) \in CQE /\ Sender \in Nat
      BY <1>0, <1>8, CqeFd DEF HandleRecvmsg, Dispatch, Sender, TypeOK, QueuesOK
    <3>2. e \in SQE /\ e.op # OP_WRITE_FIXED
      BY <3>1, MadeSqe DEF Sqe
    <3>3. /\ Logged(sq) \in Seq(SQE) /\ Distinct(Logged(sq))
          /\ BidsIn(Logged(sq)) = BidsIn(sq) \cup {Head(free)}
          /\ IsInjective(free') /\ Head(free) \in Range(free)
          /\ Range(free') = Range(free) \ {Head(free)}
      BY <1>0, <2>2, LogMoves
    <3>4. Distinct(sq') /\ BidsIn(sq') = BidsIn(sq) \cup {Head(free)}
      BY <2>2, <3>2, <3>3, AppendOther
    <3>5. BidsIn(Unhandled') = BidsIn(Unhandled) /\ Distinct(Unhandled')
      BY <1>8, <2>2, HandledMoves DEF HandleRecvmsg
    <3>6. UNCHANGED writing
      BY <2>2 DEF Handled
    <3>7. QED
      BY <3>3, <3>4, <3>5, <3>6 DEF PoolConserved
  <2>3. QED
    BY <1>8, <2>1, <2>2 DEF HandleRecvmsg
<1>9. QED
  BY <1>1, <1>2, <1>3, <1>4, <1>5, <1>6, <1>7, <1>8 DEF Program

\* The SQPOLL thread takes an entry: what it was about leaves the queue.
LEMMA FetchMoves ==
  ASSUME TypeOK, PoolConserved, NEW op, Fetch(op), UNCHANGED pc
  PROVE  /\ Distinct(sq') /\ Distinct(Unhandled')
         /\ BidsIn(Unhandled') = BidsIn(Unhandled)
         /\ op = OP_WRITE_FIXED => /\ Head(sq).fd \in BidsIn(sq)
                                   /\ BidsIn(sq') = BidsIn(sq) \ {Head(sq).fd}
         /\ op # OP_WRITE_FIXED => BidsIn(sq') = BidsIn(sq)
<1>1. Unhandled' = Unhandled
  BY DEF Fetch, cqVars, Unhandled
<1>2. sq \in Seq(SQE) /\ sq # <<>> /\ Head(sq).op = op /\ sq' = Tail(sq)
  BY DEF TypeOK, QueuesOK, Fetch
<1>3. Distinct(sq) /\ Distinct(Unhandled)
  BY DEF PoolConserved
<1>4. QED
  BY <1>1, <1>2, <1>3, TailBids

\* A posted completion is one more to be handled.
LEMMA PostMoves ==
  ASSUME TypeOK, PoolConserved, NEW op, NEW fd, NEW res,
         [op |-> op, fd |-> EncodeFd(fd), res |-> res] \in CQE,
         Post(op, fd, res), UNCHANGED pc
  PROVE  /\ Unhandled \in Seq(CQE)
         /\ Unhandled' =
              Append(Unhandled, [op |-> op, fd |-> EncodeFd(fd), res |-> res])
         /\ sq' = sq /\ Distinct(sq) /\ Distinct(Unhandled)
<1>. DEFINE e == [op |-> op, fd |-> EncodeFd(fd), res |-> res]
<1>1. cq \in Seq(CQE) /\ cq' = Append(cq, e) /\ sq' = sq
  BY CompletionIs DEF TypeOK, QueuesOK, Post, sqVars
<1>2. pc = "handled" => cq # <<>>
  BY DEF TypeOK, QueuesOK
<1>3. cq # <<>> => Tail(cq) \in Seq(CQE) /\ Tail(Append(cq, e)) = Append(Tail(cq), e)
  BY <1>1
<1>4. QED
  BY <1>1, <1>2, <1>3 DEF Unhandled, PoolConserved

LEMMA PostOther ==
  ASSUME TypeOK, PoolConserved, NEW op, NEW fd, NEW res,
         [op |-> op, fd |-> EncodeFd(fd), res |-> res] \in CQE,
         op # OP_WRITE_FIXED, Post(op, fd, res),
         UNCHANGED <<pc, free, writing>>
  PROVE  PoolConserved'
<1>. DEFINE e == [op |-> op, fd |-> EncodeFd(fd), res |-> res]
<1>1. /\ Unhandled \in Seq(CQE) /\ Unhandled' = Append(Unhandled, e)
      /\ sq' = sq /\ Distinct(sq) /\ Distinct(Unhandled)
  BY PostMoves
<1>2. e \in CQE /\ e.op # OP_WRITE_FIXED
  OBVIOUS
<1>3. BidsIn(Unhandled') = BidsIn(Unhandled) /\ Distinct(Unhandled')
  BY <1>1, <1>2, AppendOther
<1>4. QED
  BY <1>1, <1>3, PoolStays

\* A step of the kernel keeps every buffer in one place.
LEMMA KernelConserves ==
  ASSUME TypeOK, PoolConserved, Kernel
  PROVE  PoolConserved'
<1>. USE DEF acceptVars, recvVars, sendVars
<1>0. UNCHANGED <<pc, free>>
  BY DEF Kernel
<1>1. ASSUME NEW op, op # OP_WRITE_FIXED, Fetch(op), UNCHANGED writing
      PROVE  PoolConserved'
  BY <1>0, <1>1, FetchMoves, PoolStays
<1>2. CASE StartWrite
  <2>. DEFINE bid == Head(sq).fd
  <2>1. /\ Distinct(sq') /\ Distinct(Unhandled')
        /\ BidsIn(Unhandled') = BidsIn(Unhandled)
        /\ bid \in BidsIn(sq) /\ BidsIn(sq') = BidsIn(sq) \ {bid}
    BY <1>0, <1>2, FetchMoves DEF StartWrite
  <2>2. writing' = writing \cup {bid}
    BY <1>2 DEF StartWrite
  <2>3. QED
    BY <1>0, <2>1, <2>2 DEF PoolConserved
<1>3. ASSUME NEW bid \in Bids, CompleteWrite(bid)
      PROVE  PoolConserved'
  <2>. DEFINE e == [op |-> OP_WRITE_FIXED, fd |-> EncodeFd(bid), res |-> 0]
  <2>1. e \in CQE /\ e.op = OP_WRITE_FIXED /\ e.fd = bid
    BY PostedCqe, EncodeBid
  <2>2. /\ Unhandled \in Seq(CQE) /\ Unhandled' = Append(Unhandled, e)
        /\ sq' = sq /\ Distinct(sq) /\ Distinct(Unhandled)
    BY <1>0, <1>3, <2>1, PostMoves DEF CompleteWrite
  <2>3. bid \in writing /\ bid \notin BidsIn(Unhandled) /\ writing' = writing \ {bid}
    BY <1>3 DEF CompleteWrite, PoolConserved
  <2>4. BidsIn(Unhandled') = BidsIn(Unhandled) \cup {bid}
    BY <2>1, <2>2, AppendBids
  <2>5. Distinct(Unhandled')
    BY <2>1, <2>2, <2>3, AppendDistinct
  <2>6. QED
    BY <1>0, <2>2, <2>3, <2>4, <2>5 DEF PoolConserved
<1>4. CASE AcceptFails
  <2>1. Post(OP_ACCEPT, ListenFd, -1) /\ UNCHANGED writing
    BY <1>4 DEF AcceptFails
  <2>2. [op |-> OP_ACCEPT, fd |-> EncodeFd(ListenFd), res |-> -1] \in CQE
    BY PostedCqe
  <2>3. QED
    BY <1>0, <2>1, <2>2, PostOther
<1>5. ASSUME NEW fd \in Fds,
             AcceptConnection(fd) \/ ReceiveChunk(fd) \/ ReceiveEnd(fd)
               \/ ReceiveFails(fd) \/ SendResult(fd) \/ SendNotification(fd)
      PROVE  PoolConserved'
  <2>1. UNCHANGED writing
    BY <1>5 DEF AcceptConnection, ReceiveChunk, ReceiveEnd, ReceiveFails,
                SendResult, SendNotification
  <2>2. \/ Post(OP_ACCEPT, ListenFd, fd)
        \/ Post(OP_RECVMSG, fd, 1) \/ Post(OP_RECVMSG, fd, -1)
        \/ Post(OP_SENDMSG, fd, 0)
    BY <1>5 DEF AcceptConnection, ReceiveChunk, ReceiveEnd, ReceiveFails,
                SendResult, SendNotification
  <2>3. /\ [op |-> OP_ACCEPT, fd |-> EncodeFd(ListenFd), res |-> fd] \in CQE
        /\ [op |-> OP_RECVMSG, fd |-> EncodeFd(fd), res |-> 1] \in CQE
        /\ [op |-> OP_RECVMSG, fd |-> EncodeFd(fd), res |-> -1] \in CQE
        /\ [op |-> OP_SENDMSG, fd |-> EncodeFd(fd), res |-> 0] \in CQE
    BY PostedCqe
  <2>4. CASE Post(OP_ACCEPT, ListenFd, fd)
    BY <1>0, <2>1, <2>3, <2>4, PostOther
  <2>5. CASE Post(OP_RECVMSG, fd, 1)
    BY <1>0, <2>1, <2>3, <2>5, PostOther
  <2>6. CASE Post(OP_RECVMSG, fd, -1)
    BY <1>0, <2>1, <2>3, <2>6, PostOther
  <2>7. CASE Post(OP_SENDMSG, fd, 0)
    BY <1>0, <2>1, <2>3, <2>7, PostOther
  <2>8. QED
    BY <2>2, <2>4, <2>5, <2>6, <2>7
<1>6. CASE StartAccept \/ StartRecvmsg \/ StartSend
  <2>1. UNCHANGED writing
    BY <1>6 DEF StartAccept, StartRecvmsg, StartSend
  <2>2. Fetch(OP_ACCEPT) \/ Fetch(OP_RECVMSG) \/ Fetch(OP_SENDMSG)
    BY <1>6 DEF StartAccept, StartRecvmsg, StartSend
  <2>3. QED
    BY <1>1, <2>1, <2>2
<1>7. QED
  BY <1>2, <1>3, <1>4, <1>5, <1>6 DEF Kernel, KernelWork, Poll, Peers

\* Dying while waiting moves no buffer.
LEMMA InterruptConserves ==
  ASSUME PoolConserved, WaitInterrupted
  PROVE  PoolConserved'
<1>1. UNCHANGED <<sq, cq, free, writing>> /\ Unhandled' = Unhandled
  BY DEF WaitInterrupted, Die, uringVars, sqVars, cqVars, Unhandled
<1>2. QED
  BY <1>1, PoolStays, Zenon DEF PoolConserved

\* In the initial state every buffer is in the freelist, once.
LEMMA InitConserves == Init => PoolConserved
<1>. SUFFICES ASSUME Init PROVE PoolConserved
  OBVIOUS
<1>1. free = [i \in 1..PoolSize |-> PoolSize - i] /\ PoolSize \in Nat
  BY ServerAssumption DEF Init
<1>2. IsInjective(free)
  BY <1>1 DEF IsInjective
<1>3. \A bid \in Bids : PoolSize - bid \in DOMAIN free /\ free[PoolSize - bid] = bid
  BY <1>1 DEF Bids
<1>4. \A i \in DOMAIN free : free[i] \in Bids
  BY <1>1 DEF Bids
<1>5. Range(free) = Bids
  BY <1>3, <1>4 DEF Range
<1>6. sq = <<>> /\ Unhandled = <<>> /\ writing = {}
  BY DEF Init, UringInit, Unhandled
<1>7. Writes(<<>>) = {}
  BY DEF Writes
<1>8. BidsIn(<<>>) = {} /\ Distinct(<<>>)
  BY <1>7 DEF BidsIn, Distinct
<1>9. QED
  BY <1>2, <1>5, <1>6, <1>8 DEF PoolConserved

\* No log buffer is ever lost, lent twice, or written by log_event while the
\* kernel reads it: bufpool_pop and bufpool_put (appctx.c:80-93) and the
\* completions of the writes (main.c:30-34) keep each one in one place.
THEOREM BuffersConserved == Spec => []PoolConserved
<1>1. TypeOK /\ PoolConserved /\ [Next]_vars => PoolConserved'
  <2>. SUFFICES ASSUME TypeOK, PoolConserved, [Next]_vars PROVE PoolConserved'
    OBVIOUS
  <2>1. CASE Next
    BY <2>1, ProgramConserves, KernelConserves, InterruptConserves DEF Next
  <2>2. CASE UNCHANGED vars
    BY <2>2 DEF vars, uringVars, sqVars, cqVars, PoolConserved, Unhandled
  <2>3. QED
    BY <2>1, <2>2
<1>2. QED
  BY <1>1, InitConserves, TypeCorrect, PTL DEF Spec

-----------------------------------------------------------------------------
\* The lender's view of the steps: as every buffer is in one place, those that
\* lines are on their way in are those that are not in the freelist.
LEMMA InFlightIs ==
  /\ PoolConserved => InFlight = Bids \ Range(free)
  /\ PoolConserved' => InFlight' = Bids \ Range(free')
<1>1. ASSUME PoolConserved PROVE InFlight = Bids \ Range(free)
  BY <1>1 DEF PoolConserved, InFlight
<1>2. ASSUME PoolConserved' PROVE InFlight' = Bids \ Range(free')
  BY <1>2 DEF PoolConserved, InFlight
<1>3. QED
  BY <1>1, <1>2

\* The step queues no line, and queues one into the buffer at the head of the
\* freelist and no other.
LogsNothing == \A bid \in Bids : ~LogsInto(bid)
LogsToHead  == \A bid \in Bids : LogsInto(bid) => bid = Head(free)

LEMMA NothingLogged ==
  ASSUME NEW S, sq \in Seq(S),
         \/ sq' = sq
         \/ sq # <<>> /\ sq' = Tail(sq)
         \/ \E e \in S : e.op # OP_WRITE_FIXED /\ sq' = Append(sq, e)
  PROVE  LogsNothing
<1>. SUFFICES ASSUME NEW bid \in Bids, NEW i \in DOMAIN sq', i > Len(sq),
                     sq'[i] = Sqe(OP_WRITE_FIXED, bid)
              PROVE  FALSE
  BY DEF LogsNothing, LogsInto
<1>1. PICK n \in Nat : n = Len(sq) /\ DOMAIN sq = 1..n
  OBVIOUS
<1>2. CASE sq' = sq
  BY <1>1, <1>2
<1>3. CASE sq # <<>> /\ sq' = Tail(sq)
  BY <1>1, <1>3
<1>4. ASSUME NEW e \in S, e.op # OP_WRITE_FIXED, sq' = Append(sq, e)
      PROVE  FALSE
  <2>1. i = n + 1 /\ sq'[i] = e
    BY <1>1, <1>4
  <2>2. QED
    BY <1>4, <2>1 DEF Sqe
<1>5. QED
  BY <1>2, <1>3, <1>4

\* However many other entries the handler queues before and after the line.
LEMMA HeadLogged ==
  ASSUME sq \in Seq(SQE), free \in Seq(Bids), free # <<>>,
         NEW c, NEW e,
         c.op # OP_WRITE_FIXED, e.op # OP_WRITE_FIXED, c \in SQE, e \in SQE,
         \/ sq' = Logged(sq)
         \/ sq' = Logged(Append(sq, c))
         \/ sq' = Append(Logged(sq), e)
  PROVE  LogsToHead
<1>. DEFINE w == Sqe(OP_WRITE_FIXED, Head(free))
<1>0. w \in SQE
  BY MadeSqe
<1>. SUFFICES ASSUME NEW bid \in Bids, NEW i \in DOMAIN sq', i > Len(sq),
                     sq'[i] = Sqe(OP_WRITE_FIXED, bid)
              PROVE  bid = Head(free)
  BY DEF LogsToHead, LogsInto
<1>1. PICK n \in Nat : n = Len(sq) /\ DOMAIN sq = 1..n
  OBVIOUS
<1>2. sq'[i] \in {c, w, e}
  <2> HIDE DEF w
  <2>1. CASE sq' = Append(sq, w)
    BY <1>0, <1>1, <2>1
  <2>2. CASE sq' = Append(Append(sq, c), w)
    <3>1. i = n + 1 \/ i = n + 2
      BY <1>0, <1>1, <2>2
    <3>2. QED
      BY <1>0, <1>1, <2>2, <3>1
  <2>3. CASE sq' = Append(Append(sq, w), e)
    <3>1. i = n + 1 \/ i = n + 2
      BY <1>0, <1>1, <2>3
    <3>2. QED
      BY <1>0, <1>1, <2>3, <3>1
  <2>4. QED
    BY <2>1, <2>2, <2>3 DEF Logged, w
<1>3. QED
  BY <1>2 DEF Sqe

-----------------------------------------------------------------------------
\* What a step can be for the lender.  Most change nothing.
NoLoan ==
  UNCHANGED <<free, cause>> /\ LogsNothing /\ ~HandleWriteFixed

\* A line goes to the buffer at the head of the freelist.
Loan ==
  /\ free # <<>> /\ BufpoolPop /\ UNCHANGED cause
  /\ LogsToHead /\ ~HandleWriteFixed /\ cause = "none"

\* The server dies, for want of a buffer or of something else.
NoBuffer ==
  /\ cause = "none" /\ LogsNothing /\ ~HandleWriteFixed /\ UNCHANGED free
  /\ cause' = "no_log_buffer" => free = <<>>

LEMMA LoanKinds ==
  ASSUME TypeOK, Next
  PROVE  NoLoan \/ Loan \/ NoBuffer \/ HandleWriteFixed
<1>. USE DEF sqVars, cqVars, acceptVars, recvVars, sendVars
<1>0. /\ sq \in Seq(SQE) /\ cq \in Seq(CQE) /\ free \in Seq(Bids)
      /\ (pc # "dead" => cause = "none")
  BY DEF TypeOK, ProgramOK, QueuesOK
<1>w. HandleWriteFixed => pc = "wait" /\ pc' = "handled" /\ Head(cq).op = OP_WRITE_FIXED
  BY DEF HandleWriteFixed, Dispatch, Handled
<1>d. ASSUME pc # "dead", NEW why, Die(why), why = "no_log_buffer" => free = <<>>
      PROVE  NoBuffer
  <2>1. sq' = sq /\ free' = free /\ cause' = why /\ pc' = "dead"
    BY <1>d DEF Die, uringVars
  <2>2. LogsNothing
    BY <1>0, <2>1, NothingLogged
  <2>3. QED
    BY <1>0, <1>d, <1>w, <2>1, <2>2 DEF NoBuffer
<1>l. ASSUME pc # "dead", NEW q, LogEventDies(q) PROVE NoBuffer
  BY <1>d, <1>l DEF LogEventDies
<1>1. CASE Kernel
  <2>1. UNCHANGED <<pc, cause, free>>
    BY <1>1 DEF Kernel
  <2>2. sq' = sq \/ (sq # <<>> /\ sq' = Tail(sq))
    <3>1. ASSUME NEW op, Fetch(op) PROVE sq # <<>> /\ sq' = Tail(sq)
      BY <1>0, <3>1 DEF Fetch, TypeOK, QueuesOK
    <3>2. CASE Poll
      BY <3>1, <3>2 DEF Poll, StartAccept, StartRecvmsg, StartWrite, StartSend
    <3>3. CASE Peers
      BY <3>3 DEF Peers, AcceptConnection, AcceptFails, ReceiveChunk,
                  ReceiveEnd, ReceiveFails, Post
    <3>4. CASE \E bid \in Bids : CompleteWrite(bid)
      BY <3>4 DEF CompleteWrite, Post
    <3>5. CASE \E fd \in Fds : SendResult(fd) \/ SendNotification(fd)
      BY <3>5 DEF SendResult, SendNotification, Post
    <3>6. QED
      BY <1>1, <3>2, <3>3, <3>4, <3>5 DEF Kernel, KernelWork
  <2>3. LogsNothing
    BY <1>0, <2>2, NothingLogged
  <2>4. QED
    BY <1>w, <2>1, <2>3 DEF NoLoan
<1>2. CASE QueueAccept
  <2>1. Sqe(OP_ACCEPT, ListenFd) \in SQE /\ Sqe(OP_ACCEPT, ListenFd).op # OP_WRITE_FIXED
    BY MadeSqe DEF Sqe
  <2>2. LogsNothing
    BY <1>0, <1>2, <2>1, NothingLogged DEF QueueAccept
  <2>3. QED
    BY <1>2, <1>w, <2>2 DEF QueueAccept, NoLoan
<1>3. CASE Submit \/ Seen
  <2>1. LogsNothing
    BY <1>0, <1>3, NothingLogged DEF Submit, Seen
  <2>2. QED
    BY <1>3, <1>w, <2>1 DEF Submit, Seen, NoLoan
<1>4. CASE HandleSendmsg
  <2>1. UNCHANGED <<sq, free, cause>> /\ ~HandleWriteFixed
    BY <1>4, <1>w DEF HandleSendmsg, Handled, Dispatch
  <2>2. LogsNothing
    BY <1>0, <2>1, NothingLogged
  <2>3. QED
    BY <2>1, <2>2 DEF NoLoan
\* An entry that is not a log write, where there is none.
<1>a. Sqe(OP_ACCEPT, ListenFd) \in SQE /\ Sqe(OP_ACCEPT, ListenFd).op # OP_WRITE_FIXED
  BY MadeSqe DEF Sqe
<1>5. CASE Greet
  <2>1. free # <<>> /\ sq' = Logged(sq) /\ BufpoolPop /\ UNCHANGED <<pc, cause>> /\ pc = "greet"
    BY <1>5 DEF Greet, CanLog
  <2>2. LogsToHead
    BY <1>0, <1>a, <2>1, HeadLogged
  <2>3. QED
    BY <1>0, <1>w, <2>1, <2>2 DEF Loan
<1>6. CASE HandleAccept
  <2>. DEFINE clientfd == Head(cq).res
              c == Sqe(OP_RECVMSG, clientfd)
              q == Append(sq, c)
  <2>0. pc = "wait" /\ Dispatch(OP_ACCEPT)
    BY <1>6 DEF HandleAccept, Dispatch
  <2>1. CASE Die("accept_failed") \/ Die("null_sqe") \/ LogEventDies(q)
    BY <2>0, <2>1, <1>d, <1>l
  <2>2. CASE clientfd >= 0 /\ CanLog(q) /\ sq' = Logged(q) /\ BufpoolPop /\ Handled
    <3>1. Head(cq) \in CQE /\ Head(cq).op = OP_ACCEPT
      BY <1>0, <2>0 DEF Dispatch, TypeOK, QueuesOK
    <3>2. clientfd \in Fds
      BY <2>2, <3>1, CqeFd
    <3>3. c \in SQE /\ c.op # OP_WRITE_FIXED
      BY <3>2, MadeSqe DEF Sqe
    <3>4. free # <<>> /\ UNCHANGED cause /\ ~HandleWriteFixed
      BY <2>2, <3>1, <1>w DEF CanLog, Handled
    <3>5. LogsToHead
      BY <1>0, <2>2, <3>3, <3>4, HeadLogged
    <3>6. QED
      BY <1>0, <2>0, <2>2, <3>4, <3>5 DEF Loan
  <2>3. QED
    BY <1>6, <2>1, <2>2 DEF HandleAccept, AcceptFailureAsserted
<1>7. CASE HandleRecvmsg
  <2>. DEFINE e == Sqe(OP_SENDMSG, Sender)
  <2>0. pc = "wait" /\ Dispatch(OP_RECVMSG)
    BY <1>7 DEF HandleRecvmsg, Dispatch
  <2>1. CASE Die("recv_failed") \/ Die("null_sqe") \/ LogEventDies(sq)
    BY <2>0, <2>1, <1>d, <1>l
  <2>2. CASE CanLog(sq) /\ sq' = Append(Logged(sq), e) /\ BufpoolPop /\ Handled
    <3>1. Head(cq) \in CQE /\ Head(cq).op = OP_RECVMSG
      BY <1>0, <2>0 DEF Dispatch, TypeOK, QueuesOK
    <3>2. e \in SQE /\ e.op # OP_WRITE_FIXED
      BY <3>1, CqeFd, MadeSqe DEF Sqe, Sender
    <3>3. free # <<>> /\ UNCHANGED cause /\ ~HandleWriteFixed
      BY <2>2, <3>1, <1>w DEF CanLog, Handled
    <3>4. LogsToHead
      BY <1>0, <2>2, <3>2, <3>3, HeadLogged
    <3>5. QED
      BY <1>0, <2>0, <2>2, <3>3, <3>4 DEF Loan
  <2>3. QED
    BY <1>7, <2>1, <2>2 DEF HandleRecvmsg
<1>8. CASE WaitInterrupted
  BY <1>8, <1>d DEF WaitInterrupted
<1>9. QED
  BY <1>1, <1>2, <1>3, <1>4, <1>5, <1>6, <1>7, <1>8 DEF Next, Program

\* Every line, return and refusal is a step of the lender, and every step of
\* the server is one of these or leaves the lender alone.
LineBorrows ==
  \A bid \in Bids : LogsInto(bid) => bid \in Range(free) /\ Lending!Lend(bid)

LoopReturns ==
  HandleWriteFixed => LET bid == Head(cq).fd
                      IN  bid \notin Range(free) /\ Lending!Return(bid)

RefusedLast ==
  cause' # cause /\ cause' = "no_log_buffer" => Lending!Refuse

LEMMA StepLends ==
  ASSUME TypeOK, PoolConserved, PoolConserved', Next
  PROVE  /\ Lending!Next \/ UNCHANGED <<InFlight, cause = "no_log_buffer">>
         /\ LineBorrows /\ LoopReturns /\ RefusedLast
<1>0. /\ InFlight = Bids \ Range(free) /\ InFlight' = Bids \ Range(free')
      /\ free \in Seq(Bids) /\ IsInjective(free)
  BY InFlightIs DEF TypeOK, ProgramOK, PoolConserved
<1>1. CASE NoLoan
  <2>1. InFlight' = InFlight /\ cause' = cause
    BY <1>0, <1>1 DEF NoLoan
  <2>2. QED
    BY <1>1, <2>1 DEF NoLoan, LogsNothing, LineBorrows, LoopReturns, RefusedLast
<1>2. CASE Loan
  <2>. DEFINE b == Head(free)
  <2>1. b \in Bids /\ b \in Range(free) /\ Range(free') = Range(free) \ {b}
    BY <1>0, <1>2, PopRange DEF Loan, BufpoolPop
  <2>2. b \notin InFlight /\ InFlight' = InFlight \cup {b}
    BY <1>0, <2>1
  <2>3. Lending!Lend(b)
    BY <1>2, <2>2 DEF Lending!Lend, Loan
  <2>4. LineBorrows
    BY <1>2, <2>1, <2>3 DEF LineBorrows, LogsToHead, Loan
  <2>5. Lending!Next
    BY <2>1, <2>3 DEF Lending!Next
  <2>6. QED
    BY <1>2, <2>4, <2>5 DEF Loan, LoopReturns, RefusedLast
<1>3. CASE NoBuffer
  <2>1. InFlight' = InFlight /\ LineBorrows /\ LoopReturns
    BY <1>0, <1>3 DEF NoBuffer, LogsNothing, LineBorrows, LoopReturns
  <2>2. CASE cause' = "no_log_buffer"
    <3>1. Range(free) = {}
      BY <1>3, <2>2 DEF NoBuffer, Range
    <3>2. Lending!Refuse
      BY <1>0, <2>1, <2>2, <3>1 DEF Lending!Refuse
    <3>3. QED
      BY <2>1, <3>2 DEF Lending!Next, RefusedLast
  <2>3. CASE cause' # "no_log_buffer"
    BY <1>3, <2>1, <2>3 DEF NoBuffer, RefusedLast
  <2>4. QED
    BY <2>2, <2>3
<1>4. CASE HandleWriteFixed
  <2>. DEFINE b == Head(cq).fd
  <2>1. Dispatch(OP_WRITE_FIXED) /\ Handled /\ BufpoolPut(b)
    BY <1>4 DEF HandleWriteFixed
  <2>2. b \in BidsIn(Unhandled)
    BY <2>1, HandledMoves
  <2>3. b \in Bids /\ b \notin Range(free)
    BY <2>2 DEF PoolConserved
  <2>4. Range(free') = Range(free) \cup {b}
    BY <1>0, <2>1, <2>3, PutRange DEF BufpoolPut
  <2>5. b \in InFlight /\ InFlight' = InFlight \ {b} /\ cause' = cause
    BY <1>0, <2>1, <2>3, <2>4 DEF Handled
  <2>6. Lending!Return(b)
    BY <2>5 DEF Lending!Return
  <2>7. LogsNothing
    BY <1>4, NothingLogged DEF HandleWriteFixed, TypeOK, QueuesOK
  <2>8. LineBorrows /\ LoopReturns /\ RefusedLast
    BY <2>3, <2>5, <2>6, <2>7 DEF LogsNothing, LineBorrows, LoopReturns, RefusedLast
  <2>9. Lending!Next
    BY <2>3, <2>6 DEF Lending!Next
  <2>10. QED
    BY <2>8, <2>9
<1>5. QED
  BY <1>1, <1>2, <1>3, <1>4, LoanKinds

\* The running server implements the lender's promise, grant by grant, return
\* by return and refusal by refusal: log_event puts each line into a buffer
\* that no other line is on its way in and is refused one only when all are
\* out (logging.c:81-82), and run_event_loop puts back only what is out and
\* done with (main.c:30-34).
THEOREM ServerLends == Spec => LogBuffersLent
<1>1. Init => Lending!Init
  <2>. SUFFICES ASSUME Init PROVE Lending!Init
    OBVIOUS
  <2>1. sq = <<>> /\ Unhandled = <<>> /\ writing = {}
    BY DEF Init, UringInit, Unhandled
  <2>2. BidsIn(<<>>) = {}
    BY DEF BidsIn, Writes
  <2>3. QED
    BY <2>1, <2>2 DEF Lending!Init, InFlight, Init
<1>2. TypeOK /\ PoolConserved /\ PoolConserved' /\ [Next]_vars
        => [Lending!Next]_(Lending!vars)
  <2>1. CASE UNCHANGED vars
    <3>1. UNCHANGED <<sq, writing, cause>> /\ Unhandled' = Unhandled
      BY <2>1 DEF vars, uringVars, sqVars, cqVars, Unhandled
    <3>2. QED
      BY <3>1 DEF Lending!vars, InFlight
  <2>2. QED
    BY <2>1, StepLends DEF Lending!vars
<1>3. TypeOK /\ PoolConserved /\ PoolConserved' /\ [Next]_vars
        => [LineBorrows /\ LoopReturns /\ RefusedLast]_vars
  BY StepLends
<1>4. QED
  BY <1>1, <1>2, <1>3, TypeCorrect, BuffersConserved, PTL
     DEF Spec, LogBuffersLent, Lending!Spec, LineBorrows, LoopReturns, RefusedLast

-----------------------------------------------------------------------------
\* Nothing that only the program could move on waits for it while it waits:
\* io_uring_submit comes last in main and in each turn of run_event_loop
\* (main.c:49 and 96), and it also empties the overflow list.
THEOREM NothingStranded == Spec => []NoStrandedWork
<1>1. Init => NoStrandedWork
  BY DEF Init, NoStrandedWork
<1>2. TypeOK /\ NoStrandedWork /\ [Next]_vars => NoStrandedWork'
  <2>. SUFFICES ASSUME TypeOK, NoStrandedWork, [Next]_vars, pc' = "wait"
                PROVE  published' = Len(sq') /\ (visible' = 0 => cq' = <<>>)
    BY DEF NoStrandedWork
  <2>. USE DEF sqVars, cqVars
  <2>1. sq \in Seq(SQE) /\ cq \in Seq(CQE) /\ visible \in Nat
    BY DEF TypeOK, QueuesOK
  <2>2. CASE Submit
    BY <2>1, <2>2, UringAssumption DEF Submit, Publish, FlushOverflow
  <2>3. CASE QueueAccept \/ Greet \/ Seen \/ HandleWriteFixed \/ HandleSendmsg
             \/ HandleAccept \/ HandleRecvmsg
    BY <2>3 DEF QueueAccept, Greet, Seen, HandleWriteFixed, HandleSendmsg,
                HandleAccept, AcceptFailureAsserted, HandleRecvmsg,
                Handled, LogEventDies, Die
  <2>4. CASE Kernel
    <3>0. pc = "wait" /\ published = Len(sq) /\ (visible = 0 => cq = <<>>)
      BY <2>4 DEF Kernel, NoStrandedWork
    <3>1. ASSUME NEW op, Fetch(op) PROVE published' = Len(sq') /\ UNCHANGED cqVars
      BY <3>0, <3>1, <2>1 DEF Fetch
    <3>2. ASSUME NEW op, NEW fd, NEW res, Post(op, fd, res)
          PROVE  UNCHANGED sqVars /\ visible' # 0
      BY <3>0, <3>2, <2>1, UringAssumption DEF Post, Fits
    <3>3. CASE Poll
      BY <3>0, <3>1, <3>3 DEF Poll, StartAccept, StartRecvmsg, StartWrite, StartSend
    <3>4. CASE Peers
      BY <3>0, <3>2, <3>4 DEF Peers, AcceptConnection, AcceptFails, ReceiveChunk,
                              ReceiveEnd, ReceiveFails
    <3>5. CASE \E bid \in Bids : CompleteWrite(bid)
      BY <3>0, <3>2, <3>5 DEF CompleteWrite
    <3>6. CASE \E fd \in Fds : SendResult(fd) \/ SendNotification(fd)
      BY <3>0, <3>2, <3>6 DEF SendResult, SendNotification
    <3>7. QED
      BY <2>4, <3>3, <3>4, <3>5, <3>6 DEF Kernel, KernelWork
  <2>5. CASE UNCHANGED vars
    BY <2>5 DEF vars, uringVars, NoStrandedWork
  <2>6. CASE WaitInterrupted
    BY <2>6 DEF WaitInterrupted, Die
  <2>7. QED
    BY <2>2, <2>3, <2>4, <2>5, <2>6 DEF Next, Program
<1>3. QED
  BY <1>1, <1>2, TypeCorrect, PTL DEF Spec
-----------------------------------------------------------------------------
\* A failed accept is posted only when descriptors are used up, and they stay
\* so: the program closes none.
FailsWhenFull ==
  \A i \in DOMAIN cq : cq[i].op = OP_ACCEPT /\ cq[i].res < 0 => connected = Fds

LEMMA FullStaysFull ==
  ASSUME TypeOK, FailsWhenFull, [Next]_vars
  PROVE  FailsWhenFull'
<1>. USE DEF sqVars, cqVars, acceptVars, recvVars, sendVars
<1>0. cq \in Seq(CQE) /\ (pc = "handled" => cq # <<>>)
  BY DEF TypeOK, QueuesOK
<1>1. CASE UNCHANGED <<cq, connected>>
  BY <1>1 DEF FailsWhenFull
\* A completion that does not tell of a failed accept.
<1>2. ASSUME NEW op, NEW fd, NEW res, Post(op, fd, res),
             op = OP_ACCEPT /\ res < 0 => connected = Fds, UNCHANGED connected
      PROVE  FailsWhenFull'
  <2>1. cq' = Append(cq, [op |-> op, fd |-> EncodeFd(fd), res |-> res])
    BY <1>2, CompletionIs DEF Post
  <2>2. ASSUME NEW i \in DOMAIN cq', cq'[i].op = OP_ACCEPT, cq'[i].res < 0
        PROVE  connected = Fds
    <3>1. PICK n \in Nat : n = Len(cq) /\ DOMAIN cq = 1..n
      BY <1>0
    <3>2. \/ i \in 1..n /\ cq'[i] = cq[i]
          \/ cq'[i].op = op /\ cq'[i].res = res
      BY <1>0, <2>1, <3>1
    <3>3. QED
      BY <1>2, <2>2, <3>1, <3>2 DEF FailsWhenFull
  <2>3. QED
    BY <1>2, <2>2 DEF FailsWhenFull
<1>3. CASE Seen
  <2>1. cq' = Tail(cq) /\ cq # <<>> /\ UNCHANGED connected
    BY <1>0, <1>3 DEF Seen
  <2>2. ASSUME NEW i \in DOMAIN cq' PROVE i + 1 \in DOMAIN cq /\ cq'[i] = cq[i + 1]
    BY <1>0, <2>1
  <2>3. QED
    BY <2>1, <2>2 DEF FailsWhenFull
<1>4. CASE QueueAccept \/ Greet \/ Submit \/ HandleAccept \/ HandleRecvmsg
           \/ HandleWriteFixed \/ HandleSendmsg \/ WaitInterrupted \/ UNCHANGED vars
  BY <1>1, <1>4 DEF QueueAccept, Greet, Submit, HandleAccept, HandleRecvmsg,
     HandleWriteFixed, HandleSendmsg, Handled, AcceptFailureAsserted,
     LogEventDies, Die, WaitInterrupted, vars, uringVars
<1>5. CASE Poll
  BY <1>1, <1>5 DEF Poll, StartAccept, StartRecvmsg, StartWrite, StartSend, Fetch
<1>6. ASSUME NEW bid \in Bids, CompleteWrite(bid) PROVE FailsWhenFull'
  BY <1>2, <1>6 DEF CompleteWrite
<1>7. ASSUME NEW fd \in Fds, SendResult(fd) \/ SendNotification(fd)
      PROVE  FailsWhenFull'
  BY <1>2, <1>7 DEF SendResult, SendNotification
<1>8. CASE AcceptFails
  BY <1>2, <1>8 DEF AcceptFails
<1>9. ASSUME NEW fd \in Fds, ReceiveChunk(fd) \/ ReceiveEnd(fd) \/ ReceiveFails(fd)
      PROVE  FailsWhenFull'
  BY <1>2, <1>9 DEF ReceiveChunk, ReceiveEnd, ReceiveFails
\* While a descriptor is left, nothing in the queue tells of a failure.
<1>10. ASSUME NEW fd \in Fds, AcceptConnection(fd)
       PROVE  FailsWhenFull'
  <2>1. /\ cq' = Append(cq, [op |-> OP_ACCEPT, fd |-> EncodeFd(ListenFd), res |-> fd])
        /\ connected # Fds
    BY <1>10, CompletionIs DEF AcceptConnection, Post
  <2>2. fd \in Nat
    BY UringAssumption
  <2>3. ASSUME NEW i \in DOMAIN cq', cq'[i].op = OP_ACCEPT, cq'[i].res < 0
        PROVE  FALSE
    <3>1. PICK n \in Nat : n = Len(cq) /\ DOMAIN cq = 1..n
      BY <1>0
    <3>2. (i \in 1..n /\ cq'[i] = cq[i]) \/ cq'[i].res = fd
      BY <1>0, <2>1, <3>1
    <3>3. QED
      BY <2>1, <2>2, <2>3, <3>1, <3>2 DEF FailsWhenFull
  <2>4. QED
    BY <2>3 DEF FailsWhenFull
<1>11. QED
  BY <1>3, <1>4, <1>5, <1>6, <1>7, <1>8, <1>9, <1>10
     DEF Next, Program, Kernel, KernelWork, Peers

\* The server dies of one thing at a time, and what the assertion that ends it
\* saw is still to be seen.
LEMMA DiesForCause ==
  ASSUME TypeOK, NoStrandedWork, FailsWhenFull, Program \/ WaitInterrupted,
         cause' # cause
  PROVE  GoesDownForCause'
<1>0. /\ sq \in Seq(SQE) /\ cq \in Seq(CQE) /\ free \in Seq(Bids)
      /\ SqEntries \in Nat /\ Len(sq) \in Nat
      /\ visible \in 0..Len(cq)
  BY UringAssumption DEF TypeOK, ProgramOK, QueuesOK
<1>1. pc = "wait"
  BY DEF Program, QueueAccept, Greet, Submit, Seen, HandleAccept, HandleRecvmsg,
         HandleWriteFixed, HandleSendmsg, Dispatch, WaitInterrupted
<1>2. published = Len(sq) /\ (visible = 0 => cq = <<>>)
  BY <1>1 DEF NoStrandedWork
<1>d. ASSUME NEW why, Die(why),
             why \in {"no_log_sqe", "null_sqe"} => published >= SqEntries - 1,
             why = "accept_failed" => connected = Fds,
             why = "wait_interrupted" => cq = <<>>
      PROVE  GoesDownForCause'
  BY <1>d DEF GoesDownForCause, Die, uringVars, sqVars, cqVars, acceptVars
<1>l. ASSUME NEW q, LogEventDies(q), Len(q) <= Len(sq) + 1, Len(q) \in Nat
      PROVE  GoesDownForCause'
  <2>1. Full(q) => published >= SqEntries - 1
    BY <1>0, <1>2, <1>l DEF Full
  <2>2. QED
    BY <1>d, <1>l, <2>1 DEF LogEventDies
<1>3. CASE WaitInterrupted
  BY <1>2, <1>3, <1>d DEF WaitInterrupted
<1>4. CASE HandleAccept
  <2>. DEFINE clientfd == Head(cq).res
              e == Sqe(OP_RECVMSG, clientfd)
              q == Append(sq, e)
  <2>1. CASE AcceptFailureAsserted(clientfd)
    <3>1. 1 \in DOMAIN cq /\ cq[1] = Head(cq) /\ Head(cq).op = OP_ACCEPT
      BY <1>0, <1>4 DEF HandleAccept, Dispatch
    <3>2. connected = Fds
      BY <2>1, <3>1 DEF FailsWhenFull, AcceptFailureAsserted
    <3>3. QED
      BY <2>1, <3>2, <1>d DEF AcceptFailureAsserted
  <2>2. CASE Full(sq) /\ Die("null_sqe")
    <3>1. published >= SqEntries - 1
      BY <1>0, <1>2, <2>2 DEF Full
    <3>2. QED
      BY <2>2, <3>1, <1>d
  <2>3. CASE LogEventDies(q)
    <3>1. Len(q) = Len(sq) + 1
      BY <1>0
    <3>2. Len(q) <= Len(sq) + 1 /\ Len(q) \in Nat
      BY <1>0, <3>1
    <3>3. QED
      BY <1>l, <2>3, <3>2
  <2>4. QED
    BY <1>4, <2>1, <2>2, <2>3 DEF HandleAccept, Handled
<1>5. CASE HandleRecvmsg
  <2>1. CASE Die("recv_failed")
    BY <2>1, <1>d
  <2>2. CASE LogEventDies(sq)
    BY <1>0, <1>l, <2>2
  <2>3. CASE Full(Logged(sq)) /\ Die("null_sqe")
    <3>1. Len(Logged(sq)) = Len(sq) + 1
      BY <1>0 DEF Logged
    <3>2. published >= SqEntries - 1
      BY <1>0, <1>2, <2>3, <3>1 DEF Full
    <3>3. QED
      BY <2>3, <3>2, <1>d
  <2>4. QED
    BY <1>5, <2>1, <2>2, <2>3 DEF HandleRecvmsg, Handled
<1>6. QED
  BY <1>3, <1>4, <1>5
     DEF Program, QueueAccept, Greet, Submit, Seen, HandleWriteFixed,
         HandleSendmsg, Handled

\* The assertions that end the server do so for want of what the outside has
\* used up, in every reachable state: the loop itself leaves no entry
\* unpublished, no completion unseen and no failure unhandled that could make
\* one of them fail (appctx.c:120, 122 and 159, logging.c:91, main.c:20).
THEOREM DeathHasACause == Spec => []GoesDownForCause
<1>1. Init => FailsWhenFull /\ GoesDownForCause
  BY DEF Init, UringInit, FailsWhenFull, GoesDownForCause
<1>2. TypeOK /\ NoStrandedWork /\ FailsWhenFull /\ GoesDownForCause /\ [Next]_vars
        => FailsWhenFull' /\ GoesDownForCause'
  <2>. SUFFICES ASSUME TypeOK, NoStrandedWork, FailsWhenFull, GoesDownForCause,
                       [Next]_vars
                PROVE  GoesDownForCause'
    BY FullStaysFull
  <2>1. CASE UNCHANGED vars
    BY <2>1 DEF vars, uringVars, sqVars, cqVars, acceptVars, GoesDownForCause
  <2>2. CASE Next
    <3>1. pc # "dead" /\ cause = "none"
      BY <2>2 DEF Next, Program, QueueAccept, Greet, Submit, Seen, HandleAccept,
         HandleRecvmsg, HandleWriteFixed, HandleSendmsg, Dispatch,
         WaitInterrupted, Kernel, TypeOK, ProgramOK
    <3>2. cause' = cause => GoesDownForCause'
      BY <3>1 DEF GoesDownForCause
    <3>3. Kernel => cause' = cause
      BY DEF Kernel
    <3>4. QED
      BY <2>2, <3>2, <3>3, DiesForCause DEF Next
  <2>3. QED
    BY <2>1, <2>2
<1>3. QED
  BY <1>1, <1>2, TypeCorrect, NothingStranded, PTL DEF Spec

-----------------------------------------------------------------------------
\* Descriptors fit the 16 bits of struct userdata (clib/userdata.c:4).  A
\* process that opens no more than 65536 files has no other ones.
FdsFit == Fds \subseteq 0..(UdFdMod - 1)

-----------------------------------------------------------------------------
\* How many elements of the sequence s are in K, and where they are.
Places(s, K) == {i \in DOMAIN s : s[i] \in K}
Count(s, K)  == Cardinality(Places(s, K))

One(e, K) == IF e \in K THEN 1 ELSE 0

LEMMA CountType ==
  ASSUME NEW S, NEW s \in Seq(S), NEW K
  PROVE  IsFiniteSet(Places(s, K)) /\ Count(s, K) \in Nat
<1>1. Places(s, K) \in SUBSET (1..Len(s)) /\ Len(s) \in Int
  BY DEF Places
<1>2. IsFiniteSet(1..Len(s))
  BY <1>1, FS_Interval
<1>3. IsFiniteSet(Places(s, K))
  BY <1>1, <1>2, FS_Subset
<1>4. QED
  BY <1>3, FS_CardinalityType DEF Count

LEMMA CountEmpty == \A K : Count(<<>>, K) = 0
  BY FS_EmptySet DEF Count, Places

\* An element that is added counts once.
LEMMA CountAppend ==
  ASSUME NEW S, NEW s \in Seq(S), NEW e \in S, NEW K
  PROVE  Count(Append(s, e), K) = Count(s, K) + One(e, K)
<1>. DEFINE t == Append(s, e)
            n == Len(s) + 1
<1>1. /\ DOMAIN t = 1..n /\ DOMAIN s = 1..Len(s) /\ Len(s) \in Nat
      /\ t[n] = e /\ \A i \in 1..Len(s) : t[i] = s[i]
  OBVIOUS
<1>2. IsFiniteSet(Places(s, K)) /\ Count(s, K) \in Nat
  BY CountType
<1>n. n \notin Places(s, K)
  BY <1>1 DEF Places
<1>3. CASE e \in K
  <2>1. Places(t, K) = Places(s, K) \cup {n}
    BY <1>1, <1>3 DEF Places
  <2>2. QED
    BY <1>2, <1>n, <1>3, <2>1, FS_AddElement DEF Count, One
<1>4. CASE e \notin K
  <2>1. Places(t, K) = Places(s, K)
    BY <1>1, <1>4 DEF Places
  <2>2. QED
    BY <1>2, <1>4, <2>1 DEF Count, One
<1>5. QED
  BY <1>3, <1>4

\* Moving a set of numbers by one keeps its size.
LEMMA Shift ==
  ASSUME NEW S \in SUBSET Nat, IsFiniteSet(S)
  PROVE  /\ IsFiniteSet({i + 1 : i \in S})
         /\ Cardinality({i + 1 : i \in S}) = Cardinality(S)
<1>. DEFINE T == {i + 1 : i \in S}
            f == [i \in S |-> i + 1]
<1>1. f \in [S -> T] /\ \A i \in S : f[i] = i + 1
  OBVIOUS
<1>2. \A a, b \in S : f[a] = f[b] => a = b
  BY <1>1
<1>3. \A t \in T : \E i \in S : f[i] = t
  BY <1>1
<1>4. f \in Bijection(S, T)
  BY <1>1, <1>2, <1>3 DEF Bijection, Injection, Surjection, IsInjective
<1>5. ExistsBijection(S, T)
  BY <1>4 DEF ExistsBijection
<1>6. QED
  BY <1>5, FS_Bijection

\* An element that is taken no longer counts.
LEMMA CountTail ==
  ASSUME NEW S, NEW s \in Seq(S), s # <<>>, NEW K
  PROVE  Count(s, K) = Count(Tail(s), K) + One(Head(s), K)
<1>. DEFINE t == Tail(s)
            T == {i + 1 : i \in Places(t, K)}
<1>1. /\ t \in Seq(S) /\ Len(t) = Len(s) - 1 /\ Len(s) \in Nat \ {0}
      /\ DOMAIN t = 1..Len(t) /\ DOMAIN s = 1..Len(s)
      /\ \A i \in 1..Len(t) : t[i] = s[i + 1]
      /\ Head(s) = s[1]
  OBVIOUS
<1>2. IsFiniteSet(Places(t, K)) /\ Count(t, K) \in Nat
  BY <1>1, CountType
<1>3. Places(t, K) \in SUBSET Nat
  BY <1>1 DEF Places
<1>4. IsFiniteSet(T) /\ Cardinality(T) = Count(t, K)
  BY <1>2, <1>3, Shift DEF Count
<1>5. 1 \notin T
  BY <1>1 DEF Places
<1>6. \A i \in T : i \in Places(s, K)
  BY <1>1 DEF Places
<1>7. \A i \in Places(s, K) : i # 1 => i \in T
  <2>. SUFFICES ASSUME NEW i \in Places(s, K), i # 1 PROVE i \in T
    OBVIOUS
  <2>1. i \in 2..Len(s) /\ s[i] \in K
    BY <1>1 DEF Places
  <2>2. i - 1 \in Places(t, K) /\ i = (i - 1) + 1
    BY <1>1, <2>1 DEF Places
  <2>3. QED
    BY <2>2
<1>8. 1 \in Places(s, K) <=> Head(s) \in K
  BY <1>1 DEF Places
<1>9. CASE Head(s) \in K
  <2>1. Places(s, K) = T \cup {1}
    BY <1>6, <1>7, <1>8, <1>9
  <2>2. QED
    BY <1>2, <1>4, <1>5, <1>9, <2>1, FS_AddElement DEF Count, One
<1>10. CASE Head(s) \notin K
  <2>1. Places(s, K) = T
    BY <1>6, <1>7, <1>8, <1>10
  <2>2. QED
    BY <1>2, <1>4, <1>10, <2>1 DEF Count, One
<1>11. QED
  BY <1>9, <1>10
-----------------------------------------------------------------------------
\* The completions that bring input, for one connection, and the entries that
\* carry answers.
Inputs       == {e \in CQE : e.op = OP_RECVMSG /\ e.res >= 0}
InputsOf(fd) == {e \in Inputs : e.fd = fd}
Answers      == [op : {OP_SENDMSG}, fd : Nat]
AnswersTo(fd) == {Sqe(OP_SENDMSG, fd)}

\* What Received and Owed count, in these terms.
LEMMA ReceivedPlaces ==
  ASSUME NEW s \in Seq(CQE)
  PROVE  /\ Received(s) = Places(s, Inputs)
         /\ \A fd : {i \in Received(s) : s[i].fd = fd} = Places(s, InputsOf(fd))
<1>1. DOMAIN s = 1..Len(s) /\ \A i \in 1..Len(s) : s[i] \in CQE
  OBVIOUS
<1>2. Received(s) = Places(s, Inputs)
  BY <1>1 DEF Received, Places, Inputs
<1>3. QED
  BY <1>1, <1>2 DEF Places, InputsOf

LEMMA UnhandledType ==
  /\ TypeOK => Unhandled \in Seq(CQE)
  /\ TypeOK' => Unhandled' \in Seq(CQE)
<1>1. ASSUME TypeOK PROVE Unhandled \in Seq(CQE)
  <2>1. cq \in Seq(CQE) /\ (pc = "handled" => cq # <<>>)
    BY <1>1 DEF TypeOK, QueuesOK
  <2>2. QED
    BY <2>1 DEF Unhandled
<1>2. ASSUME TypeOK' PROVE Unhandled' \in Seq(CQE)
  <2>1. cq' \in Seq(CQE) /\ (pc' = "handled" => cq' # <<>>)
    BY <1>2 DEF TypeOK, QueuesOK
  <2>2. QED
    BY <2>1 DEF Unhandled
<1>3. QED
  BY <1>1, <1>2

LEMMA OwedCounts ==
  ASSUME NEW fd \in Fds
  PROVE  /\ TypeOK => Owed[fd] = Count(Unhandled, InputsOf(fd))
                                  + Count(sq, AnswersTo(fd)) + sending[fd]
         /\ TypeOK' => Owed'[fd] = Count(Unhandled', InputsOf(fd))
                                  + Count(sq', AnswersTo(fd)) + sending'[fd]
<1>1. ASSUME TypeOK
      PROVE  Owed[fd] = Count(Unhandled, InputsOf(fd))
                        + Count(sq, AnswersTo(fd)) + sending[fd]
  <2>1. {i \in Received(Unhandled) : Unhandled[i].fd = fd}
          = Places(Unhandled, InputsOf(fd))
    BY <1>1, UnhandledType, ReceivedPlaces
  <2>2. {i \in DOMAIN sq : sq[i] = Sqe(OP_SENDMSG, fd)} = Places(sq, AnswersTo(fd))
    BY DEF Places, AnswersTo
  <2>3. QED
    BY <2>1, <2>2 DEF Owed, Count
<1>2. ASSUME TypeOK'
      PROVE  Owed'[fd] = Count(Unhandled', InputsOf(fd))
                         + Count(sq', AnswersTo(fd)) + sending'[fd]
  <2>1. {i \in Received(Unhandled') : Unhandled'[i].fd = fd}
          = Places(Unhandled', InputsOf(fd))
    BY <1>2, UnhandledType, ReceivedPlaces
  <2>2. {i \in DOMAIN sq' : sq'[i] = Sqe(OP_SENDMSG, fd)}
          = Places(sq', AnswersTo(fd))
    BY DEF Places, AnswersTo
  <2>3. QED
    BY <2>1, <2>2 DEF Owed, Count
<1>3. QED
  BY <1>1, <1>2

-----------------------------------------------------------------------------
\* What the building blocks of the steps do to the counts.
LEMMA HandledCounts ==
  ASSUME TypeOK, NEW op, Dispatch(op), Handled, NEW K
  PROVE  /\ Head(cq) \in CQE /\ Head(cq).op = op
         /\ Count(Unhandled, K) = Count(Unhandled', K) + One(Head(cq), K)
<1>1. Unhandled = cq /\ Unhandled' = Tail(cq)
  BY DEF Dispatch, Handled, cqVars, Unhandled
<1>2. cq \in Seq(CQE) /\ cq # <<>> /\ Head(cq).op = op
  BY DEF TypeOK, QueuesOK, Dispatch
<1>3. QED
  BY <1>1, <1>2, CountTail

LEMMA PostCounts ==
  ASSUME TypeOK, PoolConserved, NEW op, NEW fd, NEW res,
         [op |-> op, fd |-> EncodeFd(fd), res |-> res] \in CQE,
         Post(op, fd, res), UNCHANGED pc, NEW K
  PROVE  /\ sq' = sq
         /\ Count(Unhandled', K) = Count(Unhandled, K)
              + One([op |-> op, fd |-> EncodeFd(fd), res |-> res], K)
<1>. DEFINE e == [op |-> op, fd |-> EncodeFd(fd), res |-> res]
<1>1. Unhandled \in Seq(CQE) /\ Unhandled' = Append(Unhandled, e) /\ sq' = sq
  BY PostMoves
<1>2. e \in CQE
  OBVIOUS
<1>3. Count(Append(Unhandled, e), K) = Count(Unhandled, K) + One(e, K)
  BY <1>1, <1>2, CountAppend
<1>4. QED
  BY <1>1, <1>3

LEMMA FetchCounts ==
  ASSUME TypeOK, NEW op, Fetch(op), UNCHANGED pc, NEW K
  PROVE  /\ Unhandled' = Unhandled /\ Head(sq) \in SQE /\ Head(sq).op = op
         /\ sq' \in Seq(SQE)
         /\ Count(sq, K) = Count(sq', K) + One(Head(sq), K)
<1>1. Unhandled' = Unhandled
  BY DEF Fetch, cqVars, Unhandled
<1>2. sq \in Seq(SQE) /\ sq # <<>> /\ Head(sq).op = op /\ sq' = Tail(sq)
  BY DEF TypeOK, QueuesOK, Fetch
<1>3. QED
  BY <1>1, <1>2, CountTail

\* A queued entry that is not an answer does not count as one.
LEMMA OtherEntry ==
  ASSUME NEW q \in Seq(SQE), NEW e \in SQE, e.op # OP_SENDMSG,
         NEW K \in SUBSET Answers
  PROVE  Append(q, e) \in Seq(SQE) /\ Count(Append(q, e), K) = Count(q, K)
<1>1. e \notin K
  BY DEF Answers
<1>2. Count(q, K) \in Nat /\ Count(Append(q, e), K) = Count(q, K) + One(e, K)
  BY CountType, CountAppend
<1>3. QED
  BY <1>1, <1>2 DEF One

LEMMA LogCounts ==
  ASSUME TypeOK, NEW q \in Seq(SQE), CanLog(q), NEW K \in SUBSET Answers
  PROVE  Logged(q) \in Seq(SQE) /\ Count(Logged(q), K) = Count(q, K)
<1>1. Head(free) \in Bids
  BY LogType DEF TypeOK, ProgramOK
<1>2. Sqe(OP_WRITE_FIXED, Head(free)) \in SQE
  BY <1>1, MadeSqe
<1>3. Sqe(OP_WRITE_FIXED, Head(free)).op # OP_SENDMSG
  BY DEF Sqe
<1>4. QED
  BY <1>2, <1>3, OtherEntry DEF Logged
-----------------------------------------------------------------------------
\* The steps, as far as input and answers go.  Most leave them alone.
InputsStay  == \A K \in SUBSET Inputs : Count(Unhandled', K) = Count(Unhandled, K)
AnswersStay == \A K \in SUBSET Answers : Count(sq', K) = Count(sq, K)

Quiet == InputsStay /\ AnswersStay /\ UNCHANGED <<avail, sending>>

\* The program turns input into an answer and gives its buffer back.
Answering(e) ==
  /\ \A K \in SUBSET Inputs : Count(Unhandled, K) = Count(Unhandled', K) + One(e, K)
  /\ \A K \in SUBSET Answers :
       Count(sq', K) = Count(sq, K) + One(Sqe(OP_SENDMSG, e.fd), K)
  /\ avail' = avail + 1
  /\ UNCHANGED <<sending, connected>>
  /\ pc' # "dead"

\* The steps of the program.
LEMMA ProgramAnswers ==
  ASSUME TypeOK, Program \/ WaitInterrupted
  PROVE  /\ pc # "dead"
         /\ \/ Quiet /\ UNCHANGED connected
            \/ \E e \in Inputs : Answering(e)
<1>. USE DEF sqVars, cqVars, acceptVars, recvVars, sendVars
<1>0. sq \in Seq(SQE) /\ cq \in Seq(CQE)
  BY DEF TypeOK, QueuesOK
<1>d. ASSUME pc = "wait", NEW why, Die(why) PROVE Quiet /\ UNCHANGED connected
  <2>1. Unhandled' = Unhandled /\ sq' = sq
    BY <1>d DEF Die, uringVars, Unhandled
  <2>2. QED
    BY <1>d, <2>1 DEF Quiet, InputsStay, AnswersStay, Die, uringVars
<1>l. ASSUME pc = "wait", NEW q, LogEventDies(q) PROVE Quiet /\ UNCHANGED connected
  BY <1>d, <1>l DEF LogEventDies
\* A handler whose completion brings no input leaves the inputs alone.
<1>h. ASSUME NEW op, op # OP_RECVMSG, Dispatch(op), Handled
      PROVE  InputsStay /\ UNCHANGED <<sending, connected>> /\ pc # "dead"
  <2>1. ASSUME NEW K \in SUBSET Inputs
        PROVE  Count(Unhandled', K) = Count(Unhandled, K)
    <3>1. /\ Head(cq) \in CQE /\ Head(cq).op = op
          /\ Count(Unhandled, K) = Count(Unhandled', K) + One(Head(cq), K)
      BY <1>h, HandledCounts
    <3>2. Head(cq) \notin K
      BY <1>h, <3>1 DEF Inputs
    <3>3. cq # <<>> /\ Unhandled' = Tail(cq)
      BY <1>0, <1>h DEF Dispatch, Handled, Unhandled, TypeOK, QueuesOK
    <3>4. Count(Unhandled', K) \in Nat
      <4>1. Tail(cq) \in Seq(CQE)
        BY <1>0, <3>3
      <4>2. QED
        BY <3>3, <4>1, CountType
    <3>5. QED
      BY <3>1, <3>2, <3>4 DEF One
  <2>2. QED
    BY <1>h, <2>1 DEF InputsStay, Handled, Dispatch
<1>1. CASE QueueAccept
  <2>1. Unhandled' = Unhandled
    BY <1>1 DEF QueueAccept, Unhandled
  <2>2. Sqe(OP_ACCEPT, ListenFd) \in SQE /\ Sqe(OP_ACCEPT, ListenFd).op # OP_SENDMSG
    BY MadeSqe DEF Sqe
  <2>3. AnswersStay
    BY <1>0, <1>1, <2>2, OtherEntry DEF QueueAccept, AnswersStay
  <2>4. QED
    BY <1>1, <2>1, <2>3 DEF QueueAccept, Quiet, InputsStay
<1>2. CASE Greet
  <2>1. Unhandled' = Unhandled
    BY <1>2 DEF Greet, Unhandled
  <2>2. AnswersStay
    BY <1>0, <1>2, LogCounts DEF Greet, AnswersStay
  <2>3. QED
    BY <1>2, <2>1, <2>2 DEF Greet, Quiet, InputsStay
<1>3. CASE Submit
  <2>1. Unhandled' = Unhandled
    BY <1>3 DEF Submit, Unhandled
  <2>2. QED
    BY <1>3, <2>1 DEF Submit, Quiet, InputsStay, AnswersStay
<1>4. CASE Seen
  <2>1. Unhandled' = Unhandled
    BY <1>4 DEF Seen, Unhandled
  <2>2. QED
    BY <1>4, <2>1 DEF Seen, Quiet, InputsStay, AnswersStay
<1>5. CASE HandleWriteFixed
  <2>1. Dispatch(OP_WRITE_FIXED) /\ Handled /\ UNCHANGED <<sq, avail>>
    BY <1>5 DEF HandleWriteFixed
  <2>2. QED
    BY <1>h, <2>1 DEF Quiet, AnswersStay
<1>6. CASE HandleSendmsg
  <2>1. Dispatch(OP_SENDMSG) /\ Handled /\ UNCHANGED <<sq, avail>>
    BY <1>6 DEF HandleSendmsg
  <2>2. QED
    BY <1>h, <2>1 DEF Quiet, AnswersStay
<1>7. CASE HandleAccept
  <2>. DEFINE clientfd == Head(cq).res
              e        == Sqe(OP_RECVMSG, clientfd)
              q        == Append(sq, e)
  <2>0. pc = "wait" /\ Dispatch(OP_ACCEPT)
    BY <1>7 DEF HandleAccept, Dispatch
  <2>1. CASE Die("accept_failed") \/ Die("null_sqe") \/ LogEventDies(q)
    BY <2>0, <2>1, <1>d, <1>l
  <2>2. CASE /\ clientfd >= 0 /\ CanLog(q) /\ sq' = Logged(q)
             /\ Handled /\ UNCHANGED avail
    <3>1. Head(cq) \in CQE /\ Head(cq).op = OP_ACCEPT
      BY <2>0, <2>2, HandledCounts
    <3>2. clientfd \in Fds
      BY <2>2, <3>1, CqeFd
    <3>3. e \in SQE /\ e.op # OP_SENDMSG
      BY <3>2, MadeSqe DEF Sqe
    <3>4. ASSUME NEW K \in SUBSET Answers
          PROVE  Count(sq', K) = Count(sq, K)
      <4>1. q \in Seq(SQE) /\ Count(q, K) = Count(sq, K)
        BY <1>0, <3>3, OtherEntry
      <4>2. Count(Logged(q), K) = Count(q, K)
        BY <2>2, <4>1, LogCounts
      <4>3. QED
        BY <2>2, <4>1, <4>2
    <3>5. QED
      BY <1>h, <2>0, <2>2, <3>4 DEF Quiet, AnswersStay
  <2>3. QED
    BY <1>7, <2>0, <2>1, <2>2 DEF HandleAccept, AcceptFailureAsserted
<1>8. CASE HandleRecvmsg
  <2>. DEFINE e == Head(cq)
              a == Sqe(OP_SENDMSG, e.fd)
  <2>0. pc = "wait" /\ Dispatch(OP_RECVMSG)
    BY <1>8 DEF HandleRecvmsg, Dispatch
  <2>1. CASE Die("recv_failed") \/ Die("null_sqe") \/ LogEventDies(sq)
    BY <2>0, <2>1, <1>d, <1>l
  <2>2. CASE /\ e.res >= 0 /\ CanLog(sq) /\ AdvanceReceiveRing
             /\ sq' = Append(Logged(sq), a) /\ Handled
    <3>1. e \in CQE /\ e.op = OP_RECVMSG
      BY <2>0, <2>2, HandledCounts
    <3>2. e \in Inputs /\ e.fd \in Nat
      BY <2>2, <3>1, CqeFd DEF Inputs
    <3>3. a \in SQE
      BY <3>2, MadeSqe
    <3>4. ASSUME NEW K \in SUBSET Answers
          PROVE  Count(sq', K) = Count(sq, K) + One(a, K)
      <4>1. Logged(sq) \in Seq(SQE) /\ Count(Logged(sq), K) = Count(sq, K)
        BY <1>0, <2>2, LogCounts
      <4>2. Count(Append(Logged(sq), a), K) = Count(Logged(sq), K) + One(a, K)
        BY <3>3, <4>1, CountAppend
      <4>3. QED
        BY <2>2, <4>1, <4>2
    <3>5. \A K \in SUBSET Inputs :
            Count(Unhandled, K) = Count(Unhandled', K) + One(e, K)
      BY <2>0, <2>2, HandledCounts
    <3>6. avail' = avail + 1 /\ UNCHANGED <<sending, connected>> /\ pc' # "dead"
      BY <2>2 DEF AdvanceReceiveRing, Handled
    <3>7. QED
      BY <2>0, <3>2, <3>4, <3>5, <3>6 DEF Answering
  <2>3. QED
    BY <1>8, <2>0, <2>1, <2>2 DEF HandleRecvmsg, Sender
<1>9. CASE WaitInterrupted
  BY <1>9, <1>d DEF WaitInterrupted
<1>10. pc # "dead"
  BY DEF Program, QueueAccept, Greet, Submit, Seen, HandleAccept, HandleRecvmsg,
         HandleWriteFixed, HandleSendmsg, Dispatch, WaitInterrupted
<1>11. QED
  BY <1>1, <1>2, <1>3, <1>4, <1>5, <1>6, <1>7, <1>8, <1>9, <1>10 DEF Program
-----------------------------------------------------------------------------
\* The kernel works for connections that were accepted: their descriptors
\* reach it through the completion of the accept (appctx.c:119) and the entry
\* that the handler makes of it (appctx.c:122-126).
AcceptedOnly ==
  /\ receiving \subseteq connected
  /\ \A i \in DOMAIN sq : sq[i].op = OP_RECVMSG => sq[i].fd \in connected
  /\ \A i \in DOMAIN cq :
       cq[i].op = OP_ACCEPT /\ cq[i].res >= 0 => cq[i].res \in connected

\* Input arrives in a buffer of the ring.
Receiving(fd) ==
  /\ fd \in receiving
  /\ \A K \in SUBSET Inputs : Count(Unhandled', K) = Count(Unhandled, K) +
       One([op |-> OP_RECVMSG, fd |-> EncodeFd(fd), res |-> 1], K)
  /\ AnswersStay
  /\ avail' = avail - 1 /\ avail > 0
  /\ UNCHANGED <<sending, connected>>

\* The kernel takes an answer from the queue.
TakingAnswer(e) ==
  /\ InputsStay
  /\ \A K \in SUBSET Answers : Count(sq, K) = Count(sq', K) + One(e, K)
  /\ sending' = [fd \in Fds |-> sending[fd] + IF fd = e.fd THEN 1 ELSE 0]
  /\ UNCHANGED <<avail, connected>>

\* An answer is on its way to the client.
Sent(fd) ==
  /\ sending[fd] > 0
  /\ sending' = [sending EXCEPT ![fd] = @ - 1]
  /\ InputsStay /\ AnswersStay
  /\ UNCHANGED <<avail, connected>>

\* Input that arrives becomes a completion to handle.
LEMMA InputReceived ==
  ASSUME TypeOK, PoolConserved, UNCHANGED pc, NEW fd \in Fds,
         ReceiveChunk(fd) \/ ReceiveEnd(fd)
  PROVE  Receiving(fd)
<1>. DEFINE e == [op |-> OP_RECVMSG, fd |-> EncodeFd(fd), res |-> 1]
<1>1. Post(OP_RECVMSG, fd, 1)
  BY DEF ReceiveChunk, ReceiveEnd
<1>2. e \in CQE
  BY PostedCqe
<1>3. sq' = sq /\ \A K : Count(Unhandled', K) = Count(Unhandled, K) + One(e, K)
  BY <1>1, <1>2, PostCounts
<1>4. QED
  BY <1>3 DEF Receiving, AnswersStay, ReceiveChunk, ReceiveEnd, acceptVars,
              sendVars

\* A completion that is not about input changes no count.
LEMMA PostQuiet ==
  ASSUME TypeOK, PoolConserved, UNCHANGED pc, NEW op, NEW fd, NEW res,
         op # OP_RECVMSG \/ res < 0,
         [op |-> op, fd |-> EncodeFd(fd), res |-> res] \in CQE, Post(op, fd, res)
  PROVE  InputsStay /\ AnswersStay
<1>. DEFINE e == [op |-> op, fd |-> EncodeFd(fd), res |-> res]
<1>0. e \in CQE /\ (e.op # OP_RECVMSG \/ e.res < 0)
  OBVIOUS
<1>1. ASSUME NEW K \in SUBSET Inputs
      PROVE  Count(Unhandled', K) = Count(Unhandled, K)
  <2>1. Count(Unhandled', K) = Count(Unhandled, K) + One(e, K)
    BY PostCounts
  <2>2. e \notin K
    <3>. SUFFICES ASSUME e \in Inputs PROVE FALSE
      OBVIOUS
    <3>1. e.op = OP_RECVMSG /\ e.res >= 0 /\ e.res \in Int
      BY DEF Inputs, CQE
    <3>2. QED
      BY <1>0, <3>1
  <2>3. Count(Unhandled, K) \in Nat
    BY UnhandledType, CountType
  <2>4. QED
    BY <2>1, <2>2, <2>3 DEF One
<1>2. sq' = sq
  BY DEF Post, sqVars
<1>3. QED
  BY <1>1, <1>2 DEF InputsStay, AnswersStay

\* An answer that is sent is one that was under way.
LEMMA AnswerSent ==
  ASSUME TypeOK, PoolConserved, UNCHANGED pc, NEW fd \in Fds, SendResult(fd)
  PROVE  Sent(fd)
<1>1. /\ Post(OP_SENDMSG, fd, 0)
      /\ [op |-> OP_SENDMSG, fd |-> EncodeFd(fd), res |-> 0] \in CQE
  BY PostedCqe DEF SendResult
<1>2. InputsStay /\ AnswersStay
  BY <1>1, PostQuiet
<1>3. QED
  BY <1>2 DEF Sent, SendResult, acceptVars, recvVars

\* The steps of the kernel.
LEMMA KernelAnswers ==
  ASSUME TypeOK, PoolConserved, Kernel
  PROVE  /\ UNCHANGED pc /\ pc # "dead"
         /\ \/ Quiet /\ UNCHANGED connected
            \/ \E fd \in Fds \ connected : Quiet /\ connected' = connected \cup {fd}
            \/ \E fd \in Fds : TakesInput(fd) /\ Receiving(fd)
            \/ \E e \in Answers : TakingAnswer(e)
            \/ \E fd \in Fds : SendsAnswer(fd) /\ Sent(fd)
<1>. USE DEF acceptVars, recvVars, sendVars
<1>0. UNCHANGED pc /\ pc # "dead"
  BY DEF Kernel
<1>1. Unhandled \in Seq(CQE) /\ sq \in Seq(SQE)
  BY UnhandledType DEF TypeOK, QueuesOK
\* An entry that is not an answer.
<1>f. ASSUME NEW op, op # OP_SENDMSG, Fetch(op) PROVE InputsStay /\ AnswersStay
  <2>1. Unhandled' = Unhandled
    BY <1>0, <1>f, FetchCounts
  <2>2. ASSUME NEW K \in SUBSET Answers PROVE Count(sq', K) = Count(sq, K)
    <3>1. /\ Head(sq) \in SQE /\ Head(sq).op = op /\ sq' \in Seq(SQE)
          /\ Count(sq, K) = Count(sq', K) + One(Head(sq), K)
      BY <1>0, <1>f, FetchCounts
    <3>2. Head(sq) \notin K
      BY <1>f, <3>1 DEF Answers
    <3>3. Count(sq', K) \in Nat
      BY <3>1, CountType
    <3>4. QED
      BY <3>1, <3>2, <3>3 DEF One
  <2>3. QED
    BY <2>1, <2>2 DEF InputsStay, AnswersStay
<1>2. CASE StartAccept \/ StartRecvmsg \/ StartWrite
  <2>1. Fetch(OP_ACCEPT) \/ Fetch(OP_RECVMSG) \/ Fetch(OP_WRITE_FIXED)
    BY <1>2 DEF StartAccept, StartRecvmsg, StartWrite
  <2>2. InputsStay /\ AnswersStay
    BY <1>f, <2>1
  <2>3. QED
    BY <1>0, <1>2, <2>2 DEF Quiet, StartAccept, StartRecvmsg, StartWrite
<1>3. CASE StartSend
  <2>. DEFINE e == Head(sq)
  <2>1. Fetch(OP_SENDMSG) /\ UNCHANGED <<avail, connected>>
        /\ sending' = [fd \in Fds |-> sending[fd] + IF fd = e.fd THEN 1 ELSE 0]
    BY <1>3 DEF StartSend
  <2>2. Unhandled' = Unhandled /\ e \in SQE /\ e.op = OP_SENDMSG
    BY <1>0, <2>1, FetchCounts
  <2>3. e \in Answers
    BY <2>2 DEF SQE, Answers
  <2>4. \A K \in SUBSET Answers : Count(sq, K) = Count(sq', K) + One(e, K)
    BY <1>0, <2>1, FetchCounts
  <2>5. TakingAnswer(e)
    BY <2>1, <2>2, <2>4 DEF TakingAnswer, InputsStay
  <2>6. QED
    BY <1>0, <2>3, <2>5
<1>4. ASSUME NEW bid \in Bids, CompleteWrite(bid)
      PROVE  Quiet /\ UNCHANGED connected
  <2>1. /\ Post(OP_WRITE_FIXED, bid, 0)
        /\ [op |-> OP_WRITE_FIXED, fd |-> EncodeFd(bid), res |-> 0] \in CQE
    BY <1>4, PostedCqe DEF CompleteWrite
  <2>2. InputsStay /\ AnswersStay
    BY <1>0, <2>1, PostQuiet
  <2>3. QED
    BY <1>4, <2>2 DEF Quiet, CompleteWrite
<1>5. ASSUME NEW fd \in Fds, SendResult(fd)
      PROVE  SendsAnswer(fd) /\ Sent(fd)
  BY <1>0, <1>5, AnswerSent DEF SendsAnswer, KernelDoes, Kernel
<1>6. ASSUME NEW fd \in Fds, SendNotification(fd)
      PROVE  Quiet /\ UNCHANGED connected
  <2>1. /\ Post(OP_SENDMSG, fd, 0)
        /\ [op |-> OP_SENDMSG, fd |-> EncodeFd(fd), res |-> 0] \in CQE
    BY <1>6, PostedCqe DEF SendNotification
  <2>2. InputsStay /\ AnswersStay
    BY <1>0, <2>1, PostQuiet
  <2>3. QED
    BY <1>6, <2>2 DEF Quiet, SendNotification
<1>7. CASE AcceptFails
  <2>1. /\ Post(OP_ACCEPT, ListenFd, -1)
        /\ [op |-> OP_ACCEPT, fd |-> EncodeFd(ListenFd), res |-> -1] \in CQE
    BY <1>7, PostedCqe DEF AcceptFails
  <2>2. InputsStay /\ AnswersStay
    BY <1>0, <2>1, PostQuiet
  <2>3. QED
    BY <1>0, <1>7, <2>2 DEF Quiet, AcceptFails
<1>8. ASSUME NEW fd \in Fds, AcceptConnection(fd)
      PROVE  fd \notin connected /\ Quiet /\ connected' = connected \cup {fd}
  <2>1. /\ Post(OP_ACCEPT, ListenFd, fd)
        /\ [op |-> OP_ACCEPT, fd |-> EncodeFd(ListenFd), res |-> fd] \in CQE
    BY <1>8, PostedCqe DEF AcceptConnection
  <2>2. InputsStay /\ AnswersStay
    BY <1>0, <2>1, PostQuiet
  <2>3. QED
    BY <1>8, <2>2 DEF Quiet, AcceptConnection
<1>9. ASSUME NEW fd \in Fds, ReceiveChunk(fd) \/ ReceiveEnd(fd)
      PROVE  TakesInput(fd) /\ Receiving(fd)
  BY <1>0, <1>9, InputReceived DEF TakesInput, KernelDoes, Kernel
<1>10. ASSUME NEW fd \in Fds, ReceiveFails(fd)
       PROVE  Quiet /\ UNCHANGED connected
  <2>1. /\ Post(OP_RECVMSG, fd, -1)
        /\ [op |-> OP_RECVMSG, fd |-> EncodeFd(fd), res |-> -1] \in CQE
    BY <1>10, PostedCqe DEF ReceiveFails
  <2>2. InputsStay /\ AnswersStay
    BY <1>0, <2>1, PostQuiet
  <2>3. QED
    BY <1>10, <2>2 DEF Quiet, ReceiveFails
<1>11. QED
  BY <1>0, <1>2, <1>3, <1>4, <1>5, <1>6, <1>7, <1>8, <1>9, <1>10
     DEF Kernel, KernelWork, Poll, Peers
-----------------------------------------------------------------------------
LEMMA RingCounts ==
  /\ TypeOK => (RingConserved <=> avail + Count(Unhandled, Inputs) = RingEntries)
  /\ TypeOK' => (RingConserved' <=> avail' + Count(Unhandled', Inputs) = RingEntries)
<1>1. ASSUME TypeOK
      PROVE  RingConserved <=> avail + Count(Unhandled, Inputs) = RingEntries
  <2>1. Received(Unhandled) = Places(Unhandled, Inputs)
    BY <1>1, UnhandledType, ReceivedPlaces
  <2>2. QED
    BY <2>1 DEF RingConserved, Count
<1>2. ASSUME TypeOK'
      PROVE  RingConserved' <=> avail' + Count(Unhandled', Inputs) = RingEntries
  <2>1. Received(Unhandled') = Places(Unhandled', Inputs)
    BY <1>2, UnhandledType, ReceivedPlaces
  <2>2. QED
    BY <2>1 DEF RingConserved, Count
<1>3. QED
  BY <1>1, <1>2

\* Every slot of the receive ring is the kernel's to take or stands for a message
\* that is still to be handled: appctx_handle_recvmsg advances the ring once
\* for each that it handles (appctx.c:157), the process dies in every turn of
\* the loop that does not, and no failed receive, overflow or other handler
\* takes or gives one.
THEOREM ReceiveSlotsConserved == Spec => []RingConserved
<1>1. Init => RingConserved
  <2>. SUFFICES ASSUME Init PROVE RingConserved
    OBVIOUS
  <2>1. avail = RingEntries /\ Unhandled = <<>> /\ RingEntries \in Nat
    BY UringAssumption DEF Init, UringInit, Unhandled
  <2>2. Count(<<>>, Inputs) = 0
    BY CountEmpty
  <2>3. QED
    BY <2>1, <2>2, InitType, RingCounts
<1>2. TypeOK /\ TypeOK' /\ PoolConserved /\ RingConserved /\ [Next]_vars
        => RingConserved'
  <2>. SUFFICES ASSUME TypeOK, TypeOK', PoolConserved, RingConserved, [Next]_vars
                PROVE  avail' + Count(Unhandled', Inputs) = RingEntries
    BY RingCounts
  <2>. DEFINE here == Count(Unhandled, Inputs)
              next == Count(Unhandled', Inputs)
  <2>1. avail + here = RingEntries
    BY RingCounts
  <2>2. here \in Nat /\ next \in Nat /\ avail \in Nat /\ RingEntries \in Nat
    BY UnhandledType, CountType, UringAssumption DEF TypeOK, RequestsOK
  <2>3. CASE next = here /\ avail' = avail
    BY <2>1, <2>3
  <2>4. CASE Program \/ WaitInterrupted
    <3>1. CASE Quiet
      BY <2>3, <3>1 DEF Quiet, InputsStay
    <3>2. ASSUME NEW e \in Inputs, Answering(e)
          PROVE  avail' + next = RingEntries
      <4>1. here = next + 1 /\ avail' = avail + 1
        BY <3>2 DEF Answering, One
      <4>2. QED
        BY <2>1, <2>2, <4>1
    <3>3. QED
      BY <2>4, <3>1, <3>2, ProgramAnswers
  <2>5. CASE Kernel
    <3>1. CASE Quiet
      BY <2>3, <3>1 DEF Quiet, InputsStay
    <3>2. ASSUME NEW fd \in Fds, Receiving(fd)
          PROVE  avail' + next = RingEntries
      <4>. DEFINE e == [op |-> OP_RECVMSG, fd |-> EncodeFd(fd), res |-> 1]
      <4>0. e \in CQE /\ e.op = OP_RECVMSG /\ e.res = 1
        BY PostedCqe
      <4>1. e \in Inputs
        BY <4>0 DEF Inputs
      <4>2. next = here + 1 /\ avail' = avail - 1
        BY <3>2, <4>1 DEF Receiving, One
      <4>3. QED
        BY <2>1, <2>2, <4>2
    <3>3. CASE \E e \in Answers : TakingAnswer(e)
      BY <2>3, <3>3 DEF TakingAnswer, InputsStay
    <3>4. CASE \E fd \in Fds : Sent(fd)
      BY <2>3, <3>4 DEF Sent, InputsStay
    <3>5. QED
      BY <2>5, <3>1, <3>2, <3>3, <3>4, KernelAnswers
  <2>6. CASE UNCHANGED vars
    BY <2>3, <2>6 DEF vars, uringVars, cqVars, recvVars, Unhandled
  <2>7. QED
    BY <2>4, <2>5, <2>6 DEF Next
<1>3. QED
  BY <1>1, <1>2, TypeCorrect, BuffersConserved, PTL DEF Spec

-----------------------------------------------------------------------------
\* What is queued and posted stays about accepted connections.
LEMMA AcceptedInductive ==
  ASSUME TypeOK, AcceptedOnly, [Next]_vars
  PROVE  AcceptedOnly'
<1>. DEFINE SqOK(q) ==
              \A i \in DOMAIN q : q[i].op = OP_RECVMSG => q[i].fd \in connected
            CqOK(q) ==
              \A i \in DOMAIN q :
                q[i].op = OP_ACCEPT /\ q[i].res >= 0 => q[i].res \in connected
<1>. USE DEF sqVars, cqVars, acceptVars, recvVars, sendVars
<1>0. sq \in Seq(SQE) /\ cq \in Seq(CQE) /\ SqOK(sq) /\ CqOK(cq)
      /\ receiving \subseteq connected /\ visible \in 0..Len(cq)
      /\ published \in 0..Len(sq) /\ (pc = "handled" => visible > 0)
  BY DEF TypeOK, QueuesOK, AcceptedOnly
\* Adding an entry, and taking one.
<1>a. ASSUME NEW q \in Seq(SQE), SqOK(q), NEW e \in SQE,
             e.op = OP_RECVMSG => e.fd \in connected
      PROVE  Append(q, e) \in Seq(SQE) /\ SqOK(Append(q, e))
  BY <1>a
<1>t. ASSUME sq # <<>>
      PROVE  /\ SqOK(Tail(sq))
             /\ Head(sq).op = OP_RECVMSG => Head(sq).fd \in connected
  BY <1>0, <1>t
<1>1. CASE UNCHANGED <<sq, cq, receiving, connected>>
  BY <1>1 DEF AcceptedOnly
<1>l. ASSUME NEW q \in Seq(SQE), SqOK(q), CanLog(q)
      PROVE  Logged(q) \in Seq(SQE) /\ SqOK(Logged(q))
  <2>. DEFINE e == Sqe(OP_WRITE_FIXED, Head(free))
  <2>1. Head(free) \in Bids
    BY <1>l, LogType DEF TypeOK, ProgramOK
  <2>2. e \in SQE /\ e.op # OP_RECVMSG
    BY <2>1, MadeSqe DEF Sqe
  <2>3. QED
    BY <1>a, <1>l, <2>2 DEF Logged
<1>2. CASE QueueAccept
  <2>. DEFINE e == Sqe(OP_ACCEPT, ListenFd)
  <2>1. e \in SQE /\ e.op # OP_RECVMSG
    BY MadeSqe DEF Sqe
  <2>2. SqOK(sq')
    BY <1>0, <1>2, <1>a, <2>1 DEF QueueAccept
  <2>3. QED
    BY <1>0, <1>2, <2>2 DEF QueueAccept, AcceptedOnly
<1>3. CASE Greet
  <2>1. SqOK(sq')
    BY <1>0, <1>3, <1>l DEF Greet
  <2>2. QED
    BY <1>0, <1>3, <2>1 DEF Greet, AcceptedOnly
<1>4. CASE Seen
  <2>1. CqOK(Tail(cq))
    BY <1>0, <1>4 DEF Seen
  <2>2. QED
    BY <1>0, <1>4, <2>1 DEF Seen, AcceptedOnly
<1>5. CASE HandleAccept
  <2>. DEFINE clientfd == Head(cq).res
              e        == Sqe(OP_RECVMSG, clientfd)
              q        == Append(sq, e)
  <2>1. CASE UNCHANGED uringVars
    BY <1>1, <2>1 DEF uringVars
  <2>2. CASE clientfd >= 0 /\ CanLog(q) /\ sq' = Logged(q) /\ Handled
    <3>1. cq # <<>> /\ Head(cq).op = OP_ACCEPT /\ Head(cq) \in CQE
      BY <1>0, <1>5 DEF HandleAccept, Dispatch
    <3>2. clientfd \in Fds
      BY <2>2, <3>1, CqeFd
    <3>3. clientfd \in connected
      BY <1>0, <2>2, <3>1
    <3>4. e \in SQE /\ e.fd = clientfd
      BY <3>2, MadeSqe DEF Sqe
    <3>5. q \in Seq(SQE) /\ SqOK(q)
      BY <1>0, <1>a, <3>3, <3>4
    <3>6. SqOK(sq')
      BY <1>l, <2>2, <3>5
    <3>7. QED
      BY <1>0, <2>2, <3>6 DEF Handled, AcceptedOnly
  <2>3. QED
    BY <1>5, <2>1, <2>2
       DEF HandleAccept, AcceptFailureAsserted, LogEventDies, Die
<1>6. CASE HandleRecvmsg
  <2>. DEFINE e == Sqe(OP_SENDMSG, Sender)
  <2>1. CASE UNCHANGED uringVars
    BY <1>1, <2>1 DEF uringVars
  <2>2. CASE CanLog(sq) /\ sq' = Append(Logged(sq), e) /\ Handled
    <3>1. Head(cq) \in CQE /\ Sender \in Nat
      BY <1>0, <1>6, CqeFd DEF HandleRecvmsg, Dispatch, Sender
    <3>2. e \in SQE /\ e.op # OP_RECVMSG
      BY <3>1, MadeSqe DEF Sqe
    <3>3. Logged(sq) \in Seq(SQE) /\ SqOK(Logged(sq))
      BY <1>0, <1>l, <2>2
    <3>4. SqOK(sq')
      BY <1>a, <2>2, <3>2, <3>3
    <3>5. QED
      BY <1>0, <2>2, <3>4 DEF Handled, AcceptedOnly
  <2>3. QED
    BY <1>6, <2>1, <2>2 DEF HandleRecvmsg, LogEventDies, Die
<1>7. CASE Submit \/ HandleWriteFixed \/ HandleSendmsg \/ WaitInterrupted
           \/ UNCHANGED vars
  BY <1>1, <1>7 DEF Submit, HandleWriteFixed, HandleSendmsg, WaitInterrupted, Die,
                    Handled, vars, uringVars
<1>8. ASSUME NEW op, Fetch(op), UNCHANGED connected,
             \/ UNCHANGED receiving
             \/ op = OP_RECVMSG /\ receiving' = receiving \cup {Head(sq).fd}
      PROVE  AcceptedOnly'
  <2>1. sq # <<>> /\ sq' = Tail(sq) /\ Head(sq).op = op /\ cq' = cq
    BY <1>0, <1>8 DEF Fetch
  <2>2. QED
    BY <1>0, <1>8, <1>t, <2>1 DEF AcceptedOnly
<1>9. ASSUME NEW op, NEW fd, NEW res, Post(op, fd, res),
             [op |-> op, fd |-> EncodeFd(fd), res |-> res] \in CQE,
             connected \subseteq connected', receiving' \subseteq receiving,
             op = OP_ACCEPT => res = -1 \/ res \in connected'
      PROVE  AcceptedOnly'
  <2>. DEFINE e == [op |-> op, fd |-> EncodeFd(fd), res |-> res]
  <2>1. cq' = Append(cq, e) /\ sq' = sq
    BY <1>9, CompletionIs DEF Post
  <2>2. \A i \in DOMAIN cq' :
          \/ i \in DOMAIN cq /\ cq'[i] = cq[i]
          \/ cq'[i] = e
    BY <1>0, <1>9, <2>1
  <2>3. e.op = OP_ACCEPT /\ e.res >= 0 => e.res \in connected'
    BY <1>9
  <2>4. \A i \in DOMAIN cq' :
          cq'[i].op = OP_ACCEPT /\ cq'[i].res >= 0 => cq'[i].res \in connected'
    BY <1>0, <1>9, <2>2, <2>3
  <2>5. QED
    BY <1>0, <1>9, <2>1, <2>4 DEF AcceptedOnly
<1>10. CASE Kernel
  <2>1. CASE Poll
    <3>1. \/ Fetch(OP_RECVMSG) /\ receiving' = receiving \cup {Head(sq).fd}
          \/ (Fetch(OP_ACCEPT) \/ Fetch(OP_WRITE_FIXED) \/ Fetch(OP_SENDMSG))
             /\ UNCHANGED receiving
      BY <2>1 DEF Poll, StartAccept, StartRecvmsg, StartWrite, StartSend
    <3>2. UNCHANGED connected
      BY <2>1 DEF Poll, StartAccept, StartRecvmsg, StartWrite, StartSend
    <3>3. QED
      BY <1>8, <3>1, <3>2
  <2>2. CASE AcceptFails
    <3>1. Post(OP_ACCEPT, ListenFd, -1) /\ UNCHANGED <<connected, receiving>>
          /\ [op |-> OP_ACCEPT, fd |-> EncodeFd(ListenFd), res |-> -1] \in CQE
      BY <2>2, PostedCqe DEF AcceptFails
    <3>2. QED
      BY <1>9, <3>1
  <2>3. ASSUME NEW fd \in Fds, AcceptConnection(fd) PROVE AcceptedOnly'
    <3>1. Post(OP_ACCEPT, ListenFd, fd) /\ connected' = connected \cup {fd}
          /\ UNCHANGED receiving
          /\ [op |-> OP_ACCEPT, fd |-> EncodeFd(ListenFd), res |-> fd] \in CQE
      BY <2>3, PostedCqe DEF AcceptConnection
    <3>2. fd \in connected' /\ connected \subseteq connected'
      BY <3>1
    <3>3. QED
      BY <1>9, <3>1, <3>2
  <2>4. ASSUME NEW fd \in Fds,
               ReceiveChunk(fd) \/ ReceiveEnd(fd) \/ ReceiveFails(fd)
        PROVE  AcceptedOnly'
    <3>1. (Post(OP_RECVMSG, fd, 1) \/ Post(OP_RECVMSG, fd, -1))
          /\ UNCHANGED connected /\ receiving' \subseteq receiving
      BY <2>4 DEF ReceiveChunk, ReceiveEnd, ReceiveFails
    <3>2. /\ [op |-> OP_RECVMSG, fd |-> EncodeFd(fd), res |-> 1] \in CQE
          /\ [op |-> OP_RECVMSG, fd |-> EncodeFd(fd), res |-> -1] \in CQE
      BY PostedCqe
    <3>3. QED
      BY <1>9, <3>1, <3>2
  <2>5. ASSUME NEW bid \in Bids, CompleteWrite(bid) PROVE AcceptedOnly'
    <3>1. Post(OP_WRITE_FIXED, bid, 0) /\ UNCHANGED <<connected, receiving>>
          /\ [op |-> OP_WRITE_FIXED, fd |-> EncodeFd(bid), res |-> 0] \in CQE
      BY <2>5, PostedCqe DEF CompleteWrite
    <3>2. QED
      BY <1>9, <3>1
  <2>6. ASSUME NEW fd \in Fds, SendResult(fd) \/ SendNotification(fd)
        PROVE  AcceptedOnly'
    <3>1. Post(OP_SENDMSG, fd, 0) /\ UNCHANGED <<connected, receiving>>
          /\ [op |-> OP_SENDMSG, fd |-> EncodeFd(fd), res |-> 0] \in CQE
      BY <2>6, PostedCqe DEF SendResult, SendNotification
    <3>2. QED
      BY <1>9, <3>1
  <2>7. QED
    BY <1>10, <2>1, <2>2, <2>3, <2>4, <2>5, <2>6 DEF Kernel, KernelWork, Peers
<1>11. QED
  BY <1>2, <1>3, <1>4, <1>5, <1>6, <1>7, <1>10 DEF Next, Program
\* AcceptedOnly holds of the running server.
THEOREM RequestsAccepted == Spec => []AcceptedOnly
<1>1. Init => AcceptedOnly
  BY DEF Init, UringInit, AcceptedOnly
<1>2. TypeOK /\ AcceptedOnly /\ [Next]_vars => AcceptedOnly'
  BY AcceptedInductive
<1>3. QED
  BY <1>1, <1>2, TypeCorrect, PTL DEF Spec

-----------------------------------------------------------------------------
\* The client's view of the steps.
Up == pc # "dead"

OwedNats == Owed \in [Fds -> Nat] /\ Owed' \in [Fds -> Nat]

LEMMA OwedType == TypeOK /\ TypeOK' => OwedNats
<1>. SUFFICES ASSUME TypeOK, TypeOK' PROVE OwedNats
  OBVIOUS
<1>1. ASSUME NEW fd \in Fds PROVE Owed[fd] \in Nat /\ Owed'[fd] \in Nat
  <2>1. /\ sq \in Seq(SQE) /\ sq' \in Seq(SQE)
        /\ sending[fd] \in Nat /\ sending'[fd] \in Nat
    BY DEF TypeOK, QueuesOK, RequestsOK
  <2>2. /\ Count(Unhandled, InputsOf(fd)) \in Nat
        /\ Count(Unhandled', InputsOf(fd)) \in Nat
        /\ Count(sq, AnswersTo(fd)) \in Nat /\ Count(sq', AnswersTo(fd)) \in Nat
    BY <2>1, UnhandledType, CountType
  <2>3. /\ Owed[fd] = Count(Unhandled, InputsOf(fd)) + Count(sq, AnswersTo(fd))
                      + sending[fd]
        /\ Owed'[fd] = Count(Unhandled', InputsOf(fd)) + Count(sq', AnswersTo(fd))
                       + sending'[fd]
    BY OwedCounts
  <2>4. sending[fd] \in Nat /\ sending'[fd] \in Nat
    BY <2>1
  <2>5. QED
    BY <2>2, <2>3, <2>4
<1>2. /\ Owed = [fd \in Fds |-> Owed[fd]]
      /\ Owed' = [fd \in Fds |-> Owed'[fd]]
  BY DEF Owed
<1>3. QED
  BY <1>1, <1>2 DEF OwedNats

\* Which sets the counts are about.
LEMMA Kinds ==
  ASSUME NEW fd \in Fds
  PROVE  InputsOf(fd) \in SUBSET Inputs /\ AnswersTo(fd) \in SUBSET Answers
  BY UringAssumption DEF InputsOf, AnswersTo, Answers, Sqe

\* A step that changes none of the numbers leaves what is owed alone.
LEMMA OwedStays ==
  ASSUME TypeOK, TypeOK', InputsStay, AnswersStay, UNCHANGED sending
  PROVE  Owed' = Owed
<1>1. ASSUME NEW fd \in Fds PROVE Owed'[fd] = Owed[fd]
  <2>1. /\ Count(Unhandled', InputsOf(fd)) = Count(Unhandled, InputsOf(fd))
        /\ Count(sq', AnswersTo(fd)) = Count(sq, AnswersTo(fd))
    BY Kinds DEF InputsStay, AnswersStay
  <2>2. QED
    BY <2>1, OwedCounts
<1>2. QED
  BY <1>1, OwedType DEF OwedNats

\* Input that becomes an answer is still owed to the same client, and so is an
\* answer that the kernel takes.
LEMMA AnsweringOwes ==
  ASSUME TypeOK, TypeOK', NEW e \in Inputs, Answering(e)
  PROVE  Owed' = Owed
<1>1. ASSUME NEW fd \in Fds PROVE Owed'[fd] = Owed[fd]
  <2>. DEFINE here  == Count(Unhandled, InputsOf(fd))
              here2 == Count(Unhandled', InputsOf(fd))
              out   == Count(sq, AnswersTo(fd))
              out2  == Count(sq', AnswersTo(fd))
  <2>1. /\ here = here2 + One(e, InputsOf(fd))
        /\ out2 = out + One(Sqe(OP_SENDMSG, e.fd), AnswersTo(fd))
    BY Kinds DEF Answering
  <2>2. One(e, InputsOf(fd)) = IF e.fd = fd THEN 1 ELSE 0
    BY DEF One, InputsOf
  <2>3. One(Sqe(OP_SENDMSG, e.fd), AnswersTo(fd)) = IF e.fd = fd THEN 1 ELSE 0
    BY DEF One, AnswersTo, Sqe
  <2>4. sq \in Seq(SQE) /\ sq' \in Seq(SQE)
    BY DEF TypeOK, QueuesOK
  <2>5. here \in Nat /\ here2 \in Nat /\ out \in Nat /\ out2 \in Nat
        /\ sending[fd] \in Nat /\ sending' = sending
    BY <2>4, UnhandledType, CountType DEF Answering, TypeOK, RequestsOK
  <2>6. here + out = here2 + out2
    BY <2>1, <2>2, <2>3, <2>5
  <2>7. /\ Owed[fd] = here + out + sending[fd]
        /\ Owed'[fd] = here2 + out2 + sending[fd]
    BY <2>5, OwedCounts
  <2>8. QED
    BY <2>5, <2>6, <2>7
<1>2. QED
  BY <1>1, OwedType DEF OwedNats

LEMMA TakingOwes ==
  ASSUME TypeOK, TypeOK', NEW e \in Answers, TakingAnswer(e)
  PROVE  Owed' = Owed
<1>1. ASSUME NEW fd \in Fds PROVE Owed'[fd] = Owed[fd]
  <2>. DEFINE here  == Count(Unhandled, InputsOf(fd))
              here2 == Count(Unhandled', InputsOf(fd))
              out   == Count(sq, AnswersTo(fd))
              out2  == Count(sq', AnswersTo(fd))
  <2>1. here = here2 /\ out = out2 + One(e, AnswersTo(fd))
    BY Kinds DEF TakingAnswer, InputsStay
  <2>2. e = Sqe(OP_SENDMSG, e.fd)
    BY DEF Answers, Sqe
  <2>3. One(e, AnswersTo(fd)) = IF e.fd = fd THEN 1 ELSE 0
    BY <2>2 DEF One, AnswersTo, Sqe
  <2>4. sq \in Seq(SQE) /\ sq' \in Seq(SQE)
    BY DEF TypeOK, QueuesOK
  <2>5. /\ here \in Nat /\ here2 \in Nat /\ out \in Nat /\ out2 \in Nat
        /\ sending[fd] \in Nat
    BY <2>4, UnhandledType, CountType DEF TypeOK, RequestsOK
  <2>6. sending'[fd] = sending[fd] + IF fd = e.fd THEN 1 ELSE 0
    BY DEF TakingAnswer
  <2>7. /\ Owed[fd] = here + out + sending[fd]
        /\ Owed'[fd] = here2 + out2 + sending'[fd]
    BY OwedCounts
  <2>8. QED
    BY <2>1, <2>3, <2>5, <2>6, <2>7
<1>2. QED
  BY <1>1, OwedType DEF OwedNats

\* Input that arrives is owed an answer.
LEMMA ReceivingOwes ==
  ASSUME TypeOK, TypeOK', FdsFit, NEW fd \in Fds, Receiving(fd)
  PROVE  Owed' = [Owed EXCEPT ![fd] = @ + 1]
<1>. DEFINE e == [op |-> OP_RECVMSG, fd |-> EncodeFd(fd), res |-> 1]
<1>1. EncodeFd(fd) = fd
  <2>1. fd \in 0..(UdFdMod - 1)
    BY DEF FdsFit
  <2>2. UdFdMod \in Nat \ {0}
    BY DEF UdFdMod
  <2>3. fd \in Nat /\ fd % UdFdMod = fd
    BY <2>1, <2>2
  <2>4. QED
    BY <2>3, EncodeMod
<1>2. e \in CQE /\ e.op = OP_RECVMSG /\ e.res = 1 /\ e.fd = fd
  BY <1>1, PostedCqe
<1>3. e \in Inputs
  BY <1>2 DEF Inputs
<1>4. ASSUME NEW f \in Fds
      PROVE  Owed'[f] = Owed[f] + IF f = fd THEN 1 ELSE 0
  <2>1. One(e, InputsOf(f)) = IF f = fd THEN 1 ELSE 0
    BY <1>2, <1>3 DEF One, InputsOf
  <2>2. /\ Count(Unhandled', InputsOf(f))
             = Count(Unhandled, InputsOf(f)) + One(e, InputsOf(f))
        /\ Count(sq', AnswersTo(f)) = Count(sq, AnswersTo(f))
        /\ sending' = sending
    BY Kinds DEF Receiving, AnswersStay
  <2>3. sq \in Seq(SQE) /\ sending[f] \in Nat
    BY DEF TypeOK, QueuesOK, RequestsOK
  <2>4. Count(Unhandled, InputsOf(f)) \in Nat /\ Count(sq, AnswersTo(f)) \in Nat
    BY <2>3, UnhandledType, CountType
  <2>5. QED
    BY <2>1, <2>2, <2>3, <2>4, OwedCounts
<1>5. QED
  BY <1>4, OwedType DEF OwedNats

\* An answer that is on its way is no longer owed.
LEMMA SentOwes ==
  ASSUME TypeOK, TypeOK', NEW fd \in Fds, Sent(fd)
  PROVE  Owed[fd] > 0 /\ Owed' = [Owed EXCEPT ![fd] = @ - 1]
<1>1. ASSUME NEW f \in Fds
      PROVE  Owed'[f] = Owed[f] - (IF f = fd THEN 1 ELSE 0) /\ Owed[f] >= sending[f]
  <2>1. /\ Count(Unhandled', InputsOf(f)) = Count(Unhandled, InputsOf(f))
        /\ Count(sq', AnswersTo(f)) = Count(sq, AnswersTo(f))
    BY Kinds DEF Sent, InputsStay, AnswersStay
  <2>2. sq \in Seq(SQE) /\ sending \in [Fds -> Nat]
    BY DEF TypeOK, QueuesOK, RequestsOK
  <2>3. Count(Unhandled, InputsOf(f)) \in Nat /\ Count(sq, AnswersTo(f)) \in Nat
    BY <2>2, UnhandledType, CountType
  <2>4. sending'[f] = sending[f] - (IF f = fd THEN 1 ELSE 0) /\ sending[f] \in Nat
    BY <2>2 DEF Sent
  <2>5. QED
    BY <2>1, <2>3, <2>4, OwedCounts
<1>2. Owed[fd] > 0
  <2>1. sending[fd] > 0 /\ sending[fd] \in Nat
    BY DEF Sent, TypeOK, RequestsOK
  <2>2. QED
    BY <1>1, <2>1, OwedType DEF OwedNats
<1>3. QED
  BY <1>1, <1>2, OwedType DEF OwedNats

\* What a step does to what is owed: it takes one piece of input, sends one
\* answer, or changes nothing.
LEMMA OwedSteps ==
  ASSUME FdsFit, TypeOK, TypeOK', PoolConserved, Next
  PROVE  \/ Owed' = Owed
         \/ \E fd \in Fds : /\ TakesInput(fd)
                            /\ Owed' = [Owed EXCEPT ![fd] = @ + 1]
         \/ \E fd \in Fds : /\ SendsAnswer(fd)
                            /\ Owed' = [Owed EXCEPT ![fd] = @ - 1]
<1>1. ASSUME Quiet PROVE Owed' = Owed
  BY <1>1, OwedStays DEF Quiet
<1>2. ASSUME Program \/ WaitInterrupted
      PROVE  Owed' = Owed
  <2>1. ASSUME NEW e \in Inputs, Answering(e) PROVE Owed' = Owed
    BY <2>1, AnsweringOwes
  <2>2. Quiet \/ \E e \in Inputs : Answering(e)
    BY <1>2, ProgramAnswers
  <2>3. QED
    BY <1>1, <2>1, <2>2
<1>3. CASE Kernel
  <2>1. ASSUME NEW e \in Answers, TakingAnswer(e)
        PROVE  Owed' = Owed
    BY <2>1, TakingOwes
  <2>2. ASSUME NEW fd \in Fds, TakesInput(fd), Receiving(fd)
        PROVE  Owed' = [Owed EXCEPT ![fd] = @ + 1]
    BY <2>2, ReceivingOwes
  <2>3. ASSUME NEW fd \in Fds, SendsAnswer(fd), Sent(fd)
        PROVE  Owed' = [Owed EXCEPT ![fd] = @ - 1]
    BY <2>3, SentOwes
  <2>4. QED
    BY <1>1, <1>3, <2>1, <2>2, <2>3, KernelAnswers
<1>4. QED
  BY <1>2, <1>3 DEF Next

\* The promise is kept in each of these steps, by name.
LEMMA InputIsReceived ==
  ASSUME FdsFit, TypeOK, TypeOK', PoolConserved, AcceptedOnly,
         NEW fd \in Fds, TakesInput(fd)
  PROVE  Hello!Receive(fd)
<1>1. Up /\ Up' /\ Receiving(fd)
  BY InputReceived DEF TakesInput, KernelDoes, Up
<1>2. fd \in connected /\ UNCHANGED connected
  BY <1>1 DEF Receiving, AcceptedOnly
<1>3. QED
  BY <1>1, <1>2, ReceivingOwes DEF Hello!Receive, Up

LEMMA AnswerIsGiven ==
  ASSUME TypeOK, TypeOK', PoolConserved, NEW fd \in Fds, SendsAnswer(fd)
  PROVE  Hello!Answer(fd)
<1>1. Up /\ Up' /\ Sent(fd)
  BY AnswerSent DEF SendsAnswer, KernelDoes, Up
<1>2. QED
  BY <1>1, SentOwes DEF Hello!Answer, Up, Sent

\* Input and answers are what they look like from outside: nothing else makes
\* what is owed to a connection grow, or fall.
InputTied  == \A fd \in Fds : Hello!Receive(fd) <=> TakesInput(fd)
AnswerTied == \A fd \in Fds : Hello!Answer(fd) <=> SendsAnswer(fd)

LEMMA StepTied ==
  ASSUME FdsFit, TypeOK, TypeOK', PoolConserved, AcceptedOnly, Next
  PROVE  InputTied /\ AnswerTied
<1>0. OwedNats
  BY OwedType
<1>1. ASSUME NEW fd \in Fds, Hello!Receive(fd) PROVE TakesInput(fd)
  <2>1. Owed'[fd] = Owed[fd] + 1 /\ Owed[fd] \in Nat
    BY <1>0, <1>1 DEF Hello!Receive, OwedNats
  <2>2. ASSUME NEW f \in Fds, Owed' = [Owed EXCEPT ![f] = @ + 1] PROVE f = fd
    BY <1>0, <2>1, <2>2 DEF OwedNats
  <2>3. ASSUME NEW f \in Fds, Owed' = [Owed EXCEPT ![f] = @ - 1] PROVE FALSE
    BY <1>0, <2>1, <2>3 DEF OwedNats
  <2>4. Owed' # Owed
    BY <2>1
  <2>5. QED
    BY <2>2, <2>3, <2>4, OwedSteps
<1>2. ASSUME NEW fd \in Fds, Hello!Answer(fd) PROVE SendsAnswer(fd)
  <2>1. Owed'[fd] = Owed[fd] - 1 /\ Owed[fd] \in Nat
    BY <1>0, <1>2 DEF Hello!Answer, OwedNats
  <2>2. ASSUME NEW f \in Fds, Owed' = [Owed EXCEPT ![f] = @ - 1] PROVE f = fd
    BY <1>0, <2>1, <2>2 DEF OwedNats
  <2>3. ASSUME NEW f \in Fds, Owed' = [Owed EXCEPT ![f] = @ + 1] PROVE FALSE
    BY <1>0, <2>1, <2>3 DEF OwedNats
  <2>4. Owed' # Owed
    BY <2>1
  <2>5. QED
    BY <2>2, <2>3, <2>4, OwedSteps
<1>3. QED
  BY <1>1, <1>2, InputIsReceived, AnswerIsGiven DEF InputTied, AnswerTied

\* Every step of the server is one of HelloService, or leaves it alone.
LEMMA StepAnswers ==
  ASSUME FdsFit, TypeOK, TypeOK', PoolConserved, AcceptedOnly, Next
  PROVE  Hello!Next \/ UNCHANGED <<Up, connected, Owed>>
<1>1. ASSUME NEW fd \in Fds, TakesInput(fd) PROVE Hello!Next
  BY <1>1, InputIsReceived DEF Hello!Next
<1>2. ASSUME NEW fd \in Fds, SendsAnswer(fd) PROVE Hello!Next
  BY <1>2, AnswerIsGiven DEF Hello!Next
<1>3. CASE Owed' = Owed /\ (Program \/ WaitInterrupted)
  <2>1. UNCHANGED connected /\ Up
    BY <1>3, ProgramAnswers DEF Up, Answering
  <2>2. CASE Up'
    BY <1>3, <2>1, <2>2
  <2>3. CASE ~Up'
    BY <1>3, <2>1, <2>3 DEF Hello!Next, Hello!GoDown, Up
  <2>4. QED
    BY <2>2, <2>3
<1>4. CASE Owed' = Owed /\ Kernel
  <2>1. Up /\ Up'
    BY <1>4, KernelAnswers DEF Up
  <2>2. CASE UNCHANGED connected
    BY <1>4, <2>1, <2>2
  <2>3. ASSUME NEW fd \in Fds \ connected, connected' = connected \cup {fd}
        PROVE  Hello!Next
    <3>1. Hello!Connect(fd)
      BY <1>4, <2>1, <2>3 DEF Hello!Connect, Up
    <3>2. QED
      BY <3>1 DEF Hello!Next
  <2>4. UNCHANGED connected
          \/ \E fd \in Fds \ connected : connected' = connected \cup {fd}
    BY <1>4, KernelAnswers DEF Receiving, TakingAnswer, Sent
  <2>5. QED
    BY <2>2, <2>3, <2>4
<1>5. QED
  BY <1>1, <1>2, <1>3, <1>4, OwedSteps DEF Next

\* The server implements HelloService, whatever the order in which accepts,
\* receives, log writes and sends complete and however many are under way:
\* each piece of input that the kernel takes is owed one answer to its own
\* connection, each answer sent pays one, and no other step, of a handler least
\* of all (appctx.c:136 and 159-161), changes what is owed; if descriptors fit
\* the user data (userdata.c:4-12).
THEOREM ServerAnswers == ASSUME FdsFit PROVE Spec => HelloSpec
<1>1. Init => Hello!Init
  <2>. SUFFICES ASSUME Init PROVE Hello!Init
    OBVIOUS
  <2>1. sq = <<>> /\ Unhandled = <<>> /\ Up /\ connected = {}
        /\ sending = [fd \in Fds |-> 0]
    BY DEF Init, UringInit, Unhandled, Up
  <2>2. ASSUME NEW fd \in Fds PROVE Owed[fd] = 0
    <3>1. Count(Unhandled, InputsOf(fd)) = 0 /\ Count(sq, AnswersTo(fd)) = 0
      BY <2>1, CountEmpty
    <3>2. QED
      BY <2>1, <3>1, InitType, OwedCounts
  <2>3. Owed = [fd \in Fds |-> 0]
    BY <2>2 DEF Owed
  <2>4. QED
    BY <2>1, <2>3 DEF Hello!Init, Up
<1>2. TypeOK /\ TypeOK' /\ PoolConserved /\ AcceptedOnly /\ [Next]_vars
        => [Hello!Next]_(Hello!vars)
  <2>1. ASSUME TypeOK, TypeOK', UNCHANGED vars
        PROVE  UNCHANGED <<Up, connected, Owed>>
    <3>1. UNCHANGED <<pc, sq, sending, connected>> /\ Unhandled' = Unhandled
      BY <2>1 DEF vars, uringVars, sqVars, cqVars, acceptVars, sendVars, Unhandled
    <3>2. Owed' = Owed
      BY <2>1, <3>1, OwedStays DEF InputsStay, AnswersStay
    <3>3. QED
      BY <3>1, <3>2 DEF Up
  <2>2. QED
    BY <2>1, StepAnswers DEF Hello!vars, Up
<1>3. TypeOK /\ TypeOK' /\ PoolConserved /\ AcceptedOnly /\ [Next]_vars
        => [\A fd \in Fds : /\ Hello!Receive(fd) <=> TakesInput(fd)
                            /\ Hello!Answer(fd) <=> SendsAnswer(fd)]_vars
  BY StepTied DEF InputTied, AnswerTied
<1>4. QED
  BY <1>1, <1>2, <1>3, TypeCorrect, BuffersConserved, RequestsAccepted, PTL
     DEF Spec, HelloSpec, Hello!Spec

-----------------------------------------------------------------------------
\* Which entries of the two queues keep connection fd read: a receive that is
\* queued, and an accept to be handled.  Only the first of a queue can leave it.
Has(s, K) == \E i \in DOMAIN s : s[i] \in K

Receives(fd) == {Sqe(OP_RECVMSG, fd)}
Accepts(fd)  == {e \in CQE : e.op = OP_ACCEPT /\ e.res = fd}

LEMMA HasAppend ==
  ASSUME NEW S, NEW s \in Seq(S), NEW e \in S, NEW K
  PROVE  /\ Append(s, e) \in Seq(S)
         /\ Has(s, K) => Has(Append(s, e), K)
         /\ e \in K => Has(Append(s, e), K)
<1>1. /\ Append(s, e) \in Seq(S)
      /\ \A i \in DOMAIN s : i \in DOMAIN Append(s, e) /\ Append(s, e)[i] = s[i]
      /\ Len(s) + 1 \in DOMAIN Append(s, e) /\ Append(s, e)[Len(s) + 1] = e
  OBVIOUS
<1>2. QED
  BY <1>1 DEF Has

LEMMA HasTail ==
  ASSUME NEW S, NEW s \in Seq(S), s # <<>>, NEW K,
         Has(s, K), Head(s) \notin K
  PROVE  Has(Tail(s), K)
<1>1. PICK i \in DOMAIN s : s[i] \in K
  BY DEF Has
<1>2. i # 1 /\ i \in 1..Len(s)
  BY <1>1
<1>3. i - 1 \in DOMAIN Tail(s) /\ Tail(s)[i - 1] = s[i]
  BY <1>2
<1>4. QED
  BY <1>1, <1>3 DEF Has

LEMMA ReadIs ==
  ASSUME NEW fd \in Fds
  PROVE  /\ TypeOK => (Read(fd) <=> \/ fd \in receiving \/ Has(sq, Receives(fd))
                                    \/ Has(Unhandled, Accepts(fd)))
         /\ TypeOK' => (Read(fd)' <=> \/ fd \in receiving'
                                      \/ Has(sq', Receives(fd))
                                      \/ Has(Unhandled', Accepts(fd)))
<1>1. ASSUME NEW s \in Seq(CQE)
      PROVE  (\E i \in DOMAIN s : s[i].op = OP_ACCEPT /\ s[i].res = fd)
               <=> Has(s, Accepts(fd))
  <2>1. \A i \in DOMAIN s : s[i] \in CQE
    BY <1>1
  <2>2. QED
    BY <2>1 DEF Has, Accepts
<1>2. ASSUME NEW s
      PROVE  (\E i \in DOMAIN s : s[i] = Sqe(OP_RECVMSG, fd))
               <=> Has(s, Receives(fd))
  BY DEF Has, Receives
<1>3. TypeOK => (Read(fd) <=> \/ fd \in receiving \/ Has(sq, Receives(fd))
                              \/ Has(Unhandled, Accepts(fd)))
  BY <1>1, <1>2, UnhandledType DEF Read
<1>4. TypeOK' => (Read(fd)' <=> \/ fd \in receiving' \/ Has(sq', Receives(fd))
                                \/ Has(Unhandled', Accepts(fd)))
  BY <1>1, <1>2, UnhandledType DEF Read
<1>5. QED
  BY <1>3, <1>4

\* No entry of another operation matters.
LEMMA OtherKinds ==
  ASSUME NEW fd \in Fds
  PROVE  /\ \A e : e.op # OP_RECVMSG => e \notin Receives(fd)
         /\ \A e : e.op # OP_ACCEPT => e \notin Accepts(fd)
         /\ \A e : e.op = OP_RECVMSG /\ e.fd # fd => e \notin Receives(fd)
  BY DEF Receives, Accepts, Sqe

\* The program only adds to the submission queue.
LEMMA ProgramQueues ==
  ASSUME TypeOK, Program \/ WaitInterrupted, NEW K, Has(sq, K)
  PROVE  Has(sq', K)
<1>0. sq \in Seq(SQE) /\ cq \in Seq(CQE) /\ free \in Seq(Bids)
  BY DEF TypeOK, ProgramOK, QueuesOK
<1>1. ASSUME UNCHANGED sq PROVE Has(sq', K)
  BY <1>1
\* A log line does not change what else is queued.
<1>2. ASSUME NEW q \in Seq(SQE), CanLog(q), Has(q, K)
      PROVE  Logged(q) \in Seq(SQE) /\ Has(Logged(q), K)
  <2>1. Sqe(OP_WRITE_FIXED, Head(free)) \in SQE
    BY <1>0, <1>2, LogType, MadeSqe
  <2>2. QED
    BY <1>2, <2>1, HasAppend DEF Logged
<1>3. CASE QueueAccept
  BY <1>0, <1>3, MadeSqe, HasAppend DEF QueueAccept
<1>4. CASE Greet
  BY <1>0, <1>2, <1>4 DEF Greet
<1>5. CASE Submit \/ Seen \/ HandleWriteFixed \/ HandleSendmsg \/ WaitInterrupted
           \/ UNCHANGED uringVars
  BY <1>1, <1>5 DEF Submit, Seen, HandleWriteFixed, HandleSendmsg,
                    WaitInterrupted, Die, uringVars, sqVars
<1>6. CASE HandleAccept
  <2>. DEFINE clientfd == Head(cq).res
              e == Sqe(OP_RECVMSG, clientfd)
              q == Append(sq, e)
  <2>1. CASE sq' # sq
    <3>1. clientfd >= 0 /\ CanLog(q) /\ sq' = Logged(q) /\ Dispatch(OP_ACCEPT)
      BY <1>6, <2>1 DEF HandleAccept, AcceptFailureAsserted, LogEventDies, Die,
                        uringVars, sqVars
    <3>2. Head(cq) \in CQE /\ Head(cq).op = OP_ACCEPT
      BY <1>0, <3>1 DEF Dispatch, TypeOK, QueuesOK
    <3>3. e \in SQE
      BY <3>1, <3>2, CqeFd, MadeSqe
    <3>4. q \in Seq(SQE) /\ Has(q, K)
      BY <1>0, <3>3, HasAppend
    <3>5. QED
      BY <1>2, <3>1, <3>4
  <2>2. QED
    BY <1>1, <2>1
<1>7. CASE HandleRecvmsg
  <2>. DEFINE e == Sqe(OP_SENDMSG, Sender)
  <2>1. CASE sq' # sq
    <3>1. sq' = Append(Logged(sq), e) /\ CanLog(sq) /\ Dispatch(OP_RECVMSG)
      BY <1>7, <2>1 DEF HandleRecvmsg, LogEventDies, Die, uringVars, sqVars
    <3>2. Head(cq) \in CQE
      BY <1>0, <3>1 DEF Dispatch, TypeOK, QueuesOK
    <3>3. e \in SQE
      BY <3>2, CqeFd, MadeSqe DEF Sender
    <3>4. QED
      BY <1>0, <1>2, <3>1, <3>3, HasAppend
  <2>2. QED
    BY <1>1, <2>1
<1>8. QED
  BY <1>3, <1>4, <1>5, <1>6, <1>7 DEF Program

\* The program handles one completion at a time, which a failed accept does
\* not get past, and leaves what is armed alone.
LEMMA ProgramHandles ==
  ASSUME TypeOK, Program \/ WaitInterrupted
  PROVE  /\ UNCHANGED <<receiving, accepting>>
         /\ \/ Unhandled' = Unhandled
            \/ /\ Unhandled = cq /\ Unhandled' = Tail(cq)
               /\ cq \in Seq(CQE) /\ cq # <<>>
               /\ Head(cq).op = OP_ACCEPT => HandleAccept /\ Handled
<1>. USE DEF sqVars, cqVars, acceptVars, recvVars, sendVars
<1>0. cq \in Seq(CQE) /\ (visible > 0 => cq # <<>>)
  BY DEF TypeOK, QueuesOK
<1>1. UNCHANGED <<receiving, accepting>>
  BY DEF Program, QueueAccept, Greet, Submit, Seen, HandleAccept, HandleRecvmsg,
         HandleWriteFixed, HandleSendmsg, Handled, AcceptFailureAsserted,
         LogEventDies, Die, WaitInterrupted, uringVars
<1>2. ASSUME QueueAccept \/ Greet \/ Submit \/ Seen \/ WaitInterrupted
      PROVE  Unhandled' = Unhandled
  BY <1>2 DEF QueueAccept, Greet, Submit, Seen, WaitInterrupted, Die, uringVars,
              Unhandled
<1>3. ASSUME HandleAccept \/ HandleRecvmsg \/ HandleWriteFixed \/ HandleSendmsg
      PROVE  Unhandled' = Unhandled \/ (Handled /\ pc = "wait" /\ visible > 0)
  <2>1. pc = "wait" /\ visible > 0
    BY <1>3 DEF HandleAccept, HandleRecvmsg, HandleWriteFixed, HandleSendmsg,
                Dispatch
  <2>2. CASE \E why : Die(why)
    BY <2>1, <2>2 DEF Die, uringVars, Unhandled
  <2>3. QED
    BY <1>3, <2>1, <2>2 DEF HandleAccept, HandleRecvmsg, HandleWriteFixed,
       HandleSendmsg, AcceptFailureAsserted, LogEventDies
<1>4. ASSUME Handled, pc = "wait"
      PROVE  Unhandled = cq /\ Unhandled' = Tail(cq)
  BY <1>4 DEF Handled, Unhandled
<1>5. HandleRecvmsg \/ HandleWriteFixed \/ HandleSendmsg => Head(cq).op # OP_ACCEPT
  BY DEF HandleRecvmsg, HandleWriteFixed, HandleSendmsg, Dispatch
<1>6. QED
  BY <1>0, <1>1, <1>2, <1>3, <1>4, <1>5 DEF Program

\* The program never stops reading a connection: handling its accept queues
\* its receive.
LEMMA ProgramReads ==
  ASSUME TypeOK, TypeOK', NEW fd \in Fds, Program \/ WaitInterrupted, Read(fd)
  PROVE  Read(fd)'
<1>0. receiving' = receiving /\ (Has(sq, Receives(fd)) => Has(sq', Receives(fd)))
  BY ProgramHandles, ProgramQueues
<1>1. CASE Unhandled' = Unhandled
  BY <1>0, <1>1, ReadIs
<1>2. CASE Unhandled' # Unhandled
  <2>1. /\ Unhandled = cq /\ Unhandled' = Tail(cq)
        /\ cq \in Seq(CQE) /\ cq # <<>>
        /\ Head(cq).op = OP_ACCEPT => HandleAccept /\ Handled
    BY <1>2, ProgramHandles
  <2>2. CASE Head(cq) \notin Accepts(fd)
    <3>1. Has(cq, Accepts(fd)) => Has(Tail(cq), Accepts(fd))
      BY <2>1, <2>2, HasTail
    <3>2. QED
      BY <1>0, <2>1, <3>1, ReadIs
  <2>3. CASE Head(cq) \in Accepts(fd)
    <3>. DEFINE e == Sqe(OP_RECVMSG, fd)
                q == Append(sq, e)
    <3>1. CanLog(q) /\ sq' = Logged(q)
      BY <2>1, <2>3 DEF Accepts, HandleAccept, Handled, AcceptFailureAsserted,
                        LogEventDies, Die
    <3>2. e \in SQE /\ e \in Receives(fd)
      BY MadeSqe DEF Receives
    <3>3. q \in Seq(SQE) /\ Has(q, Receives(fd))
      BY <3>2, HasAppend DEF TypeOK, QueuesOK
    <3>4. Sqe(OP_WRITE_FIXED, Head(free)) \in SQE
      BY <3>1, LogType, MadeSqe DEF CanLog, TypeOK, ProgramOK
    <3>5. Has(sq', Receives(fd))
      BY <3>1, <3>3, <3>4, HasAppend DEF Logged
    <3>6. QED
      BY <3>5, ReadIs
  <2>4. QED
    BY <2>2, <2>3
<1>3. QED
  BY <1>1, <1>2

\* What the kernel posts leaves what is to be handled where it is.
LEMMA PostReads ==
  ASSUME TypeOK, TypeOK', PoolConserved, NEW fd \in Fds, UNCHANGED pc,
         NEW op, NEW n, NEW res, Post(op, n, res),
         [op |-> op, fd |-> EncodeFd(n), res |-> res] \in CQE
  PROVE  /\ (fd \in receiving => fd \in receiving') /\ Read(fd) => Read(fd)'
         /\ op = OP_ACCEPT /\ res = fd => Read(fd)'
<1> DEFINE e == [op |-> op, fd |-> EncodeFd(n), res |-> res]
<1>1. /\ Unhandled \in Seq(CQE) /\ Unhandled' = Append(Unhandled, e)
      /\ sq' = sq /\ e \in CQE
  BY PostMoves
<1>2. op = OP_ACCEPT /\ res = fd => e \in Accepts(fd)
  BY <1>1 DEF Accepts
<1> HIDE DEF e
<1>3. /\ Has(Unhandled, Accepts(fd)) => Has(Unhandled', Accepts(fd))
      /\ op = OP_ACCEPT /\ res = fd => Has(Unhandled', Accepts(fd))
  BY <1>1, <1>2, HasAppend
<1>4. QED
  BY <1>1, <1>3, ReadIs

\* The SQPOLL thread takes an entry: a receive is armed as it leaves the queue.
LEMMA FetchReads ==
  ASSUME TypeOK, TypeOK', NEW fd \in Fds, Read(fd), UNCHANGED pc,
         NEW op, Fetch(op),
         op # OP_RECVMSG => receiving' = receiving,
         op = OP_RECVMSG => receiving' = receiving \cup {Head(sq).fd}
  PROVE  Read(fd)'
<1>1. /\ Unhandled' = Unhandled /\ sq' = Tail(sq) /\ Head(sq).op = op
      /\ sq \in Seq(SQE) /\ sq # <<>>
  BY DEF Fetch, cqVars, Unhandled, TypeOK, QueuesOK
<1>2. fd \in receiving => fd \in receiving'
  OBVIOUS
<1>3. Head(sq) \in Receives(fd) => fd \in receiving'
  BY <1>1, OtherKinds
<1>4. Head(sq) \notin Receives(fd) /\ Has(sq, Receives(fd))
        => Has(sq', Receives(fd))
  BY <1>1, HasTail
<1>5. QED
  BY <1>1, <1>2, <1>3, <1>4, ReadIs

\* The kernel stops reading a connection only in the three ways that the
\* property names.
LEMMA KernelReads ==
  ASSUME TypeOK, TypeOK', PoolConserved, NEW fd \in Fds, Kernel,
         Read(fd), ~Read(fd)'
  PROVE  KernelDoes(\/ ReceiveEnd(fd) \/ ReceiveFails(fd)
                    \/ ~Fits /\ ReceiveChunk(fd))
<1>1. pc # "dead" /\ UNCHANGED <<pc, cause, free, fmt_addr>>
  BY DEF Kernel
<1>2. ASSUME NEW op, NEW n, NEW res, Post(op, n, res),
             [op |-> op, fd |-> EncodeFd(n), res |-> res] \in CQE,
             fd \in receiving => fd \in receiving'
      PROVE  FALSE
  BY <1>1, <1>2, PostReads
<1>3. CASE Poll
  <2>1. /\ OP_ACCEPT # OP_RECVMSG /\ OP_WRITE_FIXED # OP_RECVMSG
        /\ OP_SENDMSG # OP_RECVMSG
    BY DEF OP_ACCEPT, OP_RECVMSG, OP_WRITE_FIXED, OP_SENDMSG
  <2>2. QED
    BY <1>1, <1>3, <2>1, FetchReads
       DEF Poll, StartAccept, StartRecvmsg, StartWrite, StartSend, recvVars
<1>4. ASSUME NEW bid \in Bids, CompleteWrite(bid) PROVE FALSE
  BY <1>2, <1>4, PostedCqe DEF CompleteWrite, recvVars
<1>5. ASSUME NEW to \in Fds, SendResult(to) \/ SendNotification(to) PROVE FALSE
  BY <1>2, <1>5, PostedCqe DEF SendResult, SendNotification, recvVars
<1>6. ASSUME AcceptFails PROVE FALSE
  BY <1>2, <1>6, PostedCqe DEF AcceptFails, recvVars
<1>7. ASSUME NEW to \in Fds, AcceptConnection(to) PROVE FALSE
  BY <1>2, <1>7, PostedCqe DEF AcceptConnection, recvVars
<1>8. ASSUME NEW to \in Fds,
             ReceiveChunk(to) \/ ReceiveEnd(to) \/ ReceiveFails(to)
      PROVE  KernelDoes(\/ ReceiveEnd(fd) \/ ReceiveFails(fd)
                        \/ ~Fits /\ ReceiveChunk(fd))
  <2>1. PICK res \in {1, -1} : Post(OP_RECVMSG, to, res)
    BY <1>8 DEF ReceiveChunk, ReceiveEnd, ReceiveFails
  <2>2. [op |-> OP_RECVMSG, fd |-> EncodeFd(to), res |-> res] \in CQE
    BY PostedCqe
  <2>3. fd \in receiving /\ fd \notin receiving'
    BY <1>2, <2>1, <2>2
  <2>4. to = fd /\ (ReceiveChunk(to) => ~Fits)
    BY <1>8, <2>3 DEF ReceiveChunk, ReceiveEnd, ReceiveFails
  <2>5. QED
    BY <1>1, <1>8, <2>4 DEF KernelDoes
<1>9. QED
  BY <1>3, <1>4, <1>5, <1>6, <1>7, <1>8 DEF Kernel, KernelWork, Peers

\* A connection is read from its first moment.
LEMMA AcceptedIsRead ==
  ASSUME TypeOK, TypeOK', PoolConserved, [Next]_vars,
         NEW fd \in Fds, fd \in connected' \ connected
  PROVE  Read(fd)'
<1>1. Kernel
  BY DEF Next, Program, QueueAccept, Greet, Submit, Seen, HandleAccept,
         HandleRecvmsg, HandleWriteFixed, HandleSendmsg, Handled,
         AcceptFailureAsserted, LogEventDies, Die, WaitInterrupted, vars,
         uringVars, acceptVars
<1>2. AcceptConnection(fd) /\ UNCHANGED pc
  BY <1>1 DEF Kernel, KernelWork, Peers, Poll, StartAccept, StartRecvmsg,
              StartWrite, StartSend, CompleteWrite, SendResult,
              SendNotification, AcceptConnection, AcceptFails, ReceiveChunk,
              ReceiveEnd, ReceiveFails, acceptVars
<1>3. Post(OP_ACCEPT, ListenFd, fd)
  BY <1>2 DEF AcceptConnection
<1>4. QED
  BY <1>2, <1>3, PostedCqe, PostReads

\* Every connection is read from the moment it is accepted until the kernel
\* ends its receive, whatever queues are full and however completions
\* interleave: the handlers and the loop lose none (appctx.c:117-130,
\* main.c:18-51).
THEOREM NoConnectionForgotten == Spec => ConnectionsStayRead
<1>1. ASSUME TypeOK, TypeOK', PoolConserved, [Next]_vars, NEW fd \in Fds
      PROVE  /\ fd \in connected' \ connected => Read(fd)'
             /\ Read(fd) /\ ~Read(fd)' =>
                  KernelDoes(\/ ReceiveEnd(fd) \/ ReceiveFails(fd)
                             \/ ~Fits /\ ReceiveChunk(fd))
  <2>1. UNCHANGED vars => UNCHANGED <<receiving, sq>> /\ Unhandled' = Unhandled
    BY DEF vars, uringVars, sqVars, cqVars, recvVars, Unhandled
  <2>2. UNCHANGED vars => (Read(fd) => Read(fd)')
    BY <1>1, <2>1, ReadIs
  <2>3. QED
    BY <1>1, <2>2, ProgramReads, KernelReads, AcceptedIsRead DEF Next
<1>2. TypeOK /\ TypeOK' /\ PoolConserved /\ [Next]_vars =>
        [\A fd \in Fds :
           /\ fd \in connected' \ connected => Read(fd)'
           /\ Read(fd) /\ ~Read(fd)' =>
                KernelDoes(\/ ReceiveEnd(fd) \/ ReceiveFails(fd)
                           \/ ~Fits /\ ReceiveChunk(fd))]_vars
  BY <1>1
<1>3. QED
  BY <1>2, TypeCorrect, BuffersConserved, PTL DEF Spec, ConnectionsStayRead

-----------------------------------------------------------------------------
\* What keeps the server listening, in the same terms: an accept that is
\* queued, and a failure of it that is to be handled.
Asks     == {e \in SQE : e.op = OP_ACCEPT}
Failures == {e \in CQE : e.op = OP_ACCEPT /\ e.res < 0}

LEMMA ListeningIs ==
  /\ TypeOK => (Listening <=> \/ accepting \/ Has(sq, Asks)
                              \/ Has(Unhandled, Failures))
  /\ TypeOK' => (Listening' <=> \/ accepting' \/ Has(sq', Asks)
                                \/ Has(Unhandled', Failures))
<1>1. ASSUME NEW s \in Seq(CQE)
      PROVE  (\E i \in DOMAIN s : s[i].op = OP_ACCEPT /\ s[i].res < 0)
               <=> Has(s, Failures)
  <2>1. \A i \in DOMAIN s : s[i] \in CQE
    BY <1>1
  <2>2. QED
    BY <2>1 DEF Has, Failures
<1>2. ASSUME NEW s \in Seq(SQE)
      PROVE  (\E i \in DOMAIN s : s[i].op = OP_ACCEPT) <=> Has(s, Asks)
  <2>1. \A i \in DOMAIN s : s[i] \in SQE
    BY <1>2
  <2>2. QED
    BY <2>1 DEF Has, Asks
<1>3. ASSUME TypeOK
      PROVE  Listening <=> \/ accepting \/ Has(sq, Asks) \/ Has(Unhandled, Failures)
  BY <1>1, <1>2, <1>3, UnhandledType DEF Listening, TypeOK, QueuesOK
<1>4. ASSUME TypeOK'
      PROVE  Listening' <=> \/ accepting' \/ Has(sq', Asks)
                            \/ Has(Unhandled', Failures)
  BY <1>1, <1>2, <1>4, UnhandledType DEF Listening, TypeOK, QueuesOK
<1>5. QED
  BY <1>3, <1>4

\* The program never stops listening: it does not get past a failed accept.
LEMMA ProgramListens ==
  ASSUME TypeOK, TypeOK', Program \/ WaitInterrupted, Listening
  PROVE  Listening'
<1>0. accepting' = accepting /\ (Has(sq, Asks) => Has(sq', Asks))
  BY ProgramHandles, ProgramQueues
<1>1. CASE Unhandled' = Unhandled
  BY <1>0, <1>1, ListeningIs
<1>2. CASE Unhandled' # Unhandled
  <2>1. /\ Unhandled = cq /\ Unhandled' = Tail(cq)
        /\ cq \in Seq(CQE) /\ cq # <<>>
        /\ Head(cq).op = OP_ACCEPT => HandleAccept /\ Handled
    BY <1>2, ProgramHandles
  <2>2. Head(cq) \notin Failures
    <3>. SUFFICES ASSUME Head(cq) \in Failures PROVE FALSE
      OBVIOUS
    <3>1. Head(cq) \in CQE /\ Head(cq).op = OP_ACCEPT /\ Head(cq).res < 0
      BY DEF Failures
    <3>2. HandleAccept /\ pc' = "handled"
      BY <2>1, <3>1 DEF Handled
    <3>3. Head(cq).res >= 0
      BY <3>2 DEF HandleAccept, AcceptFailureAsserted, LogEventDies, Die
    <3>4. Head(cq).res \in Int
      <4>1. Head(cq).res \in Fds \cup {-1}
        BY <3>1, CqeFd
      <4>2. \A fd \in Fds : fd \in Int
        BY UringAssumption
      <4>3. QED
        BY <4>1, <4>2
    <3>5. QED
      BY <3>1, <3>3, <3>4
  <2>3. Has(cq, Failures) => Has(Tail(cq), Failures)
    BY <2>1, <2>2, HasTail
  <2>4. QED
    BY <1>0, <2>1, <2>3, ListeningIs
<1>3. QED
  BY <1>1, <1>2

\* What the kernel posts leaves what is to be handled where it is.
LEMMA PostListens ==
  ASSUME TypeOK, TypeOK', PoolConserved, UNCHANGED pc,
         NEW op, NEW n, NEW res, Post(op, n, res),
         [op |-> op, fd |-> EncodeFd(n), res |-> res] \in CQE
  PROVE  /\ (accepting => accepting') /\ Listening => Listening'
         /\ op = OP_ACCEPT /\ res < 0 => Listening'
<1> DEFINE e == [op |-> op, fd |-> EncodeFd(n), res |-> res]
<1>1. /\ Unhandled \in Seq(CQE) /\ Unhandled' = Append(Unhandled, e)
      /\ sq' = sq /\ e \in CQE
  BY PostMoves
<1>2. op = OP_ACCEPT /\ res < 0 => e \in Failures
  BY <1>1 DEF Failures
<1> HIDE DEF e
<1>3. /\ Has(Unhandled, Failures) => Has(Unhandled', Failures)
      /\ op = OP_ACCEPT /\ res < 0 => Has(Unhandled', Failures)
  BY <1>1, <1>2, HasAppend
<1>4. QED
  BY <1>1, <1>3, ListeningIs

\* The SQPOLL thread takes an entry: the accept is armed as it leaves the queue.
LEMMA FetchListens ==
  ASSUME TypeOK, TypeOK', Listening, UNCHANGED pc, NEW op, Fetch(op),
         op # OP_ACCEPT => accepting' = accepting,
         op = OP_ACCEPT => accepting' = TRUE
  PROVE  Listening'
<1>1. /\ Unhandled' = Unhandled /\ sq' = Tail(sq) /\ Head(sq).op = op
      /\ sq \in Seq(SQE) /\ sq # <<>>
  BY DEF Fetch, cqVars, Unhandled, TypeOK, QueuesOK
<1>2. CASE op = OP_ACCEPT
  BY <1>2, ListeningIs
<1>3. CASE op # OP_ACCEPT
  <2>1. Head(sq) \notin Asks
    BY <1>1, <1>3 DEF Asks
  <2>2. Has(sq, Asks) => Has(sq', Asks)
    BY <1>1, <2>1, HasTail
  <2>3. QED
    BY <1>1, <1>3, <2>2, ListeningIs
<1>4. QED
  BY <1>2, <1>3

\* The kernel ends the accept in one way only that the program is not told of.
LEMMA KernelListens ==
  ASSUME TypeOK, TypeOK', PoolConserved, Kernel, Listening, ~Listening'
  PROVE  KernelDoes(~Fits /\ \E fd \in Fds : AcceptConnection(fd))
<1>1. pc # "dead" /\ UNCHANGED <<pc, cause, free, fmt_addr>>
  BY DEF Kernel
<1>2. ASSUME NEW op, NEW n, NEW res, Post(op, n, res),
             [op |-> op, fd |-> EncodeFd(n), res |-> res] \in CQE,
             accepting' = accepting
      PROVE  FALSE
  BY <1>1, <1>2, PostListens
<1>3. CASE Poll
  <2>1. /\ OP_RECVMSG # OP_ACCEPT /\ OP_WRITE_FIXED # OP_ACCEPT
        /\ OP_SENDMSG # OP_ACCEPT
    BY DEF OP_ACCEPT, OP_RECVMSG, OP_WRITE_FIXED, OP_SENDMSG
  <2>2. QED
    BY <1>1, <1>3, <2>1, FetchListens
       DEF Poll, StartAccept, StartRecvmsg, StartWrite, StartSend, acceptVars
<1>4. ASSUME NEW bid \in Bids, CompleteWrite(bid) PROVE FALSE
  BY <1>2, <1>4, PostedCqe DEF CompleteWrite, acceptVars
<1>5. ASSUME NEW to \in Fds, SendResult(to) \/ SendNotification(to) PROVE FALSE
  BY <1>2, <1>5, PostedCqe DEF SendResult, SendNotification, acceptVars
<1>6. ASSUME AcceptFails PROVE FALSE
  <2>1. /\ Post(OP_ACCEPT, ListenFd, -1)
        /\ [op |-> OP_ACCEPT, fd |-> EncodeFd(ListenFd), res |-> -1] \in CQE
    BY <1>6, PostedCqe DEF AcceptFails
  <2>2. -1 < 0
    OBVIOUS
  <2>3. QED
    BY <1>1, <2>1, <2>2, PostListens
<1>7. ASSUME NEW to \in Fds,
             ReceiveChunk(to) \/ ReceiveEnd(to) \/ ReceiveFails(to)
      PROVE  FALSE
  BY <1>2, <1>7, PostedCqe DEF ReceiveChunk, ReceiveEnd, ReceiveFails, acceptVars
<1>8. ASSUME NEW to \in Fds, AcceptConnection(to) PROVE ~Fits
  <2>1. /\ Post(OP_ACCEPT, ListenFd, to) /\ accepting' = Fits
        /\ [op |-> OP_ACCEPT, fd |-> EncodeFd(ListenFd), res |-> to] \in CQE
    BY <1>8, PostedCqe DEF AcceptConnection
  <2>2. ~accepting'
    BY <1>1, <2>1, PostListens
  <2>3. QED
    BY <2>1, <2>2
<1>9. QED
  BY <1>1, <1>3, <1>4, <1>5, <1>6, <1>7, <1>8
     DEF Kernel, KernelWork, Peers, KernelDoes

\* From its first entry on the server listens until a connection finds no room
\* in the completion queue: nothing else, of the program or of the kernel, ends
\* the accept without the server dying of it (main.c:86-90, appctx.c:119-120).
THEOREM KeepsListening == Spec => StaysListening
<1>1. ASSUME TypeOK, TypeOK', QueueAccept PROVE Listening'
  <2>1. Sqe(OP_ACCEPT, ListenFd) \in Asks
    BY MadeSqe DEF Asks, Sqe
  <2>2. Has(sq', Asks)
    BY <1>1, <2>1, MadeSqe, HasAppend DEF QueueAccept, TypeOK, QueuesOK
  <2>3. QED
    BY <1>1, <2>2, ListeningIs
<1>2. ASSUME TypeOK, TypeOK', PoolConserved, Next, Listening, ~Listening'
      PROVE  KernelDoes(~Fits /\ \E fd \in Fds : AcceptConnection(fd))
  BY <1>2, ProgramListens, KernelListens DEF Next
<1>3. TypeOK /\ TypeOK' /\ PoolConserved /\ [Next]_vars =>
        [/\ QueueAccept => Listening'
         /\ Listening /\ ~Listening' =>
              KernelDoes(~Fits /\ \E fd \in Fds : AcceptConnection(fd))]_vars
  BY <1>1, <1>2
<1>4. QED
  BY <1>3, TypeCorrect, BuffersConserved, PTL DEF Spec, StaysListening
=============================================================================
