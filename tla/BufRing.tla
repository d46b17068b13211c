------------------------------ MODULE BufRing ------------------------------
(***************************************************************************)
(* The ring of receive buffers (struct bufring_t, clib/appctx.c).  The     *)
(* program publishes buffers by writing ring slots and advancing the tail; *)
(* the kernel takes the buffer named in the slot at its own head for each  *)
(* message it receives and reports the buffer id in a completion; the      *)
(* program handles completions in order and puts the buffer back.          *)
(* Positions are counted modulo Entries, as the mask does.                 *)
(***************************************************************************)
EXTENDS Integers, Sequences, Functions

CONSTANT
  Entries             \* slots of the ring = number of buffers (16 in main.c:64)

ASSUME EntriesAssumption == Entries \in Nat \ {0}

Slots == 0..(Entries - 1)
Bids == 0..(Entries - 1)

VARIABLES
  slot,               \* the bid written in each slot of the shared ring
  tail,               \* slot of the program's tail (br->tail & mask)
  avail,              \* slots between the kernel's head and the tail
  received            \* bids of the completions the program has not handled

vars == <<slot, tail, avail, received>>

\* The slot of the kernel's head.
HeadSlot == (tail - avail) % Entries

\* io_uring_buf_ring_add writes a buffer buf_offset slots after the tail and
\* moves nothing; io_uring_buf_ring_advance moves the tail by count.
RingAdd(bid, offset) == [slot EXCEPT ![(tail + offset) % Entries] = bid]
RingAdvance(count) == /\ tail' = (tail + count) % Entries
                      /\ avail' = avail + count

-----------------------------------------------------------------------------
\* bufring_init: buffer i goes to slot i, then all become visible at once.
Init ==
  /\ slot = [i \in Slots |-> i]
  /\ tail = Entries % Entries
  /\ avail = Entries
  /\ received = <<>>

\* The kernel receives a message into the buffer of its head slot.
KernelReceive ==
  /\ avail > 0
  /\ avail' = avail - 1
  /\ received' = Append(received, slot[HeadSlot])
  /\ UNCHANGED <<slot, tail>>

\* A faulty handler that advances the tail once too often.
RepostAdvancesTwice ==
  /\ received # <<>>
  /\ LET bid == Head(received) IN slot' = RingAdd(bid, bid)
  /\ RingAdvance(2)
  /\ received' = Tail(received)

\* A faulty handler that never advances the tail.
RepostNeverAdvances ==
  /\ received # <<>>
  /\ LET bid == Head(received) IN slot' = RingAdd(bid, bid)
  /\ received' = Tail(received)
  /\ UNCHANGED <<tail, avail>>

\* A faulty handler that writes the id after the one it handled.
RepostsNextBid ==
  /\ received # <<>>
  /\ LET bid == Head(received)
     IN  slot' = RingAdd((bid + 1) % Entries, bid)
  /\ RingAdvance(1)
  /\ received' = Tail(received)

\* appctx_handle_recvmsg, the part that concerns the ring: the buffer of
\* the completion is added with its own id as the offset from the tail,
\* then the tail is advanced by one.
Repost ==
  /\ received # <<>>
  /\ LET bid == Head(received) IN slot' = RingAdd(bid, bid)
  /\ RingAdvance(1)
  /\ received' = Tail(received)

Next == KernelReceive \/ Repost

Spec == Init /\ [][Next]_vars

-----------------------------------------------------------------------------
\* Slots and ids are in range; no counter leaves its bounds.
TypeOK ==
  /\ slot \in [Slots -> Bids]
  /\ tail \in Slots
  /\ avail \in 0..Entries
  /\ received \in Seq(Bids)

\* Every slot is either visible to the kernel or stands for a completion the
\* program has yet to handle: handling completions (appctx.c:151-157) never
\* publishes a slot too many, which would let the kernel lap the tail, or
\* one too few, which would starve the connections of buffers.
SlotsAccountedFor == avail + Len(received) = Entries

\* The buffers in the slots the kernel can see and in the completions the
\* program has yet to handle.
Visible == {slot[(tail - i) % Entries] : i \in 1..avail}
Unhandled == Range(received)

\* No buffer comes back once no slot, visible or stale, and no unhandled
\* completion names it: appctx_handle_recvmsg only puts back the id of the
\* completion it handles, so a slot it overwrites (appctx.c:151-156) costs
\* the ring that buffer for the rest of the program's life.
LostBuffersStayLost ==
  [][Range(slot') \cup Unhandled' \subseteq Range(slot) \cup Unhandled]_vars

\* The comments of bufring_init say of the ring "add each buffer, we'll use
\* i buffer ID" and "we've supplied buffers, make them visible to the
\* kernel" (appctx.c:37 and 42): a buffer that was put back is visible to
\* the kernel, and so every buffer is visible or in an unhandled completion.
EveryBufferInUse == Bids \subseteq Visible \cup Unhandled
=============================================================================
