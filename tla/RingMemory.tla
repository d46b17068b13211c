----------------------------- MODULE RingMemory -----------------------------
(***************************************************************************)
(* The receive buffer ring of clib/appctx.c byte by byte.  BufRing gives   *)
(* it slots and a tail; here they are stores to the memory that the        *)
(* program shares with the kernel, laid out as Bindings says: the 16 bit   *)
(* tail lies over the reserved bytes of the first entry, the memory is     *)
(* allocated by the size of one type and indexed by that of another, and   *)
(* the kernel's thread may look between two stores.                        *)
(***************************************************************************)
EXTENDS Bindings, Functions

CONSTANTS
  Entries,            \* slots of the ring (16 in main.c:64)
  CounterMod          \* where head and tail wrap: 2^16 in the kernel

\* The kernel registers no ring that is not a power of two, or of more than
\* 2^15 entries.
ASSUME RingAssumption ==
  Entries \in Nat \ {0} /\ CounterMod \in Nat
  /\ CounterMod % Entries = 0 /\ CounterMod > Entries

VARIABLES
  mem,                \* for each byte, the value last stored across it
  pc,                 \* "clear", "fill", then "idle" or "add"
  added,              \* buffers that bufring_init has added
  pending,            \* fields of the entry being added not stored yet
  head,               \* the kernel's own counter
  received            \* what the kernel took for messages not yet handled

vars == <<mem, pc, added, pending, head, received>>

Slots == 0..(Entries - 1)
Bids == 0..(Entries - 1)
Indeterminate == -1
EntryLen == 1         \* any length: all buffers have the same one

Store(m, at, size, value) ==
  [b \in DOMAIN m \cup (at..(at + size - 1)) |->
     IF b \in at..(at + size - 1) THEN value ELSE m[b]]
Load(at, size) ==
  IF \A b \in at..(at + size - 1) : mem[b] = mem[at]
  THEN mem[at] ELSE Indeterminate

\* br->tail, and the fields of br->bufs[k].
Tail16 == io_uring_buf_ring__bindgen_ty_1__bindgen_ty_1.fields[4]
ProgramTail == Load(Tail16.at, Tail16.size)
StoreTail(m, value) == Store(m, Tail16.at, Tail16.size, value % CounterMod)

EntryField == [addr |-> io_uring_buf.fields[1], len |-> io_uring_buf.fields[2],
               bid |-> io_uring_buf.fields[3], resv |-> io_uring_buf.fields[4]]
FieldAt(k, f) == k * io_uring_buf.size + EntryField[f].at
LoadField(k, f) == Load(FieldAt(k, f), EntryField[f].size)

\* A faulty io_uring_buf_ring_add that assigns the whole entry.
AddedFieldsWhole == {"addr", "len", "bid", "resv"}

\* The stores of io_uring_buf_ring_add.
AddedFields == {"addr", "len", "bid"}

\* A faulty caller that passes the start of all buffers for that of each.
ValueOfFirstAddress(f, bid) ==
  CASE f = "len" -> EntryLen [] f \in {"addr", "resv"} -> 0 [] OTHER -> bid

\* The arguments: a buffer goes by its index, so its address and its id have
\* the same value.
ValueOf(f, bid) ==
  CASE f = "len" -> EntryLen [] f = "resv" -> 0 [] OTHER -> bid
StoreField(m, k, f, bid) ==
  Store(m, FieldAt(k, f), EntryField[f].size, ValueOf(f, bid))

Avail == (ProgramTail - head) % CounterMod

-----------------------------------------------------------------------------
\* A faulty allocation by the size of the pointer.
AllocatedBySizeOfPointer == Entries * ptr.size

\* posix_memalign of entries times sizeof(struct io_uring_buf_ring), which
\* is as long as one entry.
Allocated == Entries * io_uring_buf_ring.size

Init ==
  /\ mem = [b \in 0..(Allocated - 1) |-> Indeterminate]
  /\ pc = "clear"
  /\ added = 0
  /\ pending = {}
  /\ head = 0
  /\ received = <<>>

\* io_uring_buf_ring_init
Clear ==
  /\ pc = "clear"
  /\ mem' = StoreTail(mem, 0)
  /\ pc' = "fill"
  /\ UNCHANGED <<added, pending, head, received>>

\* One turn of the loop of bufring_init begins: buffer i goes i slots after the
\* tail.
FillNext ==
  /\ pc = "fill"
  /\ pending = {}
  /\ added < Entries
  /\ pending' = AddedFields
  /\ UNCHANGED <<mem, pc, added, head, received>>

\* The buffer that is being added, with its own id as its offset.
AddedBid == IF pc = "fill" THEN added ELSE Head(received).bid

\* One of the stores of io_uring_buf_ring_add: nothing orders them.
StoreNext ==
  /\ \E f \in pending :
       /\ mem' = StoreField(mem, (ProgramTail + AddedBid) % Entries, f, AddedBid)
       /\ pending' = pending \ {f}
  /\ added' = IF pc = "fill" /\ pending' = {} THEN added + 1 ELSE added
  /\ UNCHANGED <<pc, head, received>>

\* All buffers become visible, and the event loop may ask for messages.
Publish ==
  /\ pc = "fill"
  /\ added = Entries
  /\ mem' = StoreTail(mem, ProgramTail + Entries)
  /\ pc' = "idle"
  /\ UNCHANGED <<added, pending, head, received>>

\* The kernel receives a message into the buffer of the entry at its head.
KernelReceive ==
  /\ pc \in {"idle", "add"}
  /\ Avail > 0
  /\ LET k == head % Entries
     IN  received' = Append(received, [addr |-> LoadField(k, "addr"),
                                       bid |-> LoadField(k, "bid")])
  /\ head' = (head + 1) % CounterMod
  /\ UNCHANGED <<mem, pc, added, pending>>

\* appctx_handle_recvmsg gets to the ring.
Handle ==
  /\ pc = "idle"
  /\ received # <<>>
  /\ pending' = AddedFields
  /\ pc' = "add"
  /\ UNCHANGED <<mem, added, head, received>>

\* io_uring_buf_ring_advance(br, 1), a store-release: the stores of the entry
\* are done.
Advance ==
  /\ pc = "add"
  /\ pending = {}
  /\ mem' = StoreTail(mem, ProgramTail + 1)
  /\ received' = Tail(received)
  /\ pc' = "idle"
  /\ UNCHANGED <<added, pending, head>>

Next ==
  \/ Clear \/ FillNext \/ StoreNext \/ Publish
  \/ KernelReceive \/ Handle \/ Advance

Spec == Init /\ [][Next]_vars

-----------------------------------------------------------------------------
\* No store falls outside what was allocated, the tail is whole once it is
\* set, and the kernel has not taken more than there was.
TypeOK ==
  /\ mem \in [0..(Allocated - 1) -> {Indeterminate, EntryLen} \cup Bids
                                      \cup 0..(CounterMod - 1)]
  /\ pc \in {"clear", "fill", "idle", "add"}
  /\ added \in 0..Entries
  /\ pending \subseteq AddedFields
  /\ pc # "clear" => ProgramTail \in 0..(CounterMod - 1)
  /\ head \in 0..(CounterMod - 1)
  /\ received \in Seq([addr : Bids, bid : Bids])
  /\ pc \in {"idle", "add"} => Avail <= Entries

\* The memory is a ring of slots as BufRing has it: what io_uring_buf_ring_add
\* stores in an entry never disturbs the tail that lies over the first one
\* (appctx.c:38-43, 151-157), no entry runs into another, and the kernel sees
\* the ids in the order BufRing says, though its thread may look between any
\* two stores.  BufRing's Repost is the store of the id.
Reposted == IF pc = "add" /\ "bid" \notin pending THEN 1 ELSE 0
Ready == pc \in {"idle", "add"}
Ring == INSTANCE BufRing WITH
  slot <- [k \in Slots |-> IF Ready THEN LoadField(k, "bid") ELSE k],
  tail <- IF Ready THEN (ProgramTail + Reposted) % Entries ELSE 0,
  avail <- IF Ready THEN Avail + Reposted ELSE Entries,
  received <- [i \in 1..(Len(received) - Reposted) |->
                 received[i + Reposted].bid]
RingSpec == Ring!Spec

\* Between handlers (appctx.c:134-162) every entry has the address of the
\* buffer it has the id of, stale ones too: a handler that mixed two buffers
\* would have one overwritten while the other is read.
EntriesWhole ==
  pc = "idle" => \A k \in Slots : LoadField(k, "addr") = LoadField(k, "bid")
=============================================================================
