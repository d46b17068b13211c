# Verification of iouring-http-server

TLA+ specifications of the C server in `cexe/`, its library `clib/`, and the Rust
front end in `rexe/` with its bindings and its build, model checked with TLC and
proved with TLAPS. Lines are given as `file:line` of this repository.

## 1. Inventory

The server is one thread on one io_uring instance. It accepts TCP connections
on port 3000, logs every connection and every piece of input to stderr through
the ring, and answers each piece of input with `Hello, World!`.

| Component | State | Operations | What makes it correct |
|---|---|---|---|
| Event loop, start-up (`cexe/main.c`) | where the program is | queue the accept, log four greetings, submit; then wait, dispatch, mark seen, submit, for ever | never sleeps on work that only it can move on; every completion is handled once |
| Handlers (`clib/appctx.c:117-162`) | none of their own | accept: arm a multishot receive, note the address, log; receive: log, advance the ring, queue an answer | one answer per piece of input, on the connection it came from; one advance of the ring per message |
| Registered buffer pool (`appctx.c:52-93`) | linked list in an array of nodes | `bufpool_pop`, `bufpool_put` | a buffer is lent to one borrower at a time, refused only when all are out, never lost |
| Receive buffer ring (`appctx.c:9-50`, `151-157`) | slots shared with the kernel, tail | add, advance | each slot is the kernel's or stands for a message to handle; no buffer is lost |
| Logger (`clib/logging.c`) | the global `fmt_addr` | `log_event`, `format_inet_addr_from_sockfd` | a line is never formatted into a buffer the kernel is writing from; the address is the sender's |
| User data (`clib/userdata.c`) | none | encode, decode | a completion finds its connection or its buffer |
| Assertions (`clib/logging.h:16-56`) | none | end the process | they fire when the call they follow failed |
| io_uring and kernel (not in the repository) | submission queue, requests in progress, completion queue with overflow list | SQPOLL takes entries, requests complete | external: what the program relies on |
| Rust front end (`rexe/src/main.rs`) | where `main` is, the completion pointer | read standard input once through the ring, print it | what is printed is what was typed; it ends |
| Generated bindings (`rexe/src/bindings.rs`) | none | declare the C types to Rust | both languages agree on every byte |
| Build (`rexe/build.rs`, the Makefiles) | artifacts on disk | make, bindgen, write, rustc | a program that was built is made from current files |
| `errors.h` | none | older copies of the assertions | not modelled: no file uses them |

**Interaction.** The program and the kernel share the two queues and the buffer
ring. The program's handlers only queue entries; the kernel's SQPOLL thread sees
them after `io_uring_submit`. A connection, a chunk of input, a finished write
and a send (twice: result and zero-copy notification) come back as completions
in one queue, in any order. Log lines borrow a registered buffer in
`log_event` and give it back when the completion of their write is handled,
possibly many turns of the loop later.

**What is hard.** The interleaving of SQPOLL, completions and handlers; queues,
pool and ring at their limits (completion overflow, no submission entry, no log
buffer, no receive buffer); multishot requests that end; peers that reset;
one global address for all connections; asserts that end the server half-way
through a handler, also when a signal interrupts the wait. Below that level: the
ring is plain memory that the kernel's thread reads while the program stores to
it; lengths, offsets and descriptors pass through narrower types and fixed
buffers; Rust and C share structures that each lays out for itself.
`PROJECT.json` lists each hazard at its line.

## 2. Plan

The order is by importance of the behaviour. Done:

1. `BufferLending`, `BufPool`: the lender's promise and the linked list.
2. `BufRing`: slots and ids of the receive ring.
3. `Uring`, `Server`, `ServerProperties`: the whole running server against the
   kernel; `HelloService`: what it promises its clients.
4. Proofs: `BufPoolProofs`, `BufRingProofs`, `ServerProofs`.
5. In `ServerProofs` too: `RingConserved`, that the server implements `HelloSpec`, and that
   it keeps listening.
6. `UserData`: packing into 64 bits and the 16 bit narrowing; every completion of `Uring`
   goes through it.
7. `LogLine`, `LogLineProofs`: the length arithmetic of `log_event`, with the bytes of the
   line.
8. `RingMemory`, `RingMemoryProofs`: the receive ring store by store, shown to implement
   `BufRing`.
9. `RexeReader`, `RexeReaderProofs`: the Rust front end.
10. `Bindings`, `Layout`, `LayoutProofs`: the types the two languages share.
11. `Build`, `BuildProofs`: the build of the Rust front end.

Left: buffer contents in the composed server (`RingMemory` and `LogLine` follow
them for one connection; `Server` counts slots). Requests that end silently when
completions overflow (`appctx.c:123`, `main.c:88`) are never armed again by the code, so the
properties name the overflow instead of ruling it out: `StaysListening` and
`ConnectionsStayRead` both say that only the kernel stops the server listening or reading,
and in which of its steps.

## 3. Modules

| Module | Models | Notes |
|---|---|---|
| `BufferLending` | nothing in the code: the abstract pool | `Lend`, `Refuse`, `Return` |
| `BufPool` | `bufpool_init`, `bufpool_pop`, `bufpool_put` | a node pointer is its index; `next` keeps stale values after a pop, as in C; `out` counts how many callers have each buffer, so that a buffer handed out twice shows |
| `BufRing` | `bufring_init`, the ring part of `appctx_handle_recvmsg` | `RingAdd` and `RingAdvance` follow the offset argument of `io_uring_buf_ring_add`; the program handles completions in order, so `received` is a queue |
| `HelloService` | nothing in the code: what clients are promised | answers owed per connection; it may go down |
| `Uring` | external: io_uring as `src/` uses it; the opcodes of `userdata.h` | an entry is `[op, fd]`, a completion `[op, fd, res]`, both as decoded from the user data |
| `Server` | `main.c`, the handlers, pool and logger as used by them | one action per handler, with every early exit; extends `Uring` |
| `ServerProperties` | nothing in the code: the properties, refinement mappings and fairness | |
| `RingMemory` | the stores of `bufring_init` and `appctx_handle_recvmsg` to the ring, and its allocation | a byte holds the value last stored across it, so a load over bytes of different stores is indeterminate; extends `Bindings` for the offsets |
| `LogLine` | `appctx_handle_recvmsg` to its `debug_log`, `log_event`, the write | a byte carries the message it belongs to; `StampLen` and `WordsLen` stand for the wording |
| `UserData` | `encode_userdata`, `userdata_decode`, the union | operators on eight bytes; the padding is a parameter, for nothing sets it |
| `RexeReader` | `main` of the Rust front end | standard input delivers, ends or fails; the wait may be interrupted |
| `Bindings` | the 70 transparent types of `bindings.rs`, with the sizes, alignments and offsets it asserts | data only |
| `Layout` | the layout rustc gives a `repr(C)` declaration | one field per step |
| `Build` | `build.rs`, with make, bindgen, cargo and rustc as it uses them | an artifact is the set of files edited since it was made |
| `BufPoolProofs`, `BufRingProofs`, `RingMemoryProofs`, `ServerProofs` (with `UserData`), `LogLineProofs`, `RexeReaderProofs`, `LayoutProofs`, `BuildProofs` | nothing in the code: theorems | |

**How they compose.** `Server` extends `Uring`, and `Uring` extends `UserData`. `BufPool` and `Server` both implement
`BufferLending` (`LendsOnce`, `LogBuffersLent`): each grant, refusal and return is tied to the
step of the abstract lender it stands for, so that none can pass as a stutter. In the
server, the buffers lent are those that a line is on its way in (`InFlight`), counted where the
lines are and not where the freelist is. `Server` implements `HelloService`, with its `Receive` and
`Answer` tied to the kernel's taking input and sending an answer. `RingMemory` implements `BufRing`, with `io_uring_buf_ring_add`'s store of
the id as `BufRing`'s `Repost`. `RingMemory`, `LogLine` and `UserData` take sizes and
offsets from `Bindings`, which `Layout` checks.

**Correspondence in `Server`.** `pc` is the program counter of the thread:
`start` and `greet` in `main`, `wait` in `io_uring_wait_cqe`, `handled` between
the handler and `io_uring_cqe_seen`, `seen` between that and `io_uring_submit`,
`dead` after an assert or a null pointer, with the reason in `cause`. A handler
is one action because what it queues is invisible to the kernel until the
submit: the kernel steps that could fall into the middle of it (SQPOLL freeing
a slot, a completion being posted) can be moved before or after it. `free` is
the freelist, head first. `fmt_addr` holds the descriptor of the peer it names.
An entry's `fd` is the argument given both to the `io_uring_prep_` call and to
`encode_userdata`; the completion carries what is
left of it after encoding and decoding (`Completion`).

**What of the data is abstracted.** Message contents and lengths, log wording,
addresses (a descriptor stands for its peer's address), iovecs, the size of
buffers. Results are a descriptor, 1, 0 or -1: the code only looks at their
sign. `io_uring_recvmsg_validate` never returns NULL: the kernel writes the
header it checks into a buffer of 1024 bytes. `io_uring_wait_cqe` fails only
when it is interrupted while it waits (`WaitInterrupted`), and ends the server by the
assert after it. `io_uring_submit` succeeds: with SQPOLL it only wakes a thread. Ring 1 is registered and never used.

## 4. Runs

The bounds are in the `.cfg` files. In all server runs `ListenFd` is 4. Connections get
descriptors from 5 on, or 65535, the largest that the user data holds.
Deadlock is not checked there: a server whose clients are silent, or that died,
stops. `MaxChunks` is the only bound that is not a resource of the program: it
bounds the input of a client. The end of a stream counts as input as well, for the server
answers that too; so two clients with no chunks already give two messages.

| Run | Checks | Shows |
|---|---|---|
| `buf_pool` (5 buffers) | `TypeOK`, `FreelistHoldsTheRest`, `LendsOnce` | all orders of pops and puts, each grant a buffer nobody has; five nodes give every shape of splice the head operations can make |
| `buf_ring` (4 slots) | `TypeOK`, `SlotsAccountedFor`, `LostBuffersStayLost` | all interleavings of kernel and handler, several turns round the ring |
| `buf_ring_repost` (4 slots) | `EveryBufferInUse`, violated | finding 1 |
| `server_two_clients` | `TypeOK`, `PoolConserved`, `RingConserved`, `NoStrandedWork`, `GoesDownForCause`, `HelloSpec`, `LogBuffersLent`, `StaysListening`, `LogBuffersReturn`, `InputAnswered` | two connections, one of which may be reset, pool of 2, three slots in each queue: completions overflow, multishots end, answers and log writes interleave, every cause of death is reached, the interrupted wait included; safety and liveness (203973 states) |
| `server_one_client` | `HelloSpec`, `ConnectionsStayRead` | two chunks and an end of stream over a ring of one slot, on descriptor 65535: receives fail for want of a slot (`appctx.c:139`), chunks overflow six completion slots and then end the receive (1196264 states) |
| `server_packet_sender` | `PacketFromSender`, violated | finding 2 |
| `server_reset_peer` | `AddressInitialized`, violated | finding 3 |
| `ring_memory` (4 entries, counters mod 8) | `TypeOK`, `EntriesWhole`, `RingSpec` | the kernel looking between any two stores: the tail and the entries that share its memory stay apart, and the memory behaves as `BufRing` says |
| `log_line` (buffer of 6, payload up to 6) | `LogsThisMessage`, `ShortLinesWhole` | lines around the size of the buffer, contents with and without a terminator |
| `rexe_reader` (buffer of 3, input up to 5) | `PrintsWhatWasTyped`, `InputEndsProgram` | characters of one and two bytes and invalid ones, delivered byte by byte, on both sides of the end of the buffer |
| `layout` (all 70 types) | `AssertionsHold`, `ViewsFit` | every asserted offset, size and alignment is the one rustc gives; the storage behind each view of a union is large and aligned enough |
| `build` (edits of `appctx.c`, `userdata.h`, `wrapper.h`) | `TypeOK`, `BuiltFromCurrentFiles` | edits and runs of `cexe`'s make between any two steps, failures at every step |

What the properties of the server say, where the name does not:

- `HelloSpec`: what is owed to a connection (its input to be handled, its answers queued and
  in progress) grows exactly when the kernel takes input from it, and falls exactly when the
  kernel sends to it. A handler that drops an answer, or queues one too many or to another
  connection, changes what is owed by itself and is rejected.
- `InputAnswered`: what is owed falls only by an answer sent, and, under fairness, falls to nothing.
- `LogBuffersLent`: `log_event` puts a line only into a buffer of the freelist that no line is on its
  way in, the loop puts back only a buffer that is out, and only a server with a line in
  every buffer dies for want of one.
- `GoesDownForCause`: the other deaths come from outside. `HelloService` may go down at any time;
  this is what limits it. A server that left its own entries unsubmitted, or slept
  on completions, would die for want of an entry, or by a signal, with less cause.
- `RingConserved` counts slots, not buffers: which buffers the slots name is finding 1.

The real sizes (16 entries, 32 completions, 16 buffers) only make the limits
harder to reach; the small ones put every limit within a few steps of the
others. The theorems below cover all sizes. In `ring_memory` the counters wrap after
twice round the ring, the least that tells full from empty. In `build` the three
files are one of each kind: built only, built and bound, bound only.

Deadlock is also unchecked in `layout` (a declaration that is laid out stays) and
`rexe_reader` (the program ends).

**Fairness** (`FairSpec`): weak fairness of the program's thread and of the SQPOLL
thread, which the operating system schedules; of each log write, for stderr
takes what is written to it; of the result of each send, for a client reads
the few bytes it is sent. Nothing is assumed of clients connecting or sending,
and nothing of zero-copy notifications. `WaitInterrupted` is not part of the program's
fairness: signals need not come. `RexeReader!FairSpec` asks the same of `main` and the
SQPOLL thread, and that a read which has something to return does; nothing is asked of
typing, of failures or of signals.

**Mutants.** Each property of a passing run has a faulty version of one
definition, beside the definition and marked as faulty in its comment, that
the run must reject.

## 5. Findings

1. `appctx.c:151-157` passes `bid` as the offset of `io_uring_buf_ring_add` and
   advances the tail by one. Unless `bid` is 0 the slot that becomes visible is
   not the one written: it still names an older buffer, which the kernel can
   then use twice, and the buffer put back sits in a slot of some other
   position. `bufring_init` can pass `i` because it advances once, after the loop
   (lines 37-43).
2. `appctx.c:148` logs `Packet from %s` with the global `fmt_addr`, which only the
   accept handler sets: it names the connection accepted last.
3. `logging.c:22-23`: `getpeername` returns -1, so `ASSERT_POSITIVE(-err)` passes on
   failure, and the uninitialized `sender` is formatted. (The same form is right
   in `appctx.c:20-22`, where `posix_memalign` returns a positive error.)

Noted while modelling, without a run of their own:

- `appctx.c:151`, as in 1: the entry written is as a rule one the kernel can see
  already, and it is written with three plain stores. Between two of them the
  kernel's thread can take the address of one buffer with the id of another.
  `RingMemory` has these steps; `EntriesWhole` is stated for the time between handlers.
- `appctx.c:148` logs `len:` with `msglen`, which counts the 16 bytes of
  `struct io_uring_recvmsg_out` ahead of the content.
- `userdata.c:4` takes a `uint16_t fd` though the union stores 32 bits (`userdata.h:8`):
  descriptors of 65536 or more come back as others. `FdsFit` excludes them.
- `main.rs:48` unwraps `from_utf8` of whatever one read returned. That may end inside a
  character: after 256 bytes, or earlier when standard input is a pipe that delivered
  part of one. The program then panics on text that is valid as a whole.
- `build.rs:65` watches `bufring.h`, which does not exist; cargo takes it for changed
  and runs the script on every build. Without that, edits of a `.c` file
  would go unnoticed, for no other line names them (this is the mutant of
  `BuiltFromCurrentFiles`).

## 6. Proofs

All proofs are for arbitrary values of the constants under the assumptions
named in the modules: positive sizes, `NULL` is no index, descriptors are naturals,
the listening socket's is no connection's, the pool is no larger than what the
descriptor field counts (`ServerAssumption`; 16 against 2^16), and pool and queue have
room for the greetings (4 against 16).

- `BufPoolProofs!TypeCorrect`, `FreelistCorrect`, `PoolLends`. `FreelistHoldsTheRest`
  is inductive together with the types: it says that some enumeration of the
  free nodes is the list. A pop takes the first of the enumeration away and a
  put adds one in front, and the size of the set of free nodes changes by one,
  which is the only use of finiteness. The promise follows: an empty list
  means that no buffer is free, and the head is one that nobody has (its `out` is 0), so each pop
  is a `Lend` or a `Refuse` and each put a `Return`.
- `BufPoolProofs!ListIsAStack`. A sequence is what the list spells when it follows the
  `next` fields through every free node (`Spells`). `bufpool_init` spells the sequence that
  `Server` starts `free` with, a pop leaves the tail of what was spelled and hands out its head
  (`PopSpells`), a put leaves it behind the new node (`PutSpells`), and only the empty
  sequence makes `bufpool_pop` return NULL. So `Server` may keep a sequence instead of the nodes.
  `FreelistCorrect` rests on the same two lemmas.
- `BufRingProofs!SlotsAlwaysAccountedFor`, `LostForGood`. That `avail` stays within the
  ring is not inductive alone; with the count of unhandled completions it is.
- `ServerProofs!TypeCorrect`. Three parts (`ProgramOK`, `QueuesOK`, `RequestsOK`), action
  by action. It includes that `Len(sq)` never exceeds the queue and the visible
  completions never exceed theirs.
- `ServerProofs!BuffersConserved`. `PoolConserved` is inductive because it says two
  things at once: that the four places (freelist, queue, kernel, completions
  to be handled) partition the buffers, and that none of the three sequences
  mentions a buffer twice. Without the second, taking an element from a
  sequence would not take its buffer from the place. `EncodeBid`, that the user data gives back
  the buffer, is where the size of the pool matters.
- `ServerProofs!ServerLends`. By `PoolConserved`, what is not in the freelist is in flight and the
  other way round, so the head of the list is a buffer that can be lent and the loop puts back one
  that is not in the list. Each action is summarised by what it does to the lines on their way
  (`NoLoan`, `Loan`; `StepLends`). So the server is the caller that `BufPool` assumes (`bid \in held`).
- `ServerProofs!DeathHasACause`. When no entry is free the handler has queued at most one itself,
  and before its dispatch all were published (`NothingStranded`); SQPOLL is behind by the rest.
  A failure of an accept that waits to be handled was posted when no descriptor was left, and
  the program closes none (`FailsWhenFull`, `FullStaysFull`). A signal ends the wait only with nothing
  in the ring, and `NothingStranded` adds that then nothing is in overflow.
- `ServerProofs!NothingStranded`. Inductive with the types: if the ring is
  empty and nothing is in overflow, the next completion fits.
- `ServerProofs!NoConnectionForgotten`. A connection is read when its receive is armed, queued, or about
  to be queued by the handler of its accept (`Read`). The proof follows the two queues:
  no step but the handling of its first element takes anything from either
  (`HasAppend`, `HasTail`), the handlers keep what is queued (`ProgramQueues`) and
  the handler of an accept queues the receive before the completion is released
  (`ProgramHandles`), and SQPOLL arms what it takes (`FetchReads`). What is left is the kernel's own
  steps, of which exactly three end a receive (`KernelReads`). It needs no invariant beyond
  `TypeOK` and `PoolConserved`, and no assumption about room: the overflow is one of the three.
- `ServerProofs!KeepsListening`: `Spec => StaysListening`, along the same way and with the same lemmas
  about the program (`ProgramListens`, `FetchListens`, `KernelListens`). The handler of a failed accept
  does not return, so the completion that is dropped is never the one that listens. Nothing is assumed
  about room: an accepted connection that finds none is the one exception the property
  names, and the code does nothing to prevent it.
- `ServerProofs!ReceiveSlotsConserved`, `ServerAnswers`. They say how many elements of the two
  queues are of some kind, so the module proves how such a count (`Count`, the
  cardinality of the places) changes with `Append`, by adding one place, and with
  `Tail`, by shifting all places through a bijection. Every step of the server is then
  summarised by what it does to the counts: nothing (`Quiet`), a message is taken and
  its answer queued (`Answering`), input arrives (`Receiving`), the kernel takes an answer
  (`TakingAnswer`) or finishes it (`Sent`). `RingConserved` follows. `OwedSteps` says what each
  does to what is owed; `InputTied`, `AnswerTied` and `StepTied` that it grows and falls in the
  kernel's steps that `HelloSpec` names and in no other. That the answer goes to a connection the
  abstract service knows needs the strengthening `AcceptedOnly` (`RequestsAccepted`): all
  entries, requests and completions name accepted connections. `HelloSpec` counts what is owed by the
  descriptors in completions and ties them to the connections the input came from, which
  needs `FdsFit`, descriptors below 2^16, as of `userdata.c:4`.
- `BufRingProofs!RingTypes`: slots, ids and counters, for any size.
- `RingMemoryProofs!MemoryTypes`, `AddressesFit`, `BytesMakeARing`: for any number of entries
  and any counters that wrap after a whole number of turns (`RingAssumption`). The module
  first proves what remainders do, from the uniqueness of division, then where the offsets
  of `Bindings` put each field: `FieldsApart` and `FieldPlaced` (no field runs into another,
  into the tail or out of the allocation), hence `FieldStored` and `TailStored` (a store changes
  what it stores and nothing else that is loaded). The invariant `RingInv` follows the stores: how
  far `bufring_init` has come (`Filling`), that every entry names some buffer and is either in
  the kernel's view or stands for a message (`Running`), and that while an entry is being
  written it is the only one whose address and id may differ (`Adding`). What the kernel
  has received need not be whole: it may look between two stores. `BytesMakeARing`
  maps each step to `BufRing`: the store of the id is `Repost`, the kernel's look is
  `KernelReceive` (`HeadIsHead`: the entry at its wide counter is the head slot), and all
  others, the tail store of `io_uring_buf_ring_advance` included, are stutters.
- `RingMemoryProofs!RingTheoremsInMemory`. `BufRingProofs` is instantiated with the same mapping as
  `RingSpec`, so what it proves of the slots holds of the bytes.
- `LogLineProofs!NothingOldLogged`, `ShortLinesLogged`: for any buffer, payload and part lengths.
  The invariant `LogInv` says what the receive buffer holds at the place of the message
  (`Arrived`) and the registered buffer up to the length given to the write (`Queued`); the
  rest of both may be anything. The lemmas say what `Over`, `Truncated` and `Printable` do to a
  sequence; that `Printable` stops at the first terminator needs that a set of
  naturals has a least element (`MinIsLeast`).
- `RexeReaderProofs!PrintsTheInput`: for any size of buffer and any input. In `ReaderInv` the completed
  read is a prefix of the input, and the program holds the completion only once the read is done.
- `ServerProofs!RoundTrip`: encode then decode is the low 16 bits, for any descriptor,
  opcode and padding. The proofs about the server rest on it wherever a completion is posted.
- `LayoutProofs!ConsistentIsRight`, `BindingsAgree`, `BindingsViewsFit`. The first separates what is true of any
  declaration from what has to be looked up. `Promised(t, o)` says, without rounding
  anything, that in the offsets `o` every field is the first aligned one behind its predecessor,
  that the size is the first multiple of the strictest alignment that holds
  them, and that the assertions of `t` say the same. `RoundUpIsFirst` shows that rustc's rounding picks that
  offset; the invariant `Follows` then carries `o` along the fields, and is inductive
  because the offsets placed so far determine `end` and `widest` (`CourseKept`). What is left is a
  fact about each of the 70 types, that its numbers are promised by some `o`, with no layout
  algorithm in it (`DeclaredConsistent`). The other two combine both, for any set of
  declared types, of which the run takes all.
- `BuildProofs!BuildTypes`, `SuccessIsCurrent`: for any edited files. The typing
  carries what each step may count on. The argument rests on `NeverFresh`: since a
  watched file does not exist, the script runs in every build.

`RingInv`, `LogInv` and `ReaderInv` were checked with TLC on the bounds of
their runs before they were proved.

Only model checked: the liveness properties `LogBuffersReturn` and `InputEndsProgram` and the
liveness half of `InputAnswered` (its action half follows from `HelloSpec`), whose fairness and ENABLED are beyond the prover. Every safety and
action property of a passing run is a theorem. `ListIsAStack` and
`RingTheoremsInMemory` are theorems that no run checks: they relate models to each other.

## 7. Not modelled

- Start-up before the accept is queued: its asserts end the process before it has
  state. Ring 1, which is set up and never used.
- The wording of log lines, levels, colours and the text of the time stamp (their
  lengths are in `LogLine`). A second address family, and partial sends: the result of
  a send is ignored.
- Memory is never released by the program (`appctx_deinit` is a TODO,
  `appctx.h:56-57`), nor are descriptors: the model has no release either.
- `bindings.rs`: the integer constants, the `Default` impls and the extern functions are
  declarations without behaviour; `statx`, `epoll_event` and `futex_waitv` are named there
  for calls nobody makes.
- `build.rs`: a run of make is one step, and clean targets are left out.
- `errors.h`: older copies of the macros of `logging.h`, which no file includes but
  `wrapper.h`.
