------------------------------ MODULE BufPool ------------------------------
(***************************************************************************)
(* The pool of registered buffers (struct bufpool_t, clib/appctx.c): an    *)
(* array of list nodes, freelist_mem, threaded through their next fields   *)
(* into the list of free buffers.  A node pointer freelist_mem + i is      *)
(* modelled by its index i, which is also the node's bid.                  *)
(***************************************************************************)
EXTENDS Integers, FiniteSets

CONSTANTS
  Entries,            \* number of buffers (16 in cexe/main.c:68)
  NULL                \* the null pointer

Bids == 0..(Entries - 1)

ASSUME EntriesAssumption == Entries \in Nat \ {0}
ASSUME NullAssumption == NULL \notin Bids

VARIABLES
  freelist_head,      \* first free node, or NULL
  next,               \* next field of each node of freelist_mem
  out,                \* how many callers popped a bid and have not put it back
  regbuf              \* what the latest bufpool_pop returned to its caller

vars == <<freelist_head, next, out, regbuf>>

\* The buffers that callers have.
held == {bid \in Bids : out[bid] > 0}

-----------------------------------------------------------------------------
\* bufpool_init links node i to node i-1 and makes the last one the head.
\* The caller's regbuf is not set yet: it holds some buffer, not a refusal.
Init ==
  /\ freelist_head = Entries - 1
  /\ next = [i \in Bids |-> IF i = 0 THEN NULL ELSE i - 1]
  /\ out = [bid \in Bids |-> 0]
  /\ regbuf \in Bids

\* bufpool_pop on an empty list returns NULL and changes nothing.
PopEmpty ==
  /\ freelist_head = NULL
  /\ regbuf' = NULL
  /\ UNCHANGED <<freelist_head, next, out>>

\* A faulty bufpool_pop that returns the head and leaves it in the list.
PopKeepsHead ==
  /\ freelist_head # NULL
  /\ regbuf' = freelist_head
  /\ out' = [out EXCEPT ![freelist_head] = @ + 1]
  /\ UNCHANGED <<freelist_head, next>>

\* bufpool_pop on a non-empty list unlinks the head and returns it; the
\* next field of the node it hands out keeps its old value.
PopHead ==
  /\ freelist_head # NULL
  /\ freelist_head' = next[freelist_head]
  /\ regbuf' = freelist_head
  /\ out' = [out EXCEPT ![freelist_head] = @ + 1]
  /\ UNCHANGED next

\* A faulty bufpool_put that sets the head before it saves the old one, so
\* that the node it pushes points to itself.
PutLinksToItself(bid) ==
  /\ bid \in held
  /\ next' = [next EXCEPT ![bid] = bid]
  /\ freelist_head' = bid
  /\ out' = [out EXCEPT ![bid] = @ - 1]
  /\ UNCHANGED regbuf

\* A faulty bufpool_put that takes the node after the one of the given bid.
PutNextNode(bid) ==
  /\ bid \in held
  /\ next' = [next EXCEPT ![bid + 1] = freelist_head]
  /\ freelist_head' = bid + 1
  /\ out' = [out EXCEPT ![bid] = @ - 1]
  /\ UNCHANGED regbuf

\* bufpool_put pushes the node of the given bid.  The event loop calls it
\* with the bid of a completed write (cexe/main.c:30-34), which is one that
\* was popped and not put back: module Server shows that.
Put(bid) ==
  /\ bid \in held
  /\ next' = [next EXCEPT ![bid] = freelist_head]
  /\ freelist_head' = bid
  /\ out' = [out EXCEPT ![bid] = @ - 1]
  /\ UNCHANGED regbuf

Next ==
  \/ PopEmpty
  \/ PopHead
  \/ \E bid \in Bids : Put(bid)

Spec == Init /\ [][Next]_vars

-----------------------------------------------------------------------------
\* The variables have the values their C types and uses allow.
TypeOK ==
  /\ freelist_head \in Bids \cup {NULL}
  /\ next \in [Bids -> Bids \cup {NULL}]
  /\ out \in [Bids -> Nat]
  /\ regbuf \in Bids \cup {NULL}

Free == Bids \ held

\* s lists the free nodes in list order: it starts at the head, follows the
\* next fields, ends with NULL and visits every free node exactly once.
IsFreelist(s, n) ==
  /\ freelist_head = IF n = 0 THEN NULL ELSE s[1]
  /\ \A i \in 1..n : next[s[i]] = IF i = n THEN NULL ELSE s[i + 1]
  /\ \A i, j \in 1..n : s[i] = s[j] => i = j
  /\ \A b \in Free : \E i \in 1..n : s[i] = b

\* The list that starts at freelist_head is finite, without a cycle, and
\* holds exactly the buffers that no caller holds, although popped nodes
\* keep stale next fields (bufpool_pop and bufpool_put, appctx.c:80-93).
FreelistHoldsTheRest ==
  LET n == Cardinality(Free)
  IN  \E s \in [1..n -> Free] : IsFreelist(s, n)

\* The linked list implements the pool's promise.
Lending == INSTANCE BufferLending WITH
  Buffers <- Bids, lent <- held, refused <- (regbuf = NULL)

\* Step by step: a bufpool_pop that returns a buffer lends that one, which
\* nobody had, and from then on it is out; one that returns NULL refuses with
\* every buffer out; a bufpool_put takes back one buffer that was out, and
\* nobody has it then (appctx.c:80-93).  A buffer lent twice would leave held
\* as it is, so the promise is asked of each step and not of held alone.
LendsOnce ==
  /\ Lending!Spec
  /\ [][/\ PopHead => Lending!Lend(regbuf')
        /\ PopEmpty => Lending!Refuse
        /\ \A bid \in Bids : Put(bid) => Lending!Return(bid)]_vars
=============================================================================
