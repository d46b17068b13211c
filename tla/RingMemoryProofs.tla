-------------------------- MODULE RingMemoryProofs --------------------------
(***************************************************************************)
(* Proofs about the bytes of the receive buffer ring, for any number of    *)
(* entries and any width of the counters: the memory is in its bounds,     *)
(* entries hold an address and an id that belong together, and whatever    *)
(* the order of the stores the kernel sees the ring of slots of BufRing.   *)
(***************************************************************************)
EXTENDS RingMemory, SequenceTheorems, TLAPS

\* Remainders: Z3 knows the division with a remainder, the rest follows from
\* that there is only one.
LEMMA DivMod ==
  ASSUME NEW a \in Int, NEW m \in Nat \ {0}
  PROVE  /\ a % m \in 0..(m - 1)
         /\ a \div m \in Int
         /\ a = (a \div m) * m + (a % m)
  OBVIOUS

LEMMA DivUnique ==
  ASSUME NEW m \in Nat \ {0}, NEW p \in Int, NEW q \in Int,
         NEW r \in 0..(m - 1), NEW s \in 0..(m - 1), p * m + r = q * m + s
  PROVE  r = s
<1>. DEFINE d == p - q
<1>1. d \in Int /\ d * m = s - r
  OBVIOUS
<1>. HIDE DEF d
<1>2. CASE d = 0
  BY <1>1, <1>2
<1>3. CASE d >= 1
  <2>1. d * m >= m
    BY <1>1, <1>3
  <2>2. QED
    BY <1>1, <2>1
<1>4. CASE d <= -1
  <2>1. d * m <= -m
    BY <1>1, <1>4
  <2>2. QED
    BY <1>1, <2>1
<1>5. QED
  BY <1>1, <1>2, <1>3, <1>4

LEMMA ModIs ==
  ASSUME NEW m \in Nat \ {0}, NEW a \in Int, NEW q \in Int,
         NEW r \in 0..(m - 1), a = q * m + r
  PROVE  a % m = r
  BY DivUnique, DivMod

LEMMA SmallMod ==
  ASSUME NEW m \in Nat \ {0}, NEW r \in 0..(m - 1)
  PROVE  r % m = r
<1>1. 0 \in Int /\ r \in Int /\ r = 0 * m + r
  OBVIOUS
<1>2. QED
  BY <1>1, ModIs

\* Whole turns do not count.
LEMMA ModShift ==
  ASSUME NEW m \in Nat \ {0}, NEW a \in Int, NEW z \in Int
  PROVE  (a + z * m) % m = a % m
<1>. DEFINE q == a \div m
            r == a % m
<1>1. r \in 0..(m - 1) /\ q \in Int /\ a = q * m + r
  BY DivMod
<1>. HIDE DEF q, r
<1>2. q + z \in Int /\ a + z * m = (q + z) * m + r /\ a + z * m \in Int
  BY <1>1
<1>3. QED
  BY <1>1, <1>2, ModIs DEF r

\* A remainder may be taken before adding.
LEMMA ModSum ==
  ASSUME NEW m \in Nat \ {0}, NEW a \in Int, NEW b \in Int
  PROVE  ((a % m) + b) % m = (a + b) % m
<1>1. a % m \in Int /\ a \div m \in Int /\ a = (a \div m) * m + (a % m)
  BY DivMod
<1>. DEFINE r == a % m
            z == a \div m
<1>. HIDE DEF r, z
<1>2. r \in Int /\ z \in Int /\ a = z * m + r
  BY <1>1 DEF r, z
<1>. DEFINE s == r + b
<1>3. a + b = s + z * m /\ s \in Int
  BY <1>2
<1>. HIDE DEF s
<1>4. (s + z * m) % m = s % m
  BY <1>2, <1>3, ModShift
<1>5. (a + b) % m = s % m
  BY <1>3, <1>4
<1>6. QED
  BY <1>5 DEF s, r

\* The counters wrap after a whole number of turns of the ring.
LEMMA Wraps ==
  /\ Entries \in Nat \ {0}
  /\ CounterMod \in Nat \ {0}
  /\ CounterMod >= 2 * Entries
  /\ \E c \in Int : CounterMod = c * Entries
<1>1. Entries \in Nat \ {0} /\ CounterMod \in Nat \ {0} /\ CounterMod > Entries
  BY RingAssumption
<1>2. PICK c \in Int : CounterMod = c * Entries
  <2>1. CounterMod \div Entries \in Int
        /\ CounterMod = (CounterMod \div Entries) * Entries + 0
    BY <1>1, DivMod, RingAssumption
  <2>2. QED
    BY <2>1, <1>1
<1>3. CounterMod >= 2 * Entries
  <2>1. c >= 2
    <3>1. CASE c <= 1
      <4>1. c * Entries <= Entries
        BY <1>1, <1>2, <3>1
      <4>2. QED
        BY <1>1, <1>2, <4>1
    <3>2. QED
      BY <1>2, <3>1
  <2>2. c * Entries >= 2 * Entries
    BY <1>1, <1>2, <2>1
  <2>3. QED
    BY <1>2, <2>2
<1>4. QED
  BY <1>1, <1>2, <1>3

LEMMA ModMod ==
  ASSUME NEW a \in Int
  PROVE  (a % CounterMod) % Entries = a % Entries
<1>1. PICK c \in Int : CounterMod = c * Entries
  BY Wraps
<1>. DEFINE r == a % CounterMod
            q == a \div CounterMod
            z == q * c
<1>2. CounterMod \in Nat \ {0} /\ Entries \in Nat \ {0}
  BY Wraps
<1>3. r \in Int /\ q \in Int /\ a = q * CounterMod + r
  BY <1>2, DivMod
<1>. HIDE DEF r, q
<1>4. z \in Int /\ a = r + z * Entries
  BY <1>1, <1>2, <1>3
<1>. HIDE DEF z
<1>5. (r + z * Entries) % Entries = r % Entries
  BY <1>2, <1>3, <1>4, ModShift
<1>6. QED
  BY <1>4, <1>5 DEF r

\* The distance from one counter to another.
LEMMA Distance ==
  ASSUME NEW t \in 0..(CounterMod - 1), NEW h \in 0..(CounterMod - 1)
  PROVE  (t - h) % CounterMod = IF t >= h THEN t - h ELSE t - h + CounterMod
<1>0. CounterMod \in Nat \ {0}
  BY Wraps
<1>1. CASE t >= h
  <2>1. t - h \in 0..(CounterMod - 1) /\ t - h = 0 * CounterMod + (t - h)
        /\ t - h \in Int
    BY <1>0, <1>1
  <2>2. QED
    BY <1>0, <1>1, <2>1, ModIs
<1>2. CASE t < h
  <2>1. t - h + CounterMod \in 0..(CounterMod - 1) /\ t - h \in Int
        /\ t - h = (-1) * CounterMod + (t - h + CounterMod)
    BY <1>0, <1>2
  <2>2. (t - h) % CounterMod = t - h + CounterMod
    BY <1>0, <2>1, ModIs
  <2>3. QED
    BY <1>0, <1>2, <2>2
<1>3. QED
  BY <1>0, <1>1, <1>2

\* The next value of a counter.
LEMMA NextCount ==
  ASSUME NEW t \in 0..(CounterMod - 1)
  PROVE  (t + 1) % CounterMod = IF t = CounterMod - 1 THEN 0 ELSE t + 1
<1>0. CounterMod \in Nat \ {0} /\ t + 1 \in Int
  BY Wraps
<1>1. CASE t = CounterMod - 1
  <2>1. 0 \in 0..(CounterMod - 1) /\ t + 1 = 1 * CounterMod + 0
    BY <1>0, <1>1
  <2>2. QED
    BY <1>0, <1>1, <2>1, ModIs
<1>2. CASE t # CounterMod - 1
  <2>1. t + 1 \in 0..(CounterMod - 1) /\ t + 1 = 0 * CounterMod + (t + 1)
    BY <1>0, <1>2
  <2>2. QED
    BY <1>0, <1>2, <2>1, ModIs
<1>3. QED
  BY <1>1, <1>2

\* One entry fewer for the kernel, and one more.
LEMMA AvailDown ==
  ASSUME NEW t \in 0..(CounterMod - 1), NEW h \in 0..(CounterMod - 1),
         (t - h) % CounterMod > 0
  PROVE  /\ (h + 1) % CounterMod \in 0..(CounterMod - 1)
         /\ (t - ((h + 1) % CounterMod)) % CounterMod = ((t - h) % CounterMod) - 1
<1>. DEFINE g == (h + 1) % CounterMod
<1>1. g = IF h = CounterMod - 1 THEN 0 ELSE h + 1
  BY NextCount
<1>2. CounterMod \in Nat \ {0}
  BY Wraps
<1>3. g \in 0..(CounterMod - 1)
  BY <1>1, <1>2
<1>4. (t - h) % CounterMod = IF t >= h THEN t - h ELSE t - h + CounterMod
  BY Distance
<1>. HIDE DEF g
<1>5. (t - g) % CounterMod = IF t >= g THEN t - g ELSE t - g + CounterMod
  BY <1>3, Distance
<1>6. (t - g) % CounterMod = ((t - h) % CounterMod) - 1
  BY <1>1, <1>2, <1>4, <1>5
<1>7. QED
  BY <1>3, <1>6 DEF g

LEMMA AvailUp ==
  ASSUME NEW t \in 0..(CounterMod - 1), NEW h \in 0..(CounterMod - 1),
         (t - h) % CounterMod < CounterMod - 1
  PROVE  /\ (t + 1) % CounterMod \in 0..(CounterMod - 1)
         /\ (((t + 1) % CounterMod) - h) % CounterMod = ((t - h) % CounterMod) + 1
<1>. DEFINE u == (t + 1) % CounterMod
<1>1. u = IF t = CounterMod - 1 THEN 0 ELSE t + 1
  BY NextCount
<1>2. CounterMod \in Nat \ {0}
  BY Wraps
<1>3. u \in 0..(CounterMod - 1)
  BY <1>1, <1>2
<1>4. (t - h) % CounterMod = IF t >= h THEN t - h ELSE t - h + CounterMod
  BY Distance
<1>. HIDE DEF u
<1>5. (u - h) % CounterMod = IF u >= h THEN u - h ELSE u - h + CounterMod
  BY <1>3, Distance
<1>6. (u - h) % CounterMod = ((t - h) % CounterMod) + 1
  BY <1>1, <1>2, <1>4, <1>5
<1>7. QED
  BY <1>3, <1>6 DEF u

-----------------------------------------------------------------------------
\* Where the declarations of bindings.rs put the fields and the tail.
LEMMA Places ==
  /\ io_uring_buf.size = 16
  /\ EntryField["addr"].at = 0 /\ EntryField["addr"].size = 8
  /\ EntryField["len"].at = 8 /\ EntryField["len"].size = 4
  /\ EntryField["bid"].at = 12 /\ EntryField["bid"].size = 2
  /\ Tail16.at = 14 /\ Tail16.size = 2
  /\ Allocated = Entries * 16
  BY DEF EntryField, Tail16, Allocated, io_uring_buf, io_uring_buf_ring,
         io_uring_buf_ring__bindgen_ty_1__bindgen_ty_1,
         Struct, Declared, F, u64, u32, u16, Scalar

Span(at, size) == at..(at + size - 1)
Apart(a, n, b, m) == a + n <= b \/ b + m <= a

\* What a store across some bytes leaves in them, and in others.
LEMMA LoadStored ==
  ASSUME NEW at \in Nat, NEW size \in Nat \ {0}, NEW value,
         mem' = Store(mem, at, size, value)
  PROVE  Load(at, size)' = value
<1>1. at \in Span(at, size)
  BY DEF Span
<1>2. \A b \in Span(at, size) : mem'[b] = value
  BY DEF Store, Span
<1>3. QED
  BY <1>1, <1>2 DEF Load, Span

LEMMA LoadApart ==
  ASSUME NEW at \in Nat, NEW size \in Nat \ {0}, NEW value,
         NEW a \in Nat, NEW n \in Nat \ {0},
         mem' = Store(mem, at, size, value),
         Span(a, n) \subseteq DOMAIN mem, Apart(a, n, at, size)
  PROVE  Load(a, n)' = Load(a, n)
<1>1. a \in Span(a, n)
  BY DEF Span
<1>2. \A b \in Span(a, n) : b \notin Span(at, size)
  BY DEF Span, Apart
<1>3. \A b \in Span(a, n) : mem'[b] = mem[b]
  BY <1>2 DEF Store, Span
<1>4. QED
  BY <1>1, <1>3 DEF Load, Span

Values == {Indeterminate, EntryLen} \cup Bids \cup 0..(CounterMod - 1)
Memory == [0..(Allocated - 1) -> Values]

LEMMA StoreInBounds ==
  ASSUME NEW at \in Nat, NEW size \in Nat, NEW value \in Values,
         mem \in Memory, mem' = Store(mem, at, size, value),
         at + size <= Allocated
  PROVE  mem' \in Memory
<1>1. Allocated \in Nat
  BY Places, Wraps
<1>2. Span(at, size) \subseteq 0..(Allocated - 1)
  BY <1>1 DEF Span
<1>3. QED
  BY <1>2 DEF Memory, Store, Span

-----------------------------------------------------------------------------
\* No field of an entry runs into another, into the tail, or out of the
\* memory.
LEMMA FieldPlaced ==
  ASSUME NEW k \in Slots, NEW f \in AddedFields
  PROVE  /\ FieldAt(k, f) \in Nat
         /\ EntryField[f].size \in Nat \ {0}
         /\ FieldAt(k, f) + EntryField[f].size <= Allocated
         /\ Span(FieldAt(k, f), EntryField[f].size) \subseteq 0..(Allocated - 1)
         /\ Apart(FieldAt(k, f), EntryField[f].size, Tail16.at, Tail16.size)
         /\ Apart(Tail16.at, Tail16.size, FieldAt(k, f), EntryField[f].size)
<1>1. k \in Nat /\ k + 1 <= Entries /\ Entries \in Nat
  BY Wraps DEF Slots
<1>2. FieldAt(k, f) = k * 16 + EntryField[f].at
  BY Places DEF FieldAt
<1>3. \/ EntryField[f].at = 0 /\ EntryField[f].size = 8
      \/ EntryField[f].at = 8 /\ EntryField[f].size = 4
      \/ EntryField[f].at = 12 /\ EntryField[f].size = 2
  BY Places DEF AddedFields
<1>4. QED
  BY <1>1, <1>2, <1>3, Places DEF Span, Apart

LEMMA FieldsApart ==
  ASSUME NEW k \in Slots, NEW f \in AddedFields,
         NEW l \in Slots, NEW g \in AddedFields, l # k \/ g # f
  PROVE  Apart(FieldAt(l, g), EntryField[g].size, FieldAt(k, f), EntryField[f].size)
<1>1. k \in Nat /\ l \in Nat
  BY DEF Slots
<1>2. FieldAt(k, f) = k * 16 + EntryField[f].at /\ FieldAt(l, g) = l * 16 + EntryField[g].at
  BY Places DEF FieldAt
<1>3. CASE l # k
  <2>1. EntryField[f].at \in Nat /\ EntryField[f].size \in Nat
        /\ EntryField[f].at + EntryField[f].size <= 16
    BY Places DEF AddedFields
  <2>2. EntryField[g].at \in Nat /\ EntryField[g].size \in Nat
        /\ EntryField[g].at + EntryField[g].size <= 16
    BY Places DEF AddedFields
  <2>3. QED
    BY <1>1, <1>2, <1>3, <2>1, <2>2 DEF Apart
<1>4. CASE l = k /\ g # f
  <2>1. Apart(EntryField[g].at, EntryField[g].size, EntryField[f].at, EntryField[f].size)
    BY <1>4, Places DEF AddedFields, Apart
  <2>2. EntryField[f].at \in Nat /\ EntryField[f].size \in Nat
        /\ EntryField[g].at \in Nat /\ EntryField[g].size \in Nat
    BY Places DEF AddedFields
  <2>3. QED
    BY <1>1, <1>2, <1>4, <2>1, <2>2 DEF Apart
<1>5. QED
  BY <1>3, <1>4

LEMMA TailPlaced ==
  /\ Tail16.at \in Nat /\ Tail16.size \in Nat \ {0}
  /\ Tail16.at + Tail16.size <= Allocated
  /\ Span(Tail16.at, Tail16.size) \subseteq 0..(Allocated - 1)
  BY Places, Wraps DEF Span

\* Storing a field changes that field and nothing else that is ever loaded.
LEMMA FieldStored ==
  ASSUME NEW k \in Slots, NEW f \in AddedFields, NEW value \in Values,
         mem \in Memory, mem' = Store(mem, FieldAt(k, f), EntryField[f].size, value)
  PROVE  /\ mem' \in Memory
         /\ ProgramTail' = ProgramTail
         /\ LoadField(k, f)' = value
         /\ \A l \in Slots : \A g \in AddedFields :
              l # k \/ g # f => LoadField(l, g)' = LoadField(l, g)
<1>0. DOMAIN mem = 0..(Allocated - 1)
  BY DEF Memory
<1>1. mem' \in Memory
  BY FieldPlaced, StoreInBounds
<1>2. ProgramTail' = ProgramTail
  BY <1>0, FieldPlaced, TailPlaced, LoadApart DEF ProgramTail
<1>3. LoadField(k, f)' = value
  BY FieldPlaced, LoadStored DEF LoadField
<1>4. ASSUME NEW l \in Slots, NEW g \in AddedFields, l # k \/ g # f
      PROVE  LoadField(l, g)' = LoadField(l, g)
  <2>1. Apart(FieldAt(l, g), EntryField[g].size, FieldAt(k, f), EntryField[f].size)
    BY <1>4, FieldsApart
  <2>2. /\ FieldAt(l, g) \in Nat /\ EntryField[g].size \in Nat \ {0}
        /\ FieldAt(k, f) \in Nat /\ EntryField[f].size \in Nat \ {0}
        /\ Span(FieldAt(l, g), EntryField[g].size) \subseteq DOMAIN mem
    BY <1>0, FieldPlaced
  <2>3. QED
    BY <2>1, <2>2, LoadApart DEF LoadField
<1>5. QED
  BY <1>1, <1>2, <1>3, <1>4

LEMMA TailStored ==
  ASSUME NEW value \in Int, mem \in Memory, mem' = StoreTail(mem, value)
  PROVE  /\ mem' \in Memory
         /\ ProgramTail' = value % CounterMod
         /\ \A l \in Slots : \A g \in AddedFields :
              LoadField(l, g)' = LoadField(l, g)
<1>0. DOMAIN mem = 0..(Allocated - 1)
  BY DEF Memory
<1>1. value % CounterMod \in Values
  BY DivMod, Wraps DEF Values
<1>2. mem' \in Memory
  BY <1>1, TailPlaced, StoreInBounds DEF StoreTail
<1>3. ProgramTail' = value % CounterMod
  BY TailPlaced, LoadStored DEF ProgramTail, StoreTail
<1>4. ASSUME NEW l \in Slots, NEW g \in AddedFields
      PROVE  LoadField(l, g)' = LoadField(l, g)
  <2>1. /\ FieldAt(l, g) \in Nat /\ EntryField[g].size \in Nat \ {0}
        /\ Span(FieldAt(l, g), EntryField[g].size) \subseteq DOMAIN mem
        /\ Apart(FieldAt(l, g), EntryField[g].size, Tail16.at, Tail16.size)
    BY <1>0, FieldPlaced
  <2>2. QED
    BY <2>1, TailPlaced, LoadApart DEF LoadField, StoreTail
<1>5. QED
  BY <1>2, <1>3, <1>4

-----------------------------------------------------------------------------
\* The inductive invariant.  The entry that is being written has no constraint
\* but for the fields stored already; the kernel may read it half written, so
\* what it received need not be whole.
Named == {"addr", "bid"}
SlotAdded == (ProgramTail + AddedBid) % Entries

Types ==
  /\ mem \in Memory
  /\ pc \in {"clear", "fill", "idle", "add"}
  /\ added \in 0..Entries
  /\ pending \subseteq AddedFields
  /\ pc # "clear" => ProgramTail \in 0..(CounterMod - 1)
  /\ head \in 0..(CounterMod - 1)
  /\ received \in Seq([addr : Bids, bid : Bids])

Clearing ==
  pc = "clear" => added = 0 /\ pending = {} /\ head = 0 /\ received = <<>>

\* While bufring_init fills the ring, buffer i is in entry i.
Filling ==
  pc = "fill" =>
    /\ ProgramTail = 0 /\ head = 0 /\ received = <<>>
    /\ pending # {} => added \in Slots
    /\ \A k \in Slots : \A f \in Named :
         \/ k < added
         \/ k = added /\ pending # {} /\ f \notin pending
         => LoadField(k, f) = k

\* From then on every entry names some buffer, and is in the kernel's view or
\* stands for a message to be handled.
Running ==
  Ready => /\ Avail + Len(received) = Entries
           /\ \A k \in Slots : \A f \in Named : LoadField(k, f) \in Bids

Idling ==
  pc = "idle" => pending = {} /\ EntriesWhole

Adding ==
  pc = "add" =>
    /\ received # <<>>
    /\ \A k \in Slots :
         IF k = SlotAdded
         THEN \A f \in Named \ pending : LoadField(k, f) = AddedBid
         ELSE LoadField(k, "addr") = LoadField(k, "bid")

RingInv == Types /\ Clearing /\ Filling /\ Running /\ Idling /\ Adding

LEMMA InitInv == Init => RingInv
<1>. SUFFICES ASSUME Init PROVE RingInv
  OBVIOUS
<1>1. mem \in Memory
  BY DEF Init, Memory, Values
<1>2. Entries \in Nat \ {0} /\ CounterMod \in Nat \ {0}
  BY Wraps
<1>3. Types
  BY <1>1, <1>2 DEF Init, Types
<1>4. QED
  BY <1>3 DEF Init, RingInv, Clearing, Filling, Running, Ready, Idling, Adding

\* A step that stores nothing.
LEMMA NothingStored ==
  ASSUME mem' = mem
  PROVE  /\ ProgramTail' = ProgramTail
         /\ \A l \in Slots : \A g \in AddedFields : LoadField(l, g)' = LoadField(l, g)
  BY DEF ProgramTail, LoadField, Load

\* What a field of an added entry is.
LEMMA ValueStored ==
  ASSUME NEW f \in AddedFields, NEW bid \in Bids
  PROVE  ValueOf(f, bid) \in Values /\ (f \in Named => ValueOf(f, bid) = bid)
  BY DEF AddedFields, ValueOf, Values, Named

LEMMA HeadAndTail ==
  ASSUME NEW S, NEW s \in Seq(S), s # <<>>
  PROVE  /\ Head(s) \in S
         /\ Tail(s) \in Seq(S)
         /\ Len(Tail(s)) = Len(s) - 1
         /\ Len(s) \in Nat \ {0}
  OBVIOUS

Message == [addr : Bids, bid : Bids]

LEMMA FirstReceived ==
  ASSUME Types, received # <<>>
  PROVE  /\ Head(received).bid \in Bids
         /\ Tail(received) \in Seq(Message)
         /\ Len(Tail(received)) = Len(received) - 1
         /\ Len(received) \in Nat \ {0}
<1>1. received \in Seq(Message)
  BY DEF Types, Message
<1>2. /\ Head(received) \in Message
      /\ Tail(received) \in Seq(Message)
      /\ Len(Tail(received)) = Len(received) - 1
      /\ Len(received) \in Nat \ {0}
  BY <1>1, HeadAndTail
<1>3. QED
  BY <1>2 DEF Message

LEMMA ClearInv ==
  ASSUME RingInv, Clear
  PROVE  RingInv'
<1>1. mem' = StoreTail(mem, 0) /\ mem \in Memory
  BY DEF RingInv, Types, Clear
<1>2. mem' \in Memory /\ ProgramTail' = 0 % CounterMod
  BY <1>1, TailStored
<1>3. CounterMod \in Nat \ {0} /\ Entries \in Nat \ {0}
  BY Wraps
<1>4. 0 % CounterMod = 0
  BY <1>3
<1>5. Types'
  BY <1>2, <1>3, <1>4 DEF RingInv, Types, Clear
<1>6. Filling'
  BY <1>2, <1>4 DEF RingInv, Clear, Clearing, Filling, Slots
<1>7. QED
  BY <1>5, <1>6 DEF RingInv, Clear, Clearing, Running, Ready, Idling, Adding

LEMMA FillNextInv ==
  ASSUME RingInv, FillNext
  PROVE  RingInv'
<1>1. /\ ProgramTail' = ProgramTail
      /\ \A l \in Slots : \A g \in AddedFields : LoadField(l, g)' = LoadField(l, g)
  BY NothingStored DEF FillNext
<1>2. Types'
  BY <1>1 DEF RingInv, Types, FillNext
<1>3. added \in Slots
  BY Wraps DEF RingInv, Types, FillNext, Slots
<1>4. Filling'
  BY <1>1, <1>3 DEF RingInv, FillNext, Filling, Named, AddedFields
<1>5. QED
  BY <1>2, <1>4 DEF RingInv, FillNext, Clearing, Running, Ready, Idling, Adding

\* The store of one field, in the entry it goes to.
LEMMA OneStored ==
  ASSUME Types, StoreNext, pc # "clear", AddedBid \in Bids
  PROVE  \E f \in pending : \E k \in Slots :
           /\ k = SlotAdded
           /\ pending' = pending \ {f}
           /\ mem' \in Memory /\ ProgramTail' = ProgramTail
           /\ f \in Named => LoadField(k, f)' = AddedBid
           /\ \A l \in Slots : \A g \in AddedFields :
                l # k \/ g # f => LoadField(l, g)' = LoadField(l, g)
<1>1. PICK f \in pending :
        /\ mem' = StoreField(mem, SlotAdded, f, AddedBid)
        /\ pending' = pending \ {f}
  BY DEF StoreNext, SlotAdded
<1>2. SlotAdded \in Slots
  <2>1. ProgramTail + AddedBid \in Int
    BY Wraps DEF Types, Bids
  <2>2. QED
    BY <2>1, DivMod, Wraps DEF SlotAdded, Slots
<1>3. PICK k \in Slots : k = SlotAdded
  BY <1>2
<1>4. f \in AddedFields /\ mem \in Memory
  BY DEF Types
<1>5. PICK value \in Values : value = ValueOf(f, AddedBid)
  BY <1>4, ValueStored
<1>6. mem' = Store(mem, FieldAt(k, f), EntryField[f].size, value)
  BY <1>1, <1>3, <1>5 DEF StoreField
<1>7. /\ mem' \in Memory /\ ProgramTail' = ProgramTail
      /\ LoadField(k, f)' = value
      /\ \A l \in Slots : \A g \in AddedFields :
           l # k \/ g # f => LoadField(l, g)' = LoadField(l, g)
  BY <1>4, <1>6, FieldStored
<1>8. f \in Named => value = AddedBid
  BY <1>4, <1>5, ValueStored
<1>9. QED
  BY <1>1, <1>3, <1>7, <1>8

LEMMA StoreInFillInv ==
  ASSUME RingInv, StoreNext, pc = "fill"
  PROVE  RingInv'
<1>1. Types /\ Filling /\ AddedBid = added /\ pending # {}
  BY DEF RingInv, StoreNext, AddedBid
<1>2. added \in Slots /\ added \in Bids /\ added \in Nat /\ ProgramTail = 0
  BY <1>1 DEF Filling, Slots, Bids
<1>3. SlotAdded = added
  <2>1. added % Entries = added /\ 0 + added = added
    BY <1>2, SmallMod, Wraps DEF Slots
  <2>2. QED
    BY <1>1, <1>2, <2>1 DEF SlotAdded
<1>4. PICK f \in pending : \E k \in Slots :
           /\ k = SlotAdded
           /\ pending' = pending \ {f}
           /\ mem' \in Memory /\ ProgramTail' = ProgramTail
           /\ f \in Named => LoadField(k, f)' = AddedBid
           /\ \A l \in Slots : \A g \in AddedFields :
                l # k \/ g # f => LoadField(l, g)' = LoadField(l, g)
  BY <1>1, <1>2, OneStored
<1>5. PICK k \in Slots :
           /\ k = added
           /\ pending' = pending \ {f}
           /\ mem' \in Memory /\ ProgramTail' = ProgramTail
           /\ f \in Named => LoadField(k, f)' = k
           /\ \A l \in Slots : \A g \in AddedFields :
                l # k \/ g # f => LoadField(l, g)' = LoadField(l, g)
  BY <1>1, <1>3, <1>4
<1>6. pc' = "fill" /\ head' = head /\ received' = received
      /\ added' = IF pending' = {} THEN added + 1 ELSE added
  BY DEF StoreNext
<1>7. added' \in 0..Entries
  BY <1>2, <1>6, Wraps DEF Slots
<1>8. Types'
  BY <1>1, <1>5, <1>6, <1>7 DEF Types
<1>9. Filling'
  <2>1. ASSUME NEW l \in Slots, NEW g \in Named,
               \/ l < added'
               \/ l = added' /\ pending' # {} /\ g \notin pending'
        PROVE  LoadField(l, g)' = l
    <3>0. g \in AddedFields /\ l \in Nat
      BY DEF Named, AddedFields, Slots
    <3>1. CASE l = k /\ g = f
      BY <1>5, <3>1, <2>1
    <3>2. CASE l = k /\ g # f
      <4>1. g \notin pending
        BY <1>2, <1>5, <1>6, <3>2, <2>1
      <4>2. LoadField(l, g) = l
        BY <1>1, <1>5, <3>2, <4>1 DEF Filling, RingInv
      <4>3. QED
        BY <1>5, <3>0, <3>2, <4>2
    <3>3. CASE l # k
      <4>1. l < added
        BY <1>2, <1>5, <1>6, <3>0, <3>3, <2>1
      <4>2. LoadField(l, g) = l
        BY <1>1, <4>1 DEF Filling
      <4>3. QED
        BY <1>5, <3>0, <3>3, <4>2
    <3>4. QED
      BY <3>1, <3>2, <3>3
  <2>2. pending' # {} => added' \in Slots
    BY <1>2, <1>6
  <2>3. ProgramTail' = 0 /\ head' = 0 /\ received' = <<>>
    BY <1>1, <1>2, <1>5, <1>6 DEF Filling
  <2>4. QED
    BY <2>1, <2>2, <2>3 DEF Filling
<1>10. QED
  BY <1>6, <1>8, <1>9 DEF RingInv, Clearing, Running, Ready, Idling, Adding

LEMMA StoreInAddInv ==
  ASSUME RingInv, StoreNext, pc = "add"
  PROVE  RingInv'
<1>1. Types /\ Running /\ Adding /\ Ready
  BY DEF RingInv, Ready
<1>2. received # <<>> /\ AddedBid = Head(received).bid /\ AddedBid \in Bids
  BY <1>1, FirstReceived DEF Adding, AddedBid
<1>3. PICK f \in pending : \E k \in Slots :
           /\ k = SlotAdded
           /\ pending' = pending \ {f}
           /\ mem' \in Memory /\ ProgramTail' = ProgramTail
           /\ f \in Named => LoadField(k, f)' = AddedBid
           /\ \A l \in Slots : \A g \in AddedFields :
                l # k \/ g # f => LoadField(l, g)' = LoadField(l, g)
  BY <1>1, <1>2, OneStored
<1>4. PICK k \in Slots :
           /\ k = SlotAdded
           /\ pending' = pending \ {f}
           /\ mem' \in Memory /\ ProgramTail' = ProgramTail
           /\ f \in Named => LoadField(k, f)' = AddedBid
           /\ \A l \in Slots : \A g \in AddedFields :
                l # k \/ g # f => LoadField(l, g)' = LoadField(l, g)
  BY <1>3
<1>5. pc' = "add" /\ head' = head /\ received' = received /\ added' = added
  BY DEF StoreNext
<1>6. Types'
  BY <1>1, <1>4, <1>5 DEF Types
<1>7. Running'
  <2>1. Avail' = Avail
    BY <1>4, <1>5 DEF Avail
  <2>2. ASSUME NEW l \in Slots, NEW g \in Named
        PROVE  LoadField(l, g)' \in Bids
    BY <1>1, <1>2, <1>4 DEF Running, Named, AddedFields
  <2>3. QED
    BY <1>1, <1>5, <2>1, <2>2 DEF Running
<1>8. Adding'
  <2>1. AddedBid' = AddedBid /\ SlotAdded' = SlotAdded
    BY <1>4, <1>5 DEF AddedBid, SlotAdded
  <2>2. ASSUME NEW g \in Named \ pending'
        PROVE  LoadField(k, g)' = AddedBid
    BY <1>1, <1>4 DEF Adding, Named, AddedFields
  <2>3. ASSUME NEW l \in Slots, l # k
        PROVE  LoadField(l, "addr")' = LoadField(l, "bid")'
    BY <1>1, <1>4, <2>3 DEF Adding, AddedFields
  <2>4. QED
    BY <1>2, <1>4, <1>5, <2>1, <2>2, <2>3 DEF Adding
<1>9. QED
  BY <1>5, <1>6, <1>7, <1>8 DEF RingInv, Clearing, Filling, Idling

LEMMA PublishInv ==
  ASSUME RingInv, Publish
  PROVE  RingInv' /\ ProgramTail' = Entries
<1>1. Types /\ Filling /\ ProgramTail = 0 /\ head = 0 /\ received = <<>>
      /\ added = Entries /\ pc = "fill"
  BY DEF RingInv, Filling, Publish
<1>2. Entries \in Nat \ {0} /\ CounterMod \in Nat \ {0}
      /\ Entries \in 0..(CounterMod - 1)
  BY Wraps
<1>3. pending = {}
  BY <1>1, <1>2 DEF Filling, Slots
<1>4. mem' = StoreTail(mem, Entries) /\ mem \in Memory
  BY <1>1, <1>2 DEF Publish, Types
<1>5. mem' \in Memory /\ ProgramTail' = Entries % CounterMod
      /\ \A l \in Slots : \A g \in AddedFields : LoadField(l, g)' = LoadField(l, g)
  BY <1>2, <1>4, TailStored
<1>6. ProgramTail' = Entries
  BY <1>2, <1>5, SmallMod
<1>7. pc' = "idle" /\ head' = 0 /\ received' = <<>> /\ pending' = {}
      /\ added' = Entries
  BY <1>1, <1>3 DEF Publish
<1>8. Avail' = Entries
  <2>1. Avail' = (Entries - 0) % CounterMod
    BY <1>6, <1>7 DEF Avail
  <2>2. QED
    BY <1>2, <2>1, SmallMod
<1>9. Types'
  BY <1>2, <1>5, <1>6, <1>7 DEF Types
<1>10. \A k \in Slots : \A f \in Named : LoadField(k, f)' = k
  BY <1>1, <1>2, <1>5 DEF Filling, Slots, Named, AddedFields
<1>11. Running'
  <2>1. Len(received') = 0
    BY <1>7
  <2>2. QED
    BY <1>2, <1>8, <1>10, <2>1 DEF Running, Slots, Bids
<1>12. Idling'
  BY <1>7, <1>10 DEF Idling, EntriesWhole, Named
<1>13. QED
  BY <1>6, <1>7, <1>9, <1>11, <1>12 DEF RingInv, Clearing, Filling, Adding

LEMMA KernelReceiveInv ==
  ASSUME RingInv, KernelReceive
  PROVE  RingInv' /\ Avail' = Avail - 1
<1>1. Types /\ Running /\ Idling /\ Adding /\ Ready /\ Avail > 0
  BY DEF RingInv, KernelReceive, Ready
<1>2. /\ ProgramTail' = ProgramTail
      /\ \A l \in Slots : \A g \in AddedFields : LoadField(l, g)' = LoadField(l, g)
  BY NothingStored DEF KernelReceive
<1>3. ProgramTail \in 0..(CounterMod - 1) /\ head \in 0..(CounterMod - 1)
  BY <1>1 DEF Types, Ready
<1>4. head' \in 0..(CounterMod - 1) /\ Avail' = Avail - 1
  BY <1>1, <1>2, <1>3, AvailDown DEF Avail, KernelReceive
<1>5. PICK m \in Message : received' = Append(received, m)
  <2>1. head % Entries \in Slots
    BY <1>3, DivMod, Wraps DEF Slots
  <2>2. LoadField(head % Entries, "addr") \in Bids
        /\ LoadField(head % Entries, "bid") \in Bids
    BY <1>1, <2>1 DEF Running, Named
  <2>3. QED
    BY <2>2 DEF KernelReceive, Message
<1>6. received \in Seq(Message)
  BY <1>1 DEF Types, Message
<1>7. /\ received' \in Seq(Message)
      /\ Len(received') = Len(received) + 1
      /\ received # <<>> => Head(received') = Head(received)
      /\ received' # <<>>
  BY <1>5, <1>6
<1>8. pc' = pc /\ pending' = pending /\ added' = added /\ mem' = mem
  BY DEF KernelReceive
<1>9. Types'
  BY <1>1, <1>2, <1>4, <1>7, <1>8 DEF Types, Message
<1>10. Running'
  <2>1. Avail \in Int /\ Len(received) \in Int
    BY <1>3, <1>6, DivMod, Wraps DEF Avail
  <2>2. Avail' + Len(received') = Entries
    BY <1>1, <1>4, <1>7, <2>1 DEF Running
  <2>3. QED
    BY <1>1, <1>2, <2>2 DEF Running, Named, AddedFields
<1>11. Idling'
  BY <1>1, <1>2, <1>8 DEF Idling, EntriesWhole, AddedFields
<1>12. Adding'
  <2>1. CASE pc = "add"
    <3>1. AddedBid' = AddedBid /\ SlotAdded' = SlotAdded
      BY <1>1, <1>2, <1>7, <1>8, <2>1 DEF AddedBid, SlotAdded, Adding
    <3>2. QED
      BY <1>1, <1>2, <1>7, <1>8, <2>1, <3>1 DEF Adding, Named, AddedFields
  <2>2. QED
    BY <1>8, <2>1 DEF Adding
<1>13. pc' # "clear" /\ pc' # "fill"
  BY <1>1, <1>8 DEF Ready
<1>14. QED
  BY <1>4, <1>9, <1>10, <1>11, <1>12, <1>13 DEF RingInv, Clearing, Filling

LEMMA HandleInv ==
  ASSUME RingInv, Handle
  PROVE  RingInv'
<1>1. Types /\ Running /\ Idling /\ Ready
  BY DEF RingInv, Handle, Ready
<1>2. /\ ProgramTail' = ProgramTail
      /\ \A l \in Slots : \A g \in AddedFields : LoadField(l, g)' = LoadField(l, g)
  BY NothingStored DEF Handle
<1>3. pc' = "add" /\ head' = head /\ received' = received /\ added' = added
      /\ mem' = mem /\ pending' = AddedFields /\ received # <<>> /\ pc = "idle"
  BY DEF Handle
<1>4. Types'
  BY <1>1, <1>2, <1>3 DEF Types
<1>5. Running'
  BY <1>1, <1>2, <1>3 DEF Running, Avail, Named, AddedFields
<1>6. Adding'
  BY <1>1, <1>2, <1>3 DEF Idling, EntriesWhole, Adding, Named, AddedFields
<1>7. QED
  BY <1>3, <1>4, <1>5, <1>6 DEF RingInv, Clearing, Filling, Idling

LEMMA AdvanceInv ==
  ASSUME RingInv, Advance
  PROVE  /\ RingInv'
         /\ ProgramTail' = (ProgramTail + 1) % CounterMod
         /\ Avail' = Avail + 1
         /\ \A l \in Slots : \A g \in AddedFields : LoadField(l, g)' = LoadField(l, g)
<1>1. Types /\ Running /\ Adding /\ Ready /\ received # <<>>
      /\ pc = "add" /\ pending = {}
  BY DEF RingInv, Advance, Ready, Adding
<1>2. ProgramTail \in 0..(CounterMod - 1) /\ head \in 0..(CounterMod - 1)
      /\ CounterMod \in Nat \ {0} /\ Entries \in Nat \ {0}
      /\ CounterMod >= 2 * Entries
  BY <1>1, Wraps DEF Types
<1>3. mem' = StoreTail(mem, ProgramTail + 1) /\ mem \in Memory
      /\ ProgramTail + 1 \in Int
  BY <1>1, <1>2 DEF Advance, Types
<1>4. mem' \in Memory /\ ProgramTail' = (ProgramTail + 1) % CounterMod
      /\ \A l \in Slots : \A g \in AddedFields : LoadField(l, g)' = LoadField(l, g)
  BY <1>3, TailStored
<1>5. pc' = "idle" /\ pending' = {} /\ added' = added /\ head' = head
      /\ received' = Tail(received)
  BY <1>1 DEF Advance
<1>6. received' \in Seq(Message) /\ Len(received') = Len(received) - 1
      /\ Len(received) \in Nat \ {0}
  BY <1>1, <1>5, FirstReceived
<1>7. Avail < CounterMod - 1 /\ Avail \in Int
  <2>1. Avail \in 0..(CounterMod - 1)
    BY <1>2, DivMod DEF Avail
  <2>2. QED
    BY <1>1, <1>2, <1>6, <2>1 DEF Running
<1>8. ProgramTail' \in 0..(CounterMod - 1) /\ Avail' = Avail + 1
  BY <1>2, <1>4, <1>5, <1>7, AvailUp DEF Avail
<1>9. Types'
  BY <1>1, <1>4, <1>5, <1>6, <1>8 DEF Types, Message
<1>10. Running'
  BY <1>1, <1>4, <1>6, <1>7, <1>8 DEF Running, Named, AddedFields
<1>11. Idling'
  <2>1. ASSUME NEW k \in Slots
        PROVE  LoadField(k, "addr") = LoadField(k, "bid")
    BY <1>1 DEF Adding, Named
  <2>2. QED
    BY <1>4, <1>5, <2>1 DEF Idling, EntriesWhole, AddedFields
<1>12. QED
  BY <1>4, <1>5, <1>8, <1>9, <1>10, <1>11 DEF RingInv, Clearing, Filling, Adding

LEMMA NextInv == RingInv /\ [Next]_vars => RingInv'
<1>. SUFFICES ASSUME RingInv, [Next]_vars PROVE RingInv'
  OBVIOUS
<1>1. CASE Clear
  BY <1>1, ClearInv
<1>2. CASE FillNext
  BY <1>2, FillNextInv
<1>3. CASE StoreNext
  <2>1. pc = "fill" \/ pc = "add"
    BY <1>3 DEF StoreNext, RingInv, Types, Clearing, Idling
  <2>2. QED
    BY <1>3, <2>1, StoreInFillInv, StoreInAddInv
<1>4. CASE Publish
  BY <1>4, PublishInv
<1>5. CASE KernelReceive
  BY <1>5, KernelReceiveInv
<1>6. CASE Handle
  BY <1>6, HandleInv
<1>7. CASE Advance
  BY <1>7, AdvanceInv
<1>8. CASE UNCHANGED vars
  <2>1. mem' = mem
    BY <1>8 DEF vars
  <2>2. /\ ProgramTail' = ProgramTail
        /\ \A l \in Slots : \A g \in AddedFields : LoadField(l, g)' = LoadField(l, g)
    BY <2>1, NothingStored
  <2>3. Types' /\ Clearing' /\ Filling'
    BY <1>8, <2>2 DEF vars, RingInv, Types, Clearing, Filling, Named, AddedFields
  <2>4. Running' /\ Idling'
    BY <1>8, <2>2 DEF vars, RingInv, Running, Ready, Avail, Idling, EntriesWhole,
                      Named, AddedFields
  <2>5. AddedBid' = AddedBid /\ SlotAdded' = SlotAdded
    BY <1>8, <2>2 DEF vars, AddedBid, SlotAdded
  <2>6. Adding'
    BY <1>8, <2>2, <2>5 DEF vars, RingInv, Adding, Named, AddedFields
  <2>7. QED
    BY <2>3, <2>4, <2>6 DEF RingInv
<1>9. QED
  BY <1>1, <1>2, <1>3, <1>4, <1>5, <1>6, <1>7, <1>8 DEF Next

LEMMA AlwaysRingInv == Spec => []RingInv
  BY InitInv, NextInv, PTL DEF Spec

\* The ring stays in the bytes that bufring_init allocated for it
\* (appctx.c:11-17) and holds a tail there, whatever is stored over the first
\* entry (appctx.c:38-43, 151-157); the kernel never takes a message for which
\* it has no entry.
THEOREM MemoryTypes == Spec => []TypeOK
<1>1. RingInv => TypeOK
  <2>. SUFFICES ASSUME RingInv PROVE TypeOK
    OBVIOUS
  <2>1. pc \in {"idle", "add"} => Avail <= Entries
    <3>. SUFFICES ASSUME pc \in {"idle", "add"} PROVE Avail <= Entries
      OBVIOUS
    <3>1. Avail + Len(received) = Entries /\ Len(received) \in Nat
          /\ head \in Int /\ ProgramTail \in Int
      BY DEF RingInv, Running, Ready, Types
    <3>2. Avail \in Int
      BY <3>1, DivMod, Wraps DEF Avail
    <3>3. QED
      BY <3>1, <3>2, Wraps
  <2>2. QED
    BY <2>1 DEF RingInv, Types, TypeOK, Memory, Values
<1>2. QED
  BY <1>1, AlwaysRingInv, PTL

\* Between handlers every entry, visible or stale, has the address of the
\* buffer it has the id of (appctx.c:134-162).
THEOREM AddressesFit == Spec => []EntriesWhole
<1>1. RingInv => EntriesWhole
  BY DEF RingInv, Idling, EntriesWhole
<1>2. QED
  BY <1>1, AlwaysRingInv, PTL

-----------------------------------------------------------------------------
\* The ring of slots that the bytes stand for.
RingSlot == [k \in Slots |-> IF Ready THEN LoadField(k, "bid") ELSE k]
RingTail == IF Ready THEN (ProgramTail + Reposted) % Entries ELSE 0
RingAvail == IF Ready THEN Avail + Reposted ELSE Entries
RingReceived == [i \in 1..(Len(received) - Reposted) |-> received[i + Reposted].bid]

LEMMA RingInit == Init => Ring!Init
<1>. SUFFICES ASSUME Init PROVE Ring!Init
  OBVIOUS
<1>1. ~Ready /\ received = <<>> /\ Reposted = 0
  BY DEF Init, Ready, Reposted
<1>2. Entries % Entries = 0
  <2>1. Entries \in Nat \ {0} /\ 0 \in 0..(Entries - 1) /\ Entries = 1 * Entries + 0
    BY Wraps
  <2>2. QED
    BY <2>1, ModIs
<1>3. RingReceived = <<>>
  BY <1>1 DEF RingReceived
<1>4. QED
  BY <1>1, <1>2, <1>3 DEF Ring!Init, Ring!Slots, Slots, RingReceived

ringVars == <<RingSlot, RingTail, RingAvail, RingReceived>>

\* Steps before the ring is published, and steps after it that disturb none of
\* what the ring is made of.
LEMMA BeforeReady ==
  ASSUME ~Ready, ~Ready', received' = received
  PROVE  UNCHANGED ringVars
<1>1. Reposted = 0 /\ Reposted' = 0
  BY DEF Ready, Reposted
<1>2. QED
  BY <1>1 DEF ringVars, RingSlot, RingTail, RingAvail, RingReceived

LEMMA NothingDisturbed ==
  ASSUME Ready, Ready',
         \A k \in Slots : LoadField(k, "bid")' = LoadField(k, "bid"),
         ProgramTail' = ProgramTail, head' = head, received' = received,
         Reposted' = Reposted
  PROVE  UNCHANGED ringVars
<1>1. Avail' = Avail
  BY DEF Avail
<1>2. RingSlot' = RingSlot
  BY DEF RingSlot
<1>3. RingReceived' = RingReceived
  BY DEF RingReceived
<1>4. QED
  BY <1>1, <1>2, <1>3 DEF ringVars, RingTail, RingAvail

LEMMA PublishStutters ==
  ASSUME RingInv, Publish
  PROVE  UNCHANGED ringVars
<1>1. /\ RingInv' /\ ProgramTail' = Entries /\ ~Ready /\ Ready'
      /\ Reposted = 0 /\ Reposted' = 0 /\ head' = 0 /\ received' = received
      /\ received = <<>> /\ added = Entries /\ ProgramTail = 0
  BY PublishInv DEF Publish, RingInv, Filling, Ready, Reposted
<1>2. Entries \in Nat \ {0} /\ Entries \in 0..(CounterMod - 1) /\ CounterMod \in Nat \ {0}
  BY Wraps
<1>3. Entries % Entries = 0
  <2>1. 0 \in 0..(Entries - 1) /\ Entries = 1 * Entries + 0
    BY <1>2
  <2>2. QED
    BY <1>2, <2>1, ModIs
<1>4. RingTail' = RingTail
  BY <1>1, <1>2, <1>3 DEF RingTail
<1>5. RingAvail' = RingAvail
  <2>1. Avail' = (Entries - 0) % CounterMod
    BY <1>1 DEF Avail
  <2>2. QED
    BY <1>1, <1>2, <2>1, SmallMod DEF RingAvail
<1>6. RingSlot' = RingSlot
  <2>1. mem' = StoreTail(mem, Entries) /\ mem \in Memory
    BY <1>1, <1>2 DEF Publish, RingInv, Types
  <2>2. \A l \in Slots : \A g \in AddedFields : LoadField(l, g)' = LoadField(l, g)
    BY <1>2, <2>1, TailStored
  <2>3. \A k \in Slots : LoadField(k, "bid") = k
    BY <1>1, <1>2 DEF RingInv, Filling, Publish, Slots, Named
  <2>4. QED
    BY <1>1, <2>2, <2>3 DEF RingSlot, AddedFields
<1>7. RingReceived' = RingReceived
  BY <1>1 DEF RingReceived
<1>8. QED
  BY <1>4, <1>5, <1>6, <1>7 DEF ringVars

LEMMA AdvanceStutters ==
  ASSUME RingInv, Advance
  PROVE  UNCHANGED ringVars
<1>1. /\ ProgramTail' = (ProgramTail + 1) % CounterMod
      /\ Avail' = Avail + 1
      /\ \A l \in Slots : \A g \in AddedFields : LoadField(l, g)' = LoadField(l, g)
      /\ ProgramTail' \in 0..(CounterMod - 1)
  <2>1. RingInv' /\ pc' # "clear"
    BY AdvanceInv DEF Advance
  <2>2. QED
    BY <2>1, AdvanceInv DEF RingInv, Types
<1>2. Ready /\ Ready' /\ Reposted = 1 /\ Reposted' = 0
  BY DEF Advance, Ready, Reposted
<1>3. ProgramTail \in Int /\ head \in Int
  BY DEF RingInv, Types, Advance
<1>4. RingTail' = RingTail
  <2>1. ProgramTail + 1 \in Int
    BY <1>3
  <2>2. ((ProgramTail + 1) % CounterMod) % Entries = (ProgramTail + 1) % Entries
    BY <2>1, ModMod
  <2>3. ProgramTail' + 0 = ProgramTail'
    BY <1>1
  <2>4. QED
    BY <1>1, <1>2, <2>2, <2>3 DEF RingTail
<1>5. RingAvail' = RingAvail
  <2>1. Avail \in Int
    BY <1>3, DivMod, Wraps DEF Avail
  <2>2. QED
    BY <1>1, <1>2, <2>1 DEF RingAvail
<1>6. RingSlot' = RingSlot
  BY <1>1, <1>2 DEF RingSlot, AddedFields
<1>7. RingReceived' = RingReceived
  <2>1. received' = Tail(received) /\ received \in Seq(Message) /\ received # <<>>
    BY DEF Advance, RingInv, Types, Adding, Message
  <2>2. /\ Len(received) \in Nat \ {0} /\ Len(received') = Len(received) - 1
        /\ \A i \in 1..(Len(received) - 1) : received'[i] = received[i + 1]
    BY <2>1
  <2>3. RingReceived = [i \in 1..(Len(received) - 1) |-> received[i + 1].bid]
    BY <1>2 DEF RingReceived
  <2>4. RingReceived' = [i \in 1..(Len(received') - 0) |-> received'[i + 0].bid]
    BY <1>2 DEF RingReceived
  <2>5. QED
    BY <2>2, <2>3, <2>4
<1>8. QED
  BY <1>4, <1>5, <1>6, <1>7 DEF ringVars

\* The entry at the kernel's head is the head slot of the ring.
LEMMA HeadIsHead ==
  ASSUME RingInv, Ready
  PROVE  (RingTail - RingAvail) % Entries = head % Entries
<1>1. /\ ProgramTail \in 0..(CounterMod - 1) /\ head \in 0..(CounterMod - 1)
      /\ Reposted \in Int
  BY DEF RingInv, Types, Ready, Reposted
<1>2. Entries \in Nat \ {0} /\ CounterMod \in Nat \ {0}
  BY Wraps
<1>3. PICK c \in Int : CounterMod = c * Entries
  BY Wraps
<1>4. PICK z \in Int : Avail = ProgramTail - head + z * CounterMod
  <2>1. Avail = IF ProgramTail >= head THEN ProgramTail - head
                                       ELSE ProgramTail - head + CounterMod
    BY <1>1, Distance DEF Avail
  <2>2. Avail = ProgramTail - head + 0 * CounterMod
        \/ Avail = ProgramTail - head + 1 * CounterMod
    BY <1>1, <1>2, <2>1
  <2>3. QED
    BY <2>2
<1>. DEFINE y == (ProgramTail + Reposted) \div Entries
<1>5. /\ y \in Int /\ RingTail \in Int
      /\ ProgramTail + Reposted = y * Entries + RingTail
  <2>1. ProgramTail + Reposted \in Int
    BY <1>1
  <2>. DEFINE r == (ProgramTail + Reposted) % Entries
  <2>2. r \in 0..(Entries - 1) /\ y \in Int
        /\ ProgramTail + Reposted = y * Entries + r
    BY <1>2, <2>1, DivMod
  <2>3. RingTail = r
    BY DEF RingTail
  <2>. HIDE DEF r, y
  <2>4. QED
    BY <1>2, <2>2, <2>3
<1>. HIDE DEF y
<1>. DEFINE x == -y - z * c
<1>6. x \in Int /\ x * Entries = -(y * Entries) - z * CounterMod
  BY <1>2, <1>3, <1>4, <1>5
<1>. HIDE DEF x
<1>7. RingTail - RingAvail = head + x * Entries
  <2>1. RingAvail = Avail + Reposted
    BY DEF RingAvail
  <2>2. y * Entries \in Int /\ z * CounterMod \in Int
    BY <1>2, <1>4, <1>5
  <2>3. QED
    BY <1>1, <1>4, <1>5, <1>6, <2>1, <2>2
<1>8. (head + x * Entries) % Entries = head % Entries
  <2>1. head \in Int /\ x \in Int
    BY <1>1, <1>6
  <2>2. QED
    BY <1>2, <2>1, ModShift
<1>9. QED
  BY <1>7, <1>8

\* A sequence given by its elements.
LEMMA Appended ==
  ASSUME NEW S, NEW n \in Nat, NEW s, NEW t, NEW e \in S,
         s = [i \in 1..n |-> s[i]], \A i \in 1..n : s[i] \in S,
         t = [i \in 1..(n + 1) |-> t[i]],
         \A i \in 1..n : t[i] = s[i], t[n + 1] = e
  PROVE  t = Append(s, e)
<1>1. s \in Seq(S) /\ Len(s) = n
  <2>1. PICK z : z = [i \in 1..n |-> s[i]]
    OBVIOUS
  <2>2. z \in [1..n -> S] /\ z = s
    BY <2>1
  <2>3. QED
    BY <2>2
<1>2. /\ Append(s, e) \in Seq(S) /\ Len(Append(s, e)) = n + 1
      /\ \A i \in 1..n : Append(s, e)[i] = s[i]
      /\ Append(s, e)[n + 1] = e
  BY <1>1
<1>3. t \in Seq(S) /\ Len(t) = n + 1
  <2>1. \A i \in 1..(n + 1) : i = n + 1 \/ i \in 1..n
    OBVIOUS
  <2>2. \A i \in 1..(n + 1) : t[i] \in S
    BY <2>1
  <2>3. QED
    BY <2>2
<1>4. \A i \in 1..(n + 1) : t[i] = Append(s, e)[i]
  <2>1. \A i \in 1..(n + 1) : i = n + 1 \/ i \in 1..n
    OBVIOUS
  <2>2. QED
    BY <1>2, <2>1
<1>5. QED
  BY <1>2, <1>3, <1>4

LEMMA TailIs ==
  ASSUME NEW S, NEW s \in Seq(S), s # <<>>
  PROVE  Tail(s) = [i \in 1..(Len(s) - 1) |-> s[i + 1]]
<1>1. /\ Tail(s) \in Seq(S) /\ Len(Tail(s)) = Len(s) - 1 /\ Len(s) - 1 \in Nat
      /\ \A i \in 1..(Len(s) - 1) : Tail(s)[i] = s[i + 1]
  OBVIOUS
<1>2. Tail(s) \in [1..(Len(s) - 1) -> S]
  BY <1>1, LenProperties
<1>3. QED
  BY <1>1, <1>2

LEMMA ReceiveReceives ==
  ASSUME RingInv, KernelReceive
  PROVE  /\ RingAvail > 0
         /\ RingAvail' = RingAvail - 1
         /\ RingReceived' = Append(RingReceived, RingSlot[(RingTail - RingAvail) % Entries])
         /\ UNCHANGED <<RingSlot, RingTail>>
<1>1. /\ Ready /\ Ready' /\ Reposted' = Reposted /\ Reposted \in {0, 1}
      /\ Avail > 0 /\ Avail' = Avail - 1
  BY KernelReceiveInv DEF KernelReceive, Ready, Reposted
<1>2. /\ ProgramTail' = ProgramTail
      /\ \A l \in Slots : \A g \in AddedFields : LoadField(l, g)' = LoadField(l, g)
  BY NothingStored DEF KernelReceive
<1>3. ProgramTail \in Int /\ head \in Int /\ Avail \in Int
  <2>1. ProgramTail \in Int /\ head \in Int
    BY <1>1 DEF RingInv, Types, Ready
  <2>2. QED
    BY <2>1, DivMod, Wraps DEF Avail
<1>4. RingAvail > 0 /\ RingAvail' = RingAvail - 1
  BY <1>1, <1>3 DEF RingAvail
<1>5. RingSlot' = RingSlot /\ RingTail' = RingTail
  BY <1>1, <1>2 DEF RingSlot, RingTail, AddedFields
<1>. DEFINE k == head % Entries
<1>6. k \in Slots /\ RingSlot[(RingTail - RingAvail) % Entries] = LoadField(k, "bid")
  <2>1. k \in Slots
    BY <1>3, DivMod, Wraps DEF Slots
  <2>2. (RingTail - RingAvail) % Entries = k
    BY <1>1, HeadIsHead
  <2>3. RingSlot[k] = LoadField(k, "bid")
    BY <1>1, <2>1 DEF RingSlot
  <2>4. QED
    BY <2>1, <2>2, <2>3
<1>7. RingReceived' = Append(RingReceived, LoadField(k, "bid"))
  <2>1. PICK m : received' = Append(received, m) /\ m.bid = LoadField(k, "bid")
    BY DEF KernelReceive
  <2>2. received \in Seq(Message) /\ (Reposted = 1 => received # <<>>)
    BY DEF RingInv, Types, Adding, Message, Reposted
  <2>3. /\ Len(received) \in Nat /\ Len(received') = Len(received) + 1
        /\ received'[Len(received) + 1] = m
        /\ \A i \in 1..Len(received) : received'[i] = received[i]
        /\ (Reposted = 1 => Len(received) >= 1)
    BY <2>1, <2>2
  <2>. DEFINE n == Len(received) - Reposted
  <2>4. n \in Nat
    BY <1>1, <2>3
  <2>5. RingReceived' = [i \in 1..(n + 1) |-> received'[i + Reposted].bid]
    <3>1. Len(received') - Reposted = n + 1
      BY <1>1, <2>3
    <3>2. QED
      BY <1>1, <3>1 DEF RingReceived
  <2>6. RingReceived = [i \in 1..n |-> received[i + Reposted].bid]
    BY DEF RingReceived
  <2>7. \A i \in 1..n : received'[i + Reposted] = received[i + Reposted]
    BY <1>1, <2>3
  <2>8. received'[n + 1 + Reposted] = m
    BY <1>1, <2>3
  <2>9. \A i \in 1..n : RingReceived[i] \in Bids
    <3>1. \A i \in 1..n : i + Reposted \in 1..Len(received)
      BY <1>1, <2>3
    <3>2. \A i \in 1..Len(received) : received[i].bid \in Bids
      <4>1. \A i \in 1..Len(received) : received[i] \in Message
        BY <2>2
      <4>2. QED
        BY <4>1 DEF Message
    <3>3. QED
      BY <2>6, <3>1, <3>2
  <2>10. LoadField(k, "bid") \in Bids
    BY <1>1, <1>6 DEF RingInv, Running, Named
  <2>. HIDE DEF n, k
  <2>11. RingReceived = [i \in 1..n |-> RingReceived[i]]
    BY <2>6
  <2>12. RingReceived' = [i \in 1..(n + 1) |-> (RingReceived')[i]]
    BY <2>5
  <2>13. \A i \in 1..n : (RingReceived')[i] = RingReceived[i]
    <3>1. \A i \in 1..n : i \in 1..(n + 1)
      BY <2>4
    <3>2. QED
      BY <2>5, <2>6, <2>7, <3>1
  <2>14. (RingReceived')[n + 1] = LoadField(k, "bid")
    <3>1. n + 1 \in 1..(n + 1)
      BY <2>4
    <3>2. (RingReceived')[n + 1] = received'[n + 1 + Reposted].bid
      BY <2>5, <3>1
    <3>3. QED
      BY <2>1, <2>8, <3>2
  <2>15. QED
    BY <2>4, <2>9, <2>10, <2>11, <2>12, <2>13, <2>14, Appended
<1>8. QED
  BY <1>4, <1>5, <1>6, <1>7

\* The store of the id is the repost; the other stores of the entry, and those
\* before the ring is published, are not seen.
LEMMA StoreReposts ==
  ASSUME RingInv, StoreNext, pc = "add", "bid" \in pending, "bid" \notin pending'
  PROVE  /\ RingReceived # <<>>
         /\ LET bid == Head(RingReceived)
            IN  RingSlot' = [RingSlot EXCEPT ![(RingTail + bid) % Entries] = bid]
         /\ RingTail' = (RingTail + 1) % Entries
         /\ RingAvail' = RingAvail + 1
         /\ RingReceived' = Tail(RingReceived)
<1>1. Types /\ Running /\ Adding /\ Ready /\ Ready' /\ Reposted = 0 /\ Reposted' = 1
      /\ pc' = "add" /\ head' = head /\ received' = received
  BY DEF RingInv, Ready, Reposted, StoreNext
<1>2. received # <<>> /\ AddedBid = Head(received).bid /\ AddedBid \in Bids
  BY <1>1, FirstReceived DEF Adding, AddedBid
<1>3. PICK f \in pending : \E k \in Slots :
           /\ k = SlotAdded
           /\ pending' = pending \ {f}
           /\ mem' \in Memory /\ ProgramTail' = ProgramTail
           /\ f \in Named => LoadField(k, f)' = AddedBid
           /\ \A l \in Slots : \A g \in AddedFields :
                l # k \/ g # f => LoadField(l, g)' = LoadField(l, g)
  BY <1>1, <1>2, OneStored
<1>4. f = "bid"
  BY <1>3
<1>5. PICK k \in Slots :
           /\ k = SlotAdded
           /\ ProgramTail' = ProgramTail
           /\ LoadField(k, "bid")' = AddedBid
           /\ \A l \in Slots : l # k => LoadField(l, "bid")' = LoadField(l, "bid")
  BY <1>3, <1>4 DEF Named, AddedFields
<1>6. /\ Entries \in Nat \ {0} /\ ProgramTail \in Int /\ AddedBid \in Int
      /\ head \in Int
  BY <1>1, <1>2, Wraps DEF Types, Ready, Bids
<1>7. RingTail = ProgramTail % Entries
  <2>1. ProgramTail + 0 = ProgramTail
    BY <1>6
  <2>2. QED
    BY <1>1, <2>1 DEF RingTail
<1>8. k = (RingTail + AddedBid) % Entries
  BY <1>5, <1>6, <1>7, ModSum DEF SlotAdded
<1>9. RingTail' = (RingTail + 1) % Entries
  <2>1. RingTail' = (ProgramTail + 1) % Entries
    BY <1>1, <1>5 DEF RingTail
  <2>2. PICK one \in Int : one = 1
    OBVIOUS
  <2>3. ((ProgramTail % Entries) + one) % Entries = (ProgramTail + one) % Entries
    BY <1>6, ModSum
  <2>4. QED
    BY <1>7, <2>1, <2>2, <2>3
<1>10. RingAvail' = RingAvail + 1
  <2>1. Avail \in Int /\ Avail' = Avail
    BY <1>1, <1>5, <1>6, DivMod, Wraps DEF Avail
  <2>2. QED
    BY <1>1, <2>1 DEF RingAvail
<1>11. received \in Seq(Message) /\ Len(received) \in Nat \ {0}
  BY <1>1, <1>2, FirstReceived DEF Types, Message
<1>12. RingReceived = [i \in 1..Len(received) |-> received[i].bid]
  <2>1. RingReceived = [i \in 1..(Len(received) - 0) |-> received[i + 0].bid]
    BY <1>1 DEF RingReceived
  <2>2. QED
    BY <1>11, <2>1
<1>13. RingReceived' = [i \in 1..(Len(received) - 1) |-> received[i + 1].bid]
  BY <1>1 DEF RingReceived
<1>14. RingReceived \in Seq(Bids) /\ Len(RingReceived) = Len(received)
  <2>1. \A i \in 1..Len(received) : received[i] \in Message
    BY <1>11
  <2>2. \A i \in 1..Len(received) : received[i].bid \in Bids
    BY <2>1 DEF Message
  <2>3. QED
    BY <1>11, <1>12, <2>2
<1>15. RingReceived # <<>> /\ Head(RingReceived) = AddedBid
  <2>1. 1 \in 1..Len(received) /\ Head(received) = received[1]
    BY <1>2, <1>11
  <2>2. Head(RingReceived) = RingReceived[1] /\ RingReceived # <<>>
    BY <1>11, <1>14
  <2>3. QED
    BY <1>2, <1>12, <2>1, <2>2
<1>16. RingReceived' = Tail(RingReceived)
  <2>1. Tail(RingReceived) = [i \in 1..(Len(received) - 1) |-> RingReceived[i + 1]]
    BY <1>14, <1>15, TailIs
  <2>2. \A i \in 1..(Len(received) - 1) : i + 1 \in 1..Len(received)
    BY <1>11
  <2>3. \A i \in 1..(Len(received) - 1) : RingReceived[i + 1] = received[i + 1].bid
    BY <1>12, <2>2
  <2>4. QED
    BY <1>13, <2>1, <2>3
<1>17. RingSlot' = [RingSlot EXCEPT ![k] = AddedBid]
  BY <1>1, <1>5 DEF RingSlot
<1>18. QED
  BY <1>8, <1>9, <1>10, <1>15, <1>16, <1>17

LEMMA StoreStutters ==
  ASSUME RingInv, StoreNext, pc = "fill" \/ "bid" \notin pending \/ "bid" \in pending'
  PROVE  UNCHANGED ringVars
<1>1. pc = "fill" \/ pc = "add"
  BY DEF StoreNext, RingInv, Types, Clearing, Idling
<1>2. CASE pc = "fill"
  <2>1. ~Ready /\ ~Ready' /\ received' = received
    BY <1>2 DEF StoreNext, Ready
  <2>2. QED
    BY <2>1, BeforeReady
<1>3. CASE pc = "add"
  <2>1. Types /\ Adding /\ Ready /\ Ready' /\ head' = head /\ received' = received
        /\ pc' = "add"
    BY <1>3 DEF RingInv, Ready, StoreNext
  <2>2. AddedBid \in Bids
    BY <1>3, <2>1, FirstReceived DEF Adding, AddedBid
  <2>3. PICK f \in pending : \E k \in Slots :
           /\ k = SlotAdded
           /\ pending' = pending \ {f}
           /\ mem' \in Memory /\ ProgramTail' = ProgramTail
           /\ f \in Named => LoadField(k, f)' = AddedBid
           /\ \A l \in Slots : \A g \in AddedFields :
                l # k \/ g # f => LoadField(l, g)' = LoadField(l, g)
    BY <1>3, <2>1, <2>2, OneStored
  <2>4. f # "bid"
    BY <1>3, <2>3
  <2>5. \A l \in Slots : LoadField(l, "bid")' = LoadField(l, "bid")
    BY <2>3, <2>4 DEF AddedFields
  <2>6. Reposted' = Reposted
    BY <1>3, <2>1, <2>3, <2>4 DEF Reposted
  <2>7. QED
    BY <2>1, <2>3, <2>5, <2>6, NothingDisturbed
<1>4. QED
  BY <1>1, <1>2, <1>3

LEMMA RingNext == RingInv /\ [Next]_vars => [Ring!Next]_(Ring!vars)
<1>. SUFFICES ASSUME RingInv, [Next]_vars PROVE Ring!Next \/ UNCHANGED ringVars
  BY DEF Ring!vars, ringVars, RingSlot, RingTail, RingAvail, RingReceived
<1>1. CASE Clear \/ FillNext
  <2>1. ~Ready /\ ~Ready' /\ received' = received
    BY <1>1 DEF Clear, FillNext, Ready
  <2>2. QED
    BY <2>1, BeforeReady
<1>2. CASE StoreNext
  <2>1. CASE pc = "add" /\ "bid" \in pending /\ "bid" \notin pending'
    <3>1. Ring!Repost
      BY <1>2, <2>1, StoreReposts
         DEF Ring!Repost, Ring!RingAdd, Ring!RingAdvance,
             RingSlot, RingTail, RingAvail, RingReceived
    <3>2. QED
      BY <3>1 DEF Ring!Next
  <2>2. CASE pc = "fill" \/ "bid" \notin pending \/ "bid" \in pending'
    BY <1>2, <2>2, StoreStutters
  <2>3. pc = "fill" \/ pc = "add"
    BY <1>2 DEF StoreNext, RingInv, Types, Clearing, Idling
  <2>4. QED
    BY <2>1, <2>2, <2>3
<1>3. CASE Publish
  BY <1>3, PublishStutters
<1>4. CASE KernelReceive
  <2>1. Ring!KernelReceive
    BY <1>4, ReceiveReceives
       DEF Ring!KernelReceive, Ring!HeadSlot,
           RingSlot, RingTail, RingAvail, RingReceived
  <2>2. QED
    BY <2>1 DEF Ring!Next
<1>5. CASE Handle
  <2>1. Ready /\ Ready' /\ Reposted = 0 /\ Reposted' = 0
        /\ head' = head /\ received' = received
    BY <1>5 DEF Handle, Ready, Reposted, AddedFields
  <2>2. ProgramTail' = ProgramTail
        /\ \A k \in Slots : LoadField(k, "bid")' = LoadField(k, "bid")
    BY <1>5, NothingStored DEF Handle, AddedFields
  <2>3. QED
    BY <2>1, <2>2, NothingDisturbed
<1>6. CASE Advance
  BY <1>6, AdvanceStutters
<1>7. CASE UNCHANGED vars
  <2>1. mem' = mem /\ pc' = pc /\ pending' = pending /\ head' = head
        /\ received' = received
    BY <1>7 DEF vars
  <2>2. ProgramTail' = ProgramTail
        /\ \A k \in Slots : LoadField(k, "bid")' = LoadField(k, "bid")
    BY <2>1, NothingStored DEF AddedFields
  <2>3. Reposted' = Reposted /\ (Ready <=> Ready')
    BY <2>1 DEF Reposted, Ready
  <2>4. QED
    BY <2>1, <2>2, <2>3, BeforeReady, NothingDisturbed
<1>8. QED
  BY <1>1, <1>2, <1>3, <1>4, <1>5, <1>6, <1>7 DEF Next

\* The bytes implement the ring of slots: in whatever order the stores of
\* io_uring_buf_ring_add are done and whenever the kernel looks, it takes the
\* buffers that BufRing says (appctx.c:11-43, 134-162), so what is proved of
\* BufRing holds of the memory.
THEOREM BytesMakeARing == Spec => RingSpec
  BY RingInit, RingNext, AlwaysRingInv, PTL DEF Spec, RingSpec, Ring!Spec

-----------------------------------------------------------------------------
\* The theorems about the ring of slots, for the one that is in memory.
Facts == INSTANCE BufRingProofs WITH
  slot <- RingSlot, tail <- RingTail, avail <- RingAvail,
  received <- RingReceived

LEMMA SameRing ==
  /\ RingSpec => Facts!Spec
  /\ []Facts!SlotsAccountedFor => []Ring!SlotsAccountedFor
  /\ Facts!LostBuffersStayLost => Ring!LostBuffersStayLost
<1> USE DEF RingSlot, RingTail, RingAvail, RingReceived
<1>1. Ring!Init => Facts!Init
  BY DEF Ring!Init, Facts!Init, Ring!Slots, Facts!Slots
<1>2. [Ring!Next]_(Ring!vars) => [Facts!Next]_(Facts!vars)
  BY DEF Ring!Next, Facts!Next, Ring!vars, Facts!vars,
         Ring!KernelReceive, Facts!KernelReceive, Ring!HeadSlot, Facts!HeadSlot,
         Ring!Repost, Facts!Repost, Ring!RingAdd, Facts!RingAdd,
         Ring!RingAdvance, Facts!RingAdvance
<1>3. Facts!SlotsAccountedFor => Ring!SlotsAccountedFor
  BY DEF Ring!SlotsAccountedFor, Facts!SlotsAccountedFor
<1>4. RingSpec => Facts!Spec
  BY <1>1, <1>2, PTL DEF RingSpec, Ring!Spec, Facts!Spec
<1>5. []Facts!SlotsAccountedFor => []Ring!SlotsAccountedFor
  BY <1>3, PTL
<1>6. Facts!LostBuffersStayLost => Ring!LostBuffersStayLost
  <2>1. [Facts!Range(RingSlot') \cup Facts!Unhandled'
           \subseteq Facts!Range(RingSlot) \cup Facts!Unhandled]_(Facts!vars)
        => [Ring!Range(RingSlot') \cup Ring!Unhandled'
              \subseteq Ring!Range(RingSlot) \cup Ring!Unhandled]_(Ring!vars)
    BY DEF Ring!Unhandled, Facts!Unhandled, Ring!vars, Facts!vars,
           Ring!Range, Facts!Range
  <2> QED
    BY <2>1, PTL DEF Ring!LostBuffersStayLost, Facts!LostBuffersStayLost
<1> QED
  BY <1>4, <1>5, <1>6

\* Whatever store the kernel's thread looks after, each entry of the memory is
\* the kernel's to take or stands for a message to be handled, and an id that
\* no entry and no such message has is gone for good (appctx.c:151-157).
THEOREM RingTheoremsInMemory ==
  Spec => []Ring!SlotsAccountedFor /\ Ring!LostBuffersStayLost
<1>1. Entries \in Nat \ {0}
  BY RingAssumption
<1>2. Facts!Spec => []Facts!SlotsAccountedFor
  BY <1>1, Facts!SlotsAlwaysAccountedFor, PTL
<1>3. Facts!Spec => Facts!LostBuffersStayLost
  BY <1>1, Facts!LostForGood
<1> QED
  BY <1>2, <1>3, SameRing, BytesMakeARing

=============================================================================
