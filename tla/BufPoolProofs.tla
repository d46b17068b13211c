--------------------------- MODULE BufPoolProofs ---------------------------
(***************************************************************************)
(* Proofs about the linked list of the buffer pool, for every number of    *)
(* buffers: the list always holds exactly the buffers that are not out,    *)
(* each once, and the pool implements the lender's promise.                *)
(***************************************************************************)
EXTENDS BufPool, Sequences, FiniteSetTheorems, TLAPS

\* Sets of buffers are finite, and taking one out or putting one in changes
\* their size by one.
LEMMA BidsFinite == IsFiniteSet(Bids)
  BY FS_Interval, EntriesAssumption DEF Bids

LEMMA InitType == Init => TypeOK
  BY EntriesAssumption, NullAssumption DEF Init, TypeOK, Bids

LEMMA NextType == TypeOK /\ [Next]_vars => TypeOK'
<1>. SUFFICES ASSUME TypeOK, [Next]_vars PROVE TypeOK'
  OBVIOUS
<1>. USE DEF TypeOK
<1>1. CASE PopEmpty
  BY <1>1 DEF PopEmpty
<1>2. CASE PopHead
  BY <1>2 DEF PopHead
<1>3. ASSUME NEW bid \in Bids, Put(bid) PROVE TypeOK'
  <2>1. out[bid] \in Nat /\ out[bid] > 0
    BY <1>3 DEF Put, held
  <2>2. out' \in [Bids -> Nat]
    BY <1>3, <2>1 DEF Put
  <2>3. QED
    BY <1>3, <2>2 DEF Put
<1>4. CASE UNCHANGED vars
  BY <1>4 DEF vars
<1>5. QED
  BY <1>1, <1>2, <1>3, <1>4 DEF Next

\* Heads, next fields and ids stay in the array of nodes.
THEOREM TypeCorrect == Spec => []TypeOK
  BY InitType, NextType, PTL DEF Spec

-----------------------------------------------------------------------------
\* No buffer is lent to two callers.
LentOnce == \A b \in Bids : out[b] <= 1

LEMMA InitFree == Init => held = {} /\ Free = Bids
  BY DEF Init, held, Free

\* What a pop and a put do to the buffers that are out.
LEMMA PopHeld ==
  ASSUME TypeOK, PopHead
  PROVE  /\ held' = held \cup {freelist_head}
         /\ Free' = Free \ {freelist_head}
  BY DEF TypeOK, PopHead, held, Free

LEMMA PutHeld ==
  ASSUME TypeOK, LentOnce, NEW bid \in Bids, Put(bid)
  PROVE  /\ bid \in held /\ bid \notin Free
         /\ held' = held \ {bid}
         /\ Free' = Free \cup {bid}
<1>1. \A b \in Bids : out'[b] = IF b = bid THEN 0 ELSE out[b]
  BY DEF TypeOK, LentOnce, Put, held
<1>2. held' = held \ {bid}
  BY <1>1 DEF held
<1>3. QED
  BY <1>2 DEF Put, Free, held

\* The sequence s is the linked list: the free nodes in list order.
Spells(s) == s \in Seq(Free) /\ IsFreelist(s, Len(s))

\* bufpool_init: the list is Entries - 1, ..., 1, 0.
LEMMA InitSpells == Init => Spells([i \in 1..Entries |-> Entries - i])
<1>. SUFFICES ASSUME Init PROVE Spells([i \in 1..Entries |-> Entries - i])
  OBVIOUS
<1>. DEFINE s == [i \in 1..Entries |-> Entries - i]
<1>1. Free = Bids
  BY InitFree
<1>2. s \in [1..Entries -> Free]
  BY <1>1, EntriesAssumption DEF Bids
<1>3. s \in Seq(Free) /\ Len(s) = Entries
  BY <1>2, EntriesAssumption
<1>4. freelist_head = s[1] /\ Entries # 0
  BY EntriesAssumption DEF Init
<1>5. \A i \in 1..Entries : next[s[i]] = IF i = Entries THEN NULL ELSE s[i + 1]
  BY EntriesAssumption DEF Init, Bids
<1>6. \A i, j \in 1..Entries : s[i] = s[j] => i = j
  BY EntriesAssumption
<1>7. ASSUME NEW b \in Free PROVE \E i \in 1..Entries : s[i] = b
  <2>1. Entries - b \in 1..Entries /\ s[Entries - b] = b
    BY <1>1, EntriesAssumption DEF Bids
  <2>2. QED
    BY <2>1
<1>8. IsFreelist(s, Entries)
  BY <1>4, <1>5, <1>6, <1>7 DEF IsFreelist
<1>9. QED
  BY <1>3, <1>8 DEF Spells

LEMMA InitFreelist == Init => FreelistHoldsTheRest
<1>. SUFFICES ASSUME Init PROVE FreelistHoldsTheRest
  OBVIOUS
<1>1. Cardinality(Free) = Entries
  BY InitFree, FS_Interval, EntriesAssumption DEF Bids
<1>2. PICK s : s = [i \in 1..Entries |-> Entries - i]
  OBVIOUS
<1>3. s \in [1..Entries -> Free] /\ IsFreelist(s, Entries)
  <2>1. Spells(s) /\ Len(s) = Entries
    BY <1>2, InitSpells, EntriesAssumption
  <2>2. QED
    BY <2>1 DEF Spells
<1>4. QED
  BY <1>1, <1>3 DEF FreelistHoldsTheRest

\* What the free buffers number, and that their sequence is as long.
LEMMA FreeCount == IsFiniteSet(Free) /\ Cardinality(Free) \in Nat
  BY BidsFinite, FS_Subset, FS_CardinalityType DEF Free

LEMMA FreelistSpelled ==
  ASSUME FreelistHoldsTheRest
  PROVE  \E s : Spells(s) /\ Len(s) = Cardinality(Free)
<1>1. PICK n \in Nat : /\ n = Cardinality(Free)
                       /\ \E s \in [1..n -> Free] : IsFreelist(s, n)
  BY FreeCount DEF FreelistHoldsTheRest
<1>2. PICK s \in [1..n -> Free] : IsFreelist(s, n)
  BY <1>1
<1>3. s \in Seq(Free) /\ Len(s) = n
  BY <1>1
<1>4. QED
  BY <1>1, <1>2, <1>3 DEF Spells

\* bufpool_pop hands out the first of the list and leaves the others: the
\* stale next field of the node that is out does not matter.
LEMMA PopSpells ==
  ASSUME TypeOK, NEW s, Spells(s), PopHead
  PROVE  /\ s # <<>>
         /\ regbuf' = Head(s)
         /\ Free' = Free \ {Head(s)}
         /\ Spells(Tail(s))'
<1>0. PICK n \in Nat : n = Len(s)
  BY DEF Spells
<1>1. s \in Seq(Free) /\ s \in [1..n -> Free] /\ IsFreelist(s, n)
  BY <1>0 DEF Spells
<1>2. n > 0 /\ s[1] = freelist_head /\ s[1] \in Free
  BY <1>1 DEF IsFreelist, PopHead
<1>3. s # <<>> /\ Head(s) = s[1]
  BY <1>1, <1>2
<1>4. Free' = Free \ {s[1]}
  BY <1>2, PopHeld
<1>5. PICK t : t = Tail(s)
  OBVIOUS
<1>6. /\ Len(t) = n - 1
      /\ \A i \in 1..(n - 1) :
           t[i] = s[i + 1] /\ i + 1 \in 1..n /\ s[i + 1] \in Free
  BY <1>0, <1>1, <1>2, <1>3, <1>5
<1>7. \A i \in 1..(n - 1) : t[i] # s[1]
  BY <1>1, <1>2, <1>6 DEF IsFreelist
<1>8. t \in Seq(Free')
  <2>1. t \in Seq(Free)
    BY <1>1, <1>3, <1>5
  <2>2. \A i \in 1..Len(t) : t[i] \in Free'
    BY <1>4, <1>6, <1>7
  <2>3. QED
    BY <2>1, <2>2
<1>9. freelist_head' = IF n - 1 = 0 THEN NULL ELSE t[1]
  BY <1>1, <1>2, <1>6 DEF IsFreelist, PopHead
<1>10. \A i \in 1..(n - 1) : next'[t[i]] = IF i = n - 1 THEN NULL ELSE t[i + 1]
  BY <1>1, <1>6 DEF IsFreelist, PopHead
<1>11. \A i, j \in 1..(n - 1) : t[i] = t[j] => i = j
  BY <1>1, <1>6 DEF IsFreelist
<1>12. ASSUME NEW x \in Free'
       PROVE  \E i \in 1..(n - 1) : t[i] = x
  <2>1. PICK i \in 1..n : s[i] = x
    BY <1>1, <1>4 DEF IsFreelist
  <2>2. i # 1
    BY <1>4, <2>1
  <2>3. i - 1 \in 1..(n - 1) /\ t[i - 1] = x
    BY <1>1, <1>6, <2>1, <2>2
  <2>4. QED
    BY <2>3
<1>13. IsFreelist(t, Len(t))'
  BY <1>1, <1>6, <1>9, <1>10, <1>11, <1>12 DEF IsFreelist
<1>14. Spells(t)'
  BY <1>8, <1>13 DEF Spells
<1>15. QED
  BY <1>2, <1>3, <1>4, <1>5, <1>14 DEF PopHead

LEMMA PopFreelist ==
  ASSUME TypeOK, FreelistHoldsTheRest, PopHead
  PROVE  FreelistHoldsTheRest'
<1>1. PICK s : Spells(s) /\ Len(s) = Cardinality(Free)
  BY FreelistSpelled
<1>2. PICK t : t = Tail(s)
  OBVIOUS
<1>3. Spells(t)' /\ s # <<>>
  BY <1>1, <1>2, PopSpells
<1>4. Len(t) = Len(s) - 1 /\ Head(s) \in Free
  BY <1>1, <1>2, <1>3 DEF Spells
<1>5. Cardinality(Free') = Cardinality(Free) - 1
  BY <1>1, <1>4, PopSpells, FreeCount, FS_RemoveElement
<1>6. PICK m : m = Len(t) /\ m = Cardinality(Free')
  BY <1>1, <1>4, <1>5
<1>7. t \in Seq(Free')
  BY <1>3 DEF Spells
<1>8. t \in [1..Len(t) -> Free']
  BY <1>7
<1>9. IsFreelist(t, m)'
  BY <1>3, <1>6 DEF Spells, IsFreelist
<1>10. Cardinality(Free') = m /\ t \in [1..m -> Free']
  BY <1>6, <1>8
<1>11. QED
  BY <1>9, <1>10 DEF FreelistHoldsTheRest

\* bufpool_put puts the node in front of the list that was there.
LEMMA PutSpells ==
  ASSUME TypeOK, LentOnce, NEW s, Spells(s), NEW bid \in Bids, Put(bid)
  PROVE  /\ bid \notin Free
         /\ Free' = Free \cup {bid}
         /\ Spells(<<bid>> \o s)'
<1>0. PICK n \in Nat : n = Len(s)
  BY DEF Spells
<1>1. s \in Seq(Free) /\ s \in [1..n -> Free] /\ IsFreelist(s, n)
  BY <1>0 DEF Spells
<1>2. bid \notin Free /\ freelist_head' = bid
  BY PutHeld DEF Put
<1>3. Free' = Free \cup {bid}
  BY PutHeld
<1>4. PICK t : t = <<bid>> \o s
  OBVIOUS
<1>5. /\ Len(t) = n + 1
      /\ t[1] = bid
      /\ \A i \in 1..n : t[i + 1] = s[i] /\ s[i] \in Free /\ s[i] # bid
      /\ \A i \in 1..(n + 1) : i = 1 \/ i - 1 \in 1..n
  BY <1>0, <1>1, <1>2, <1>4
<1>6. t \in Seq(Free')
  <2>1. <<bid>> \in Seq(Free') /\ s \in Seq(Free')
    BY <1>1, <1>3
  <2>2. QED
    BY <1>4, <2>1
<1>7. next'[bid] = IF n = 0 THEN NULL ELSE s[1]
  BY <1>1 DEF IsFreelist, Put, TypeOK
<1>8. \A i \in 1..n : next'[s[i]] = IF i = n THEN NULL ELSE s[i + 1]
  BY <1>1, <1>5 DEF IsFreelist, Put, TypeOK
<1>9. ASSUME NEW i \in 1..(n + 1)
      PROVE  next'[t[i]] = IF i = n + 1 THEN NULL ELSE t[i + 1]
  <2>1. CASE i = 1
    <3>1. n # 0 => t[2] = s[1]
      BY <1>1, <1>5
    <3>2. QED
      BY <1>1, <1>5, <1>7, <2>1, <3>1
  <2>2. CASE i # 1
    <3>1. PICK k \in 1..n : i = k + 1
      BY <1>1, <1>5, <2>2
    <3>2. t[i] = s[k] /\ (k # n => t[i + 1] = s[k + 1])
      BY <1>1, <1>5, <3>1
    <3>3. QED
      BY <1>1, <1>8, <3>1, <3>2
  <2>3. QED
    BY <2>1, <2>2
<1>10. \A i, j \in 1..(n + 1) : t[i] = t[j] => i = j
  <2>1. \A i, j \in 1..n : s[i] = s[j] => i = j
    BY <1>1 DEF IsFreelist
  <2>2. \A i \in 1..(n + 1) : i # 1 => t[i] = s[i - 1] /\ t[i] # t[1]
    BY <1>1, <1>5
  <2>3. QED
    BY <1>1, <1>5, <2>1, <2>2
<1>11. ASSUME NEW x \in Free'
       PROVE  \E i \in 1..(n + 1) : t[i] = x
  <2>1. CASE x = bid
    BY <1>1, <1>5, <2>1
  <2>2. CASE x \in Free
    <3>1. PICK i \in 1..n : s[i] = x
      BY <1>1, <2>2 DEF IsFreelist
    <3>2. i + 1 \in 1..(n + 1) /\ t[i + 1] = x
      BY <1>1, <1>5, <3>1
    <3>3. QED
      BY <3>2
  <2>3. QED
    BY <1>3, <2>1, <2>2
<1>12. IsFreelist(t, Len(t))'
  BY <1>1, <1>2, <1>5, <1>9, <1>10, <1>11 DEF IsFreelist
<1>13. QED
  BY <1>2, <1>3, <1>4, <1>6, <1>12 DEF Spells

LEMMA PutFreelist ==
  ASSUME TypeOK, LentOnce, FreelistHoldsTheRest, NEW bid \in Bids, Put(bid)
  PROVE  FreelistHoldsTheRest'
<1>1. PICK s : Spells(s) /\ Len(s) = Cardinality(Free)
  BY FreelistSpelled
<1>2. PICK t : t = <<bid>> \o s /\ Spells(t)'
  BY <1>1, PutSpells
<1>3. Cardinality(Free') = Cardinality(Free) + 1
  BY <1>1, PutSpells, FreeCount, FS_AddElement
<1>4. Len(t) = Cardinality(Free')
  BY <1>1, <1>2, <1>3 DEF Spells
<1>5. PICK m : m = Len(t) /\ m = Cardinality(Free')
  BY <1>4
<1>6. t \in Seq(Free')
  BY <1>2 DEF Spells
<1>7. t \in [1..Len(t) -> Free']
  BY <1>6
<1>8. IsFreelist(t, m)'
  BY <1>2, <1>5 DEF Spells, IsFreelist
<1>9. Cardinality(Free') = m /\ t \in [1..m -> Free']
  BY <1>5, <1>7
<1>10. QED
  BY <1>8, <1>9 DEF FreelistHoldsTheRest

\* What the head of the list says about the free buffers.
LEMMA HeadFree ==
  ASSUME FreelistHoldsTheRest
  PROVE  IF freelist_head = NULL THEN Free = {} ELSE freelist_head \in Free
<1>1. PICK n \in Nat : /\ n = Cardinality(Free)
                       /\ \E s \in [1..n -> Free] : IsFreelist(s, n)
  BY FreeCount DEF FreelistHoldsTheRest
<1>2. PICK s \in [1..n -> Free] : IsFreelist(s, n)
  BY <1>1
<1>3. CASE n = 0
  <2>1. Free = {}
    BY <1>1, <1>3, FreeCount, FS_EmptySet
  <2>2. QED
    BY <1>2, <1>3, <2>1 DEF IsFreelist
<1>4. CASE n > 0
  BY <1>2, <1>4, NullAssumption DEF IsFreelist, Free
<1>5. QED
  BY <1>3, <1>4

LEMMA OneBorrower ==
  TypeOK /\ FreelistHoldsTheRest /\ LentOnce /\ [Next]_vars => LentOnce'
<1>. SUFFICES ASSUME TypeOK, FreelistHoldsTheRest, LentOnce, [Next]_vars
              PROVE  LentOnce'
  OBVIOUS
<1>1. CASE PopEmpty \/ UNCHANGED vars
  BY <1>1 DEF PopEmpty, vars, LentOnce
<1>2. CASE PopHead
  <2>1. freelist_head \in Bids /\ out[freelist_head] = 0
    BY <1>2, HeadFree DEF PopHead, Free, held, TypeOK
  <2>2. QED
    BY <1>2, <2>1 DEF PopHead, TypeOK, LentOnce
<1>3. ASSUME NEW bid \in Bids, Put(bid) PROVE LentOnce'
  BY <1>3 DEF Put, TypeOK, LentOnce
<1>4. QED
  BY <1>1, <1>2, <1>3 DEF Next

LEMMA FreelistKept ==
  TypeOK /\ LentOnce /\ FreelistHoldsTheRest /\ [Next]_vars => FreelistHoldsTheRest'
<1>. SUFFICES ASSUME TypeOK, LentOnce, FreelistHoldsTheRest, [Next]_vars
              PROVE  FreelistHoldsTheRest'
  OBVIOUS
<1>1. CASE PopEmpty \/ UNCHANGED vars
  <2>1. UNCHANGED <<freelist_head, next, out>>
    BY <1>1 DEF PopEmpty, vars
  <2>2. Free' = Free
    BY <2>1 DEF Free, held
  <2>3. ASSUME NEW s, NEW n, IsFreelist(s, n) PROVE IsFreelist(s, n)'
    BY <2>1, <2>2, <2>3 DEF IsFreelist
  <2>4. QED
    BY <2>2, <2>3 DEF FreelistHoldsTheRest
<1>2. CASE PopHead
  BY <1>2, PopFreelist
<1>3. ASSUME NEW bid \in Bids, Put(bid) PROVE FreelistHoldsTheRest'
  BY <1>3, PutFreelist
<1>4. QED
  BY <1>1, <1>2, <1>3 DEF Next

\* The list and its borrowers: neither part is inductive without the other, for
\* a pop lends a free buffer only if the list is right, and a put leaves
\* nobody with the buffer only if one caller had it.
LEMMA ListAndBorrowers == Spec => [](FreelistHoldsTheRest /\ LentOnce)
<1>1. Init => LentOnce
  BY DEF Init, LentOnce
<1>2. QED
  BY <1>1, InitFreelist, FreelistKept, OneBorrower, TypeCorrect, PTL DEF Spec

\* The list that starts at freelist_head holds exactly the buffers that are
\* not out, each once, whatever was popped and put back before and in
\* whatever order (appctx.c:80-93).
THEOREM FreelistCorrect == Spec => []FreelistHoldsTheRest
  BY ListAndBorrowers, PTL

\* The linked list keeps the lender's promise with every step: a bufpool_pop
\* lends a buffer that is not out, or returns NULL when all are, and a
\* bufpool_put leaves nobody with the buffer (appctx.c:80-93).
THEOREM PoolLends == Spec => LendsOnce
<1>1. Init => Lending!Init
  BY InitFree, NullAssumption DEF Init, Lending!Init
<1>2. ASSUME TypeOK, FreelistHoldsTheRest, PopEmpty PROVE Lending!Refuse
  <2>1. held' = held /\ held = Bids
    BY <1>2, HeadFree DEF PopEmpty, TypeOK, Free, held
  <2>2. QED
    BY <1>2, <2>1 DEF PopEmpty, Lending!Refuse
<1>3. ASSUME TypeOK, FreelistHoldsTheRest, PopHead
      PROVE  regbuf' \in Bids /\ Lending!Lend(regbuf')
  <2>1. freelist_head \in Bids /\ freelist_head \notin held /\ regbuf' = freelist_head
    BY <1>3, HeadFree DEF PopHead, Free
  <2>2. QED
    BY <1>3, <2>1, PopHeld, NullAssumption DEF Lending!Lend
<1>4. ASSUME TypeOK, LentOnce, NEW bid \in Bids, Put(bid) PROVE Lending!Return(bid)
  BY <1>4, PutHeld DEF Put, Lending!Return
<1>. DEFINE Step == /\ PopHead => Lending!Lend(regbuf')
                    /\ PopEmpty => Lending!Refuse
                    /\ \A bid \in Bids : Put(bid) => Lending!Return(bid)
<1>5. TypeOK /\ FreelistHoldsTheRest /\ LentOnce => Step
  BY <1>2, <1>3, <1>4
<1>6. /\ TypeOK /\ FreelistHoldsTheRest /\ LentOnce /\ [Next]_vars
      => [Lending!Next]_(Lending!vars)
  <2>1. TypeOK /\ FreelistHoldsTheRest /\ LentOnce /\ Next => Lending!Next
    BY <1>2, <1>3, <1>4 DEF Next, Lending!Next
  <2>2. UNCHANGED vars => UNCHANGED Lending!vars
    BY DEF vars, Lending!vars, held
  <2>3. QED
    BY <2>1, <2>2
<1>7. QED
  BY <1>1, <1>5, <1>6, TypeCorrect, ListAndBorrowers, PTL
     DEF Spec, LendsOnce, Lending!Spec

-----------------------------------------------------------------------------
\* What a step does to the list that s is.
StackStep(s) ==
  \/ s = <<>> /\ regbuf' = NULL /\ Spells(s)'                      \* refuse
  \/ s # <<>> /\ regbuf' = Head(s) /\ Spells(Tail(s))'             \* pop
  \/ \E bid \in held : Spells(<<bid>> \o s)' /\ UNCHANGED regbuf   \* push

\* The linked list is a stack: bufpool_init stacks the buffers up with the
\* last on top, bufpool_pop takes the top and returns NULL only from the
\* empty stack, bufpool_put puts a buffer that is out on top, and nothing
\* else moves.  This is why a sequence stands for it in the composed server
\* (free in module Server, appctx.c:70-93).
THEOREM ListIsAStack ==
  Spec => /\ Spells([i \in 1..Entries |-> Entries - i])
          /\ [][\A s : Spells(s) => StackStep(s)]_vars
<1>1. ASSUME TypeOK, LentOnce, Next, NEW s, Spells(s) PROVE StackStep(s)
  <2>1. CASE PopEmpty
    <3>1. UNCHANGED <<freelist_head, next, out>> /\ Free' = Free
      BY <2>1 DEF PopEmpty, Free, held
    <3>2. Spells(s)'
      BY <1>1, <3>1 DEF Spells, IsFreelist
    <3>3. Len(s) = 0
      <4>. SUFFICES ASSUME Len(s) # 0 PROVE FALSE
        OBVIOUS
      <4>1. s[1] \in Free /\ freelist_head = s[1]
        BY <1>1 DEF Spells, IsFreelist
      <4>2. QED
        BY <2>1, <4>1, NullAssumption DEF PopEmpty, Free
    <3>4. s = <<>>
      BY <1>1, <3>3 DEF Spells
    <3>5. QED
      BY <2>1, <3>2, <3>4 DEF StackStep, PopEmpty
  <2>2. CASE PopHead
    BY <1>1, <2>2, PopSpells DEF StackStep
  <2>3. ASSUME NEW bid \in Bids, Put(bid) PROVE StackStep(s)
    BY <1>1, <2>3, PutSpells DEF StackStep, Put
  <2>4. QED
    BY <1>1, <2>1, <2>2, <2>3 DEF Next
<1>2. TypeOK /\ LentOnce /\ [Next]_vars => [\A s : Spells(s) => StackStep(s)]_vars
  BY <1>1
<1>3. QED
  BY <1>2, InitSpells, TypeCorrect, ListAndBorrowers, PTL DEF Spec
=============================================================================
