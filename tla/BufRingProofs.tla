--------------------------- MODULE BufRingProofs ---------------------------
(***************************************************************************)
(* Proofs about the ring of receive buffers, for every number of buffers:  *)
(* the slots are accounted for, and a buffer that the ring has lost is     *)
(* lost for good.                                                          *)
(***************************************************************************)
EXTENDS BufRing, TLAPS

\* Positions counted modulo Entries are slots.
LEMMA ModSlots == \A n \in Int : n % Entries \in Slots
  BY EntriesAssumption DEF Slots

\* Adding a buffer to the ring writes one slot.
LEMMA AddType ==
  ASSUME TypeOK, NEW bid \in Bids
  PROVE  RingAdd(bid, bid) \in [Slots -> Bids]
  BY DEF TypeOK, RingAdd

\* The types alone do not keep avail within the ring: the count of the
\* unhandled completions does.
Inv == TypeOK /\ SlotsAccountedFor

LEMMA InitInv == Init => Inv
<1>. SUFFICES ASSUME Init PROVE Inv
  OBVIOUS
<1>1. Entries % Entries \in Slots
  BY ModSlots, EntriesAssumption
<1>2. QED
  BY <1>1, EntriesAssumption DEF Init, Inv, TypeOK, SlotsAccountedFor, Slots, Bids

LEMMA NextInv == Inv /\ [Next]_vars => Inv'
<1>. SUFFICES ASSUME Inv, [Next]_vars PROVE Inv'
  OBVIOUS
<1>. USE DEF Inv, SlotsAccountedFor
<1>1. CASE KernelReceive
  <2>1. slot[HeadSlot] \in Bids
    <3>1. tail - avail \in Int
      BY EntriesAssumption DEF TypeOK, Slots
    <3>2. HeadSlot \in Slots
      BY <3>1, ModSlots DEF HeadSlot
    <3>3. QED
      BY <3>2 DEF TypeOK
  <2>2. received' \in Seq(Bids) /\ Len(received') = Len(received) + 1
    BY <1>1, <2>1 DEF KernelReceive, TypeOK
  <2>3. QED
    BY <1>1, <2>2 DEF KernelReceive, TypeOK
<1>2. CASE Repost
  <2>. DEFINE bid == Head(received)
  <2>1. bid \in Bids /\ received' \in Seq(Bids) /\ Len(received') = Len(received) - 1
        /\ Len(received) > 0
    BY <1>2 DEF Repost, TypeOK
  <2>2. slot' \in [Slots -> Bids]
    BY <1>2, <2>1, AddType DEF Repost
  <2>3. tail' \in Slots
    BY <1>2, ModSlots DEF Repost, RingAdvance, TypeOK, Slots
  <2>4. QED
    BY <1>2, <2>1, <2>2, <2>3, EntriesAssumption DEF Repost, RingAdvance, TypeOK
<1>3. CASE UNCHANGED vars
  BY <1>3 DEF vars, TypeOK
<1>4. QED
  BY <1>1, <1>2, <1>3 DEF Next

\* Slots, ids and counters stay in range, and every slot is visible to the
\* kernel or stands for a completion to be handled: appctx_handle_recvmsg
\* (appctx.c:151-157) advances the tail once per message.
THEOREM SlotsAlwaysAccountedFor == Spec => [](TypeOK /\ SlotsAccountedFor)
<1>1. Spec => []Inv
  BY InitInv, NextInv, PTL DEF Spec
<1>2. QED
  BY <1>1, PTL DEF Inv

\* The same of the types alone.
THEOREM RingTypes == Spec => []TypeOK
<1>1. Spec => []Inv
  BY InitInv, NextInv, PTL DEF Spec
<1>2. QED
  BY <1>1, PTL DEF Inv

\* A buffer that no slot and no unhandled completion names never comes back:
\* the handler only puts back the id of the completion it handles, and the
\* kernel only reports ids it finds in slots.
THEOREM LostForGood == Spec => LostBuffersStayLost
<1>1. Inv /\ [Next]_vars =>
        [Range(slot') \cup Unhandled' \subseteq Range(slot) \cup Unhandled]_vars
  <2>. SUFFICES ASSUME Inv, Next
                PROVE  Range(slot') \cup Unhandled' \subseteq Range(slot) \cup Unhandled
    OBVIOUS
  <2>1. slot \in [Slots -> Bids] /\ received \in Seq(Bids) /\ tail \in Int /\ avail \in Int
    BY DEF Inv, TypeOK, Slots
  <2>2. CASE KernelReceive
    <3>1. slot[HeadSlot] \in Range(slot)
      BY <2>1, ModSlots DEF HeadSlot, Range
    <3>2. Unhandled' \subseteq Unhandled \cup {slot[HeadSlot]}
      BY <2>1, <2>2 DEF KernelReceive, Unhandled, Range
    <3>3. QED
      BY <2>2, <3>1, <3>2 DEF KernelReceive
  <2>3. CASE Repost
    <3>. DEFINE bid == Head(received)
    <3>1. bid \in Unhandled /\ Unhandled' \subseteq Unhandled
      BY <2>1, <2>3 DEF Repost, Unhandled, Range
    <3>2. Range(slot') \subseteq Range(slot) \cup {bid}
      BY <2>1, <2>3 DEF Repost, RingAdd, Range
    <3>3. QED
      BY <3>1, <3>2
  <2>4. QED
    BY <2>2, <2>3 DEF Next
<1>2. QED
  BY <1>1, InitInv, NextInv, PTL DEF Spec, LostBuffersStayLost
=============================================================================
