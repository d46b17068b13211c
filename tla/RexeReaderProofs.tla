-------------------------- MODULE RexeReaderProofs --------------------------
(***************************************************************************)
(* Proofs about the Rust front end, for every size of the buffer and every *)
(* input, also one that is delivered in parts of characters: what it       *)
(* prints was typed.                                                       *)
(***************************************************************************)
EXTENDS RexeReader, SequenceTheorems, TLAPS

\* What the variables hold.
ReaderTypes ==
  /\ pc \in {"start", "wait", "got", "seen", "printed", "crashed"}
  /\ typed \in Seq(Bytes)
  /\ ended \in BOOLEAN
  /\ request \in {"none", "queued", "reading", "done"}
  /\ slot \in Int
  /\ log_buf \in [1..BufSize -> Bytes]
  /\ cqe \in {"null", "slot"}
  /\ printed \in Seq(Bytes)

\* The completed read failed, or has put a prefix of the input into the buffer.
ReadPrefix ==
  \/ slot = -1
  \/ /\ slot \in 0..BufSize /\ slot <= Len(typed)
     /\ \A i \in 1..slot : log_buf[i] = typed[i]
     /\ slot = 0 => ended

\* The pointer is set when the completion is there, and what follows looks at
\* that one.
ReaderInv ==
  /\ ReaderTypes
  /\ request = "done" => ReadPrefix
  /\ cqe = "slot" => request = "done"
  /\ pc = "start" => request = "none"
  /\ PrintsWhatWasTyped

-----------------------------------------------------------------------------
\* What typing a byte does to the input.
LEMMA Typing ==
  ASSUME typed \in Seq(Bytes), NEW b \in Bytes
  PROVE  /\ Append(typed, b) \in Seq(Bytes)
         /\ Len(Append(typed, b)) = Len(typed) + 1
         /\ \A i \in 1..Len(typed) : Append(typed, b)[i] = typed[i]
  OBVIOUS

\* What is a prefix of the input stays one.
LEMMA TypingPrefix ==
  ASSUME typed \in Seq(Bytes), printed \in Seq(Bytes), IsPrefix(printed, typed),
         NEW b \in Bytes
  PROVE  IsPrefix(printed, Append(typed, b))
  BY Typing DEF IsPrefix

LEMMA InitReader == Init => ReaderInv
<1>. SUFFICES ASSUME Init PROVE ReaderInv
  OBVIOUS
<1>1. ReaderTypes
  <2>1. log_buf \in [1..BufSize -> Bytes]
    BY DEF Init, Bytes
  <2>2. <<>> \in Seq(Bytes)
    OBVIOUS
  <2>3. ended \in BOOLEAN
    BY ZenonT(10) DEF Init
  <2>4. typed \in Seq(Bytes) /\ printed \in Seq(Bytes)
    BY <2>2 DEF Init
  <2>5. slot \in Int
    BY DEF Init
  <2>6. /\ pc \in {"start", "wait", "got", "seen", "printed", "crashed"}
        /\ request \in {"none", "queued", "reading", "done"}
        /\ cqe \in {"null", "slot"}
    BY DEF Init
  <2>7. QED
    BY <2>1, <2>3, <2>4, <2>5, <2>6 DEF ReaderTypes
<1>2. QED
  BY <1>1 DEF Init, ReaderInv, PrintsWhatWasTyped

\* What somebody types meanwhile disturbs nothing that was read.
LEMMA TypingReader ==
  ASSUME ReaderInv, NEW b \in Bytes, TypeByte(b)
  PROVE  ReaderInv'
<1>1. typed' = Append(typed, b)
      /\ UNCHANGED <<pc, ended, request, slot, log_buf, cqe, printed>>
  BY DEF TypeByte
<1>2. /\ typed \in Seq(Bytes) /\ typed' \in Seq(Bytes)
      /\ Len(typed) \in Nat /\ Len(typed) <= Len(typed')
      /\ \A i \in 1..Len(typed) : typed'[i] = typed[i]
  BY <1>1, Typing DEF ReaderInv, ReaderTypes
<1>3. ReaderTypes'
  BY <1>1, <1>2 DEF ReaderInv, ReaderTypes
<1>4. request = "done" => ReadPrefix'
  BY <1>1, <1>2, ReaderAssumption DEF ReaderInv, ReadPrefix
<1>5. PrintsWhatWasTyped'
  BY <1>1, <1>2, TypingPrefix DEF ReaderInv, ReaderTypes, PrintsWhatWasTyped
<1>6. QED
  BY <1>1, <1>3, <1>4, <1>5 DEF ReaderInv

\* A read completes with a prefix of the input.
LEMMA CompleteReader ==
  ASSUME ReaderInv, CompleteRead
  PROVE  ReaderInv'
<1>. DEFINE n == IF Len(typed) < BufSize THEN Len(typed) ELSE BufSize
<1>1. /\ request = "reading" /\ request' = "done" /\ slot' = n
      /\ log_buf' = [i \in 1..BufSize |-> IF i <= n THEN typed[i] ELSE log_buf[i]]
      /\ typed # <<>> \/ ended
      /\ UNCHANGED <<pc, typed, ended, cqe, printed>>
  BY DEF CompleteRead
<1>2. typed \in Seq(Bytes) /\ Len(typed) \in Nat /\ BufSize \in Nat \ {0}
  BY ReaderAssumption DEF ReaderInv, ReaderTypes
<1>3. n \in 0..BufSize /\ n <= Len(typed) /\ (n = 0 <=> typed = <<>>)
      /\ (n = BufSize \/ n = Len(typed))
  BY <1>2
<1>. HIDE DEF n
<1>4. ReaderTypes'
  <2>1. \A i \in 1..BufSize : i <= n => typed[i] \in Bytes
    BY <1>2, <1>3
  <2>2. log_buf' \in [1..BufSize -> Bytes]
    BY <1>1, <2>1 DEF ReaderInv, ReaderTypes
  <2>3. slot' \in Int
    BY <1>1, <1>3
  <2>4. QED
    BY <1>1, <2>2, <2>3 DEF ReaderInv, ReaderTypes
<1>5. ReadPrefix'
  <2>1. \A i \in 1..slot' : i \in 1..BufSize /\ i <= n
    BY <1>1, <1>2, <1>3
  <2>2. \A i \in 1..slot' : log_buf'[i] = typed[i]
    BY <1>1, <2>1
  <2>3. QED
    BY <1>1, <1>3, <2>2 DEF ReadPrefix
<1>6. cqe = "null"
  BY <1>1 DEF ReaderInv, ReaderTypes
<1>7. QED
  BY <1>1, <1>4, <1>5, <1>6
     DEF ReaderInv, PrintsWhatWasTyped

-----------------------------------------------------------------------------
\* The slice is what was typed first.
LEMMA SliceTyped ==
  ASSUME ReaderInv, cqe = "slot", slot >= 0
  PROVE  /\ Slice \in Seq(Bytes) /\ Len(Slice) = slot /\ slot \in 0..BufSize
         /\ slot <= Len(typed)
         /\ \A i \in 1..slot : Slice[i] = typed[i]
         /\ IsPrefix(Slice, typed)
<1>1. ReadPrefix /\ slot \in 0..BufSize /\ slot <= Len(typed)
      /\ \A i \in 1..slot : log_buf[i] = typed[i]
  BY DEF ReaderInv, ReadPrefix
<1>2. log_buf \in Seq(Bytes) /\ Len(log_buf) = BufSize
  BY ReaderAssumption DEF ReaderInv, ReaderTypes
<1>3. typed \in Seq(Bytes)
  BY DEF ReaderInv, ReaderTypes
<1>4. Slice \in Seq(Bytes) /\ Len(Slice) = slot
      /\ \A i \in 1..slot : Slice[i] = log_buf[i]
  BY <1>1, <1>2 DEF Slice
<1>5. IsPrefix(Slice, typed)
  <2>1. SubSeq(Slice, 1, slot) \in Seq(Bytes) /\ SubSeq(typed, 1, slot) \in Seq(Bytes)
        /\ Len(SubSeq(Slice, 1, slot)) = slot /\ Len(SubSeq(typed, 1, slot)) = slot
    BY <1>1, <1>3, <1>4
  <2>2. \A i \in 1..slot : SubSeq(Slice, 1, slot)[i] = SubSeq(typed, 1, slot)[i]
    BY <1>1, <1>3, <1>4
  <2>3. SubSeq(Slice, 1, slot) = SubSeq(typed, 1, slot)
    BY <2>1, <2>2, SeqEqual
  <2>4. QED
    BY <1>1, <1>4, <2>3 DEF IsPrefix
<1>6. QED
  BY <1>1, <1>4, <1>5

LEMMA PrintReader ==
  ASSUME ReaderInv, PrintLine
  PROVE  ReaderInv'
<1>1. UNCHANGED <<typed, ended, request, slot, log_buf, cqe>>
  BY DEF PrintLine
<1>2. CASE cqe = "slot" /\ slot >= 0 /\ Utf8(Slice)
  <2>1. pc' = "printed" /\ printed' = Slice
    BY <1>2 DEF PrintLine
  <2>2. Slice \in Seq(Bytes) /\ Len(Slice) = slot /\ IsPrefix(Slice, typed)
    BY <1>2, SliceTyped
  <2>3. Slice = <<>> => ended
    BY <1>2, <2>2 DEF ReaderInv, ReadPrefix
  <2>4. PrintsWhatWasTyped'
    BY <1>1, <1>2, <2>1, <2>2, <2>3 DEF PrintsWhatWasTyped, IsPrefix, Utf8, Contains
  <2>5. QED
    BY <1>1, <2>1, <2>2, <2>4
       DEF ReaderInv, ReaderTypes, ReadPrefix
<1>3. CASE ~(cqe = "slot" /\ slot >= 0 /\ Utf8(Slice))
  <2>1. pc' = "crashed" /\ printed' = printed
    BY <1>3 DEF PrintLine
  <2>2. QED
    BY <1>1, <2>1 DEF ReaderInv, ReaderTypes, ReadPrefix, PrintsWhatWasTyped
<1>4. QED
  BY <1>2, <1>3

LEMMA NextReader == ReaderInv /\ [Next]_vars => ReaderInv'
<1>. SUFFICES ASSUME ReaderInv, [Next]_vars PROVE ReaderInv'
  OBVIOUS
<1>. USE DEF ReaderInv, ReaderTypes, ReadPrefix, PrintsWhatWasTyped
<1>1. CASE EndInput
  BY <1>1 DEF EndInput
<1>2. CASE Poll
  BY <1>2 DEF Poll
<1>3. CASE FailRead
  BY <1>3 DEF FailRead
<1>4. CASE Interrupted
  BY <1>4 DEF Interrupted
<1>5. CASE SubmitRead
  BY <1>5 DEF SubmitRead
<1>6. CASE WaitCqe
  BY <1>6 DEF WaitCqe
<1>7. CASE CqeSeen
  BY <1>7 DEF CqeSeen
<1>8. CASE UNCHANGED vars
  BY <1>8 DEF vars
<1>9. QED
  BY <1>1, <1>2, <1>3, <1>4, <1>5, <1>6, <1>7, <1>8,
     TypingReader, CompleteReader, PrintReader DEF Next, Program

\* What is printed is the beginning of what was typed, in whole characters, and
\* nothing of what the buffer held before (main.rs:44-50): the pointer is only
\* used when the completion is there, and the buffer then holds what the
\* completion says.
THEOREM PrintsTheInput == Spec => []PrintsWhatWasTyped
<1>1. ReaderInv => PrintsWhatWasTyped
  BY DEF ReaderInv
<1>2. QED
  BY <1>1, InitReader, NextReader, PTL DEF Spec
=============================================================================
