---------------------------- MODULE LayoutProofs ----------------------------
(***************************************************************************)
(* Proofs about Layout: when the repr(C) rule lays a set of declarations   *)
(* out as asserted, without running it, and that those of bindings.rs are  *)
(* such a set.                                                             *)
(***************************************************************************)
EXTENDS Layout, TLAPS

\* Rounding up never loses ground.
LEMMA RoundUpGrows ==
  ASSUME NEW n \in Nat, NEW align \in Nat \ {0}
  PROVE  RoundUp(n, align) \in Nat /\ RoundUp(n, align) >= n
<1>1. n % align \in 0..(align - 1)
  OBVIOUS
<1> QED
  BY <1>1 DEF RoundUp

\* What a field of a declaration is.
LEMMA FieldType ==
  ASSUME NEW t \in Types, NEW i \in 1..Len(t.fields)
  PROVE  /\ t.fields \in Seq(Fields)
         /\ Len(t.fields) \in Nat
         /\ t.fields[i].size \in Nat
         /\ t.fields[i].align \in Nat \ {0}
<1>1. t.fields \in Seq(Fields) /\ Len(t.fields) \in Nat
  BY TypesAssumption
<1>2. t.fields[i] \in Fields
  BY <1>1
<1>3. t.fields[i].size \in Nat /\ t.fields[i].align \in Nat \ {0}
  BY <1>2 DEF Fields
<1> QED
  BY <1>1, <1>3

-----------------------------------------------------------------------------
\* The offsets are naturals and there is one for each field placed.
LEMMA LayoutTypes == Spec => []TypeOK
<1>1. Init => TypeOK
  <2> SUFFICES ASSUME Init PROVE TypeOK
    OBVIOUS
  <2>1. Len(type.fields) \in Nat
    BY TypesAssumption DEF Init
  <2> QED
    BY <2>1 DEF Init, TypeOK
<1>2. TypeOK /\ [Next]_vars => TypeOK'
  <2> SUFFICES ASSUME TypeOK, [Next]_vars PROVE TypeOK'
    OBVIOUS
  <2>1. CASE PlaceField
    <3> DEFINE f == type.fields[Len(offs) + 1]
               at == NextOffset(f)
    <3>0. Len(type.fields) \in Nat /\ Len(offs) \in Nat
      BY TypesAssumption DEF TypeOK
    <3>1. Len(offs) + 1 \in 1..Len(type.fields)
      BY <2>1, <3>0 DEF PlaceField, TypeOK
    <3>2. f.size \in Nat /\ f.align \in Nat \ {0}
      BY <3>1, FieldType DEF TypeOK
    <3>3. AlignOf(f) \in Nat \ {0}
      BY <3>2 DEF AlignOf
    <3>4. at \in Nat
      <4> HIDE DEF f
      <4> QED BY <3>3, RoundUpGrows DEF NextOffset, TypeOK
    <3>5. /\ offs' = Append(offs, at)
          /\ end' = IF at + f.size > end THEN at + f.size ELSE end
          /\ widest' = IF AlignOf(f) > widest THEN AlignOf(f) ELSE widest
          /\ type' = type
      BY <2>1 DEF PlaceField
    <3> HIDE DEF f, at
    <3>6. offs' \in Seq(Nat) /\ Len(offs') = Len(offs) + 1
      BY <3>4, <3>5 DEF TypeOK
    <3>7. end' \in Nat /\ widest' \in Nat \ {0}
      BY <3>2, <3>3, <3>4, <3>5 DEF TypeOK
    <3> QED
      BY <3>1, <3>5, <3>6, <3>7 DEF TypeOK
  <2>2. CASE UNCHANGED vars
    BY <2>2 DEF vars, TypeOK
  <2> QED
    BY <2>1, <2>2 DEF Next
<1> QED
  BY <1>1, <1>2, PTL DEF Spec

-----------------------------------------------------------------------------
(***************************************************************************)
(* The assertions of a declaration taken together, without the algorithm:  *)
(* offsets o[1], o[2], ... for its fields and, after them, its size, each  *)
(* the lowest that the C ABI allows.  A set of declarations whose          *)
(* assertions read so is laid out as asserted.                             *)
(***************************************************************************)
FieldAlign(t, i) == IF t.packed THEN 1 ELSE t.fields[i].align

\* at is the first multiple of align that is not below n.
FirstFrom(n, align, at) == (at % align) = 0 /\ n <= at /\ at < n + align

\* Fields of a struct follow each other, and its size them.
InOrder(t, o) ==
  /\ o[1] = 0
  /\ \A i \in 1..Len(t.fields) :
       FirstFrom(o[i] + t.fields[i].size,
                 IF i = Len(t.fields) THEN t.align ELSE FieldAlign(t, i + 1),
                 o[i + 1])

\* Fields of a union share offset 0, and its size is that of the largest.
Shared(t, o) ==
  /\ \A i \in 1..Len(t.fields) : o[i] = 0 /\ t.fields[i].size <= t.size
  /\ \E i \in 1..Len(t.fields) : t.size < t.fields[i].size + t.align
  /\ (t.size % t.align) = 0

\* The alignment asserted is that of the strictest field.
Strictest(t) ==
  /\ t.align \in Nat \ {0}
  /\ \A i \in 1..Len(t.fields) : FieldAlign(t, i) <= t.align
  /\ t.align = 1 \/ \E i \in 1..Len(t.fields) : FieldAlign(t, i) = t.align

\* What is asserted of field f, and read through it, is right at offset at.
RightAt(t, f, at) ==
  /\ f.at \in {Anywhere, at}
  /\ at + f.view <= t.size
  /\ (at % f.viewAlign) = 0
  /\ (t.align % f.viewAlign) = 0

Promised(t, o) ==
  /\ o \in Seq(Nat) /\ Len(o) = Len(t.fields) + 1
  /\ o[Len(o)] = t.size
  /\ IF t.union THEN Shared(t, o) ELSE InOrder(t, o)
  /\ Strictest(t)
  /\ \A i \in 1..Len(t.fields) : RightAt(t, t.fields[i], o[i])

Consistent(t) == \E o : Promised(t, o)

-----------------------------------------------------------------------------
\* A remainder of a division by m is unique.
LEMMA OneRemainder ==
  ASSUME NEW m \in Nat \ {0}, NEW p \in Int, NEW q \in Int,
         NEW r \in 0..(m - 1), p * m = q * m + r
  PROVE  r = 0
<1> DEFINE d == p - q
<1>1. d \in Int /\ d * m = r
  OBVIOUS
<1> HIDE DEF d
<1>2. CASE d <= 0
  <2>1. d * m <= 0
    BY <1>1, <1>2
  <2> QED
    BY <1>1, <2>1
<1>3. CASE d >= 1
  <2>1. d * m >= m
    BY <1>1, <1>3
  <2> QED
    BY <1>1, <2>1
<1> QED
  BY <1>1, <1>2, <1>3

\* RoundUp goes to the first aligned offset.
LEMMA RoundUpIsFirst ==
  ASSUME NEW n \in Nat, NEW align \in Nat \ {0}, NEW at \in Nat,
         FirstFrom(n, align, at)
  PROVE  RoundUp(n, align) = at
<1> DEFINE r == n % align
           q == n \div align
           p == at \div align
<1>1. r \in 0..(align - 1) /\ q \in Int /\ n = q * align + r
  OBVIOUS
<1>2. p \in Int /\ at = p * align + (at % align)
  OBVIOUS
<1>3. at = p * align /\ n <= at /\ at < n + align
  BY <1>2 DEF FirstFrom
<1>4. RoundUp(n, align) = IF r = 0 THEN n ELSE n + (align - r)
  BY DEF RoundUp
<1> HIDE DEF r, q, p
<1>5. CASE r = 0
  <2>1. at - n \in 0..(align - 1) /\ p * align = q * align + (at - n)
    BY <1>1, <1>2, <1>3, <1>5
  <2>2. at - n = 0
    BY <2>1, <1>1, <1>2, OneRemainder
  <2> QED
    BY <2>2, <1>4, <1>5
<1>6. CASE r > 0
  <2> DEFINE up == n + (align - r)
  <2>1. up = (q + 1) * align /\ up \in Nat /\ q + 1 \in Int
    BY <1>1
  <2>2. CASE at >= up
    <3>1. at - up \in 0..(align - 1) /\ p * align = (q + 1) * align + (at - up)
      BY <1>1, <1>3, <2>1, <2>2
    <3>2. at - up = 0
      BY <3>1, <2>1, <1>2, OneRemainder
    <3> QED
      BY <3>2, <1>4, <1>6, <2>1
  <2>3. CASE at < up
    <3>1. at - n + r \in 0..(align - 1) /\ p * align = q * align + (at - n + r)
      BY <1>1, <1>3, <2>1, <2>3
    <3>2. at - n + r = 0
      BY <3>1, <1>1, <1>2, OneRemainder
    <3> QED
      BY <3>2, <1>1, <1>3, <1>6
  <2> QED
    BY <2>1, <2>2, <2>3
<1> QED
  BY <1>1, <1>5, <1>6

-----------------------------------------------------------------------------
\* The layout so far is the one promised, its end and its alignment those of
\* the fields placed: AssertionsHold, made inductive.
Follows(o) ==
  /\ Promised(type, o)
  /\ \A i \in 1..Len(offs) : offs[i] = o[i]
  /\ ~type.union =>
       end = IF Len(offs) = 0 THEN 0
             ELSE o[Len(offs)] + type.fields[Len(offs)].size
  /\ type.union =>
       /\ end <= type.size
       /\ \A i \in 1..Len(offs) : type.fields[i].size <= end
  /\ \A i \in 1..Len(offs) : FieldAlign(type, i) <= widest
  /\ widest = 1 \/ \E i \in 1..Len(offs) : FieldAlign(type, i) = widest

OnCourse == \E o : Follows(o)

\* The declarations that may be laid out assert nothing else.
AllConsistent == \A t \in Types : Consistent(t)

LEMMA CourseStarts == AllConsistent /\ Init => OnCourse
<1> SUFFICES ASSUME AllConsistent, Init PROVE OnCourse
  OBVIOUS
<1>1. PICK o : Promised(type, o)
  BY DEF Init, AllConsistent, Consistent
<1>2. type.union => 0 <= type.size
  BY <1>1 DEF Promised
<1>3. Len(offs) = 0
  BY DEF Init
<1>4. Follows(o)
  BY <1>1, <1>2, <1>3 DEF Init, Follows
<1> QED
  BY <1>4 DEF OnCourse

\* Where the next field goes is where it is promised.
LEMMA NextAsPromised ==
  ASSUME TypeOK, NEW o, Follows(o), Len(offs) < Len(type.fields)
  PROVE  NextOffset(type.fields[Len(offs) + 1]) = o[Len(offs) + 1]
<1> DEFINE k == Len(offs)
           n == k + 1
           f == type.fields[n]
<1>1. /\ type.fields \in Seq(Fields) /\ Len(type.fields) \in Nat /\ k \in Nat
      /\ type \in Types /\ end \in Nat
  BY TypesAssumption DEF TypeOK
<1>2. n \in 1..Len(type.fields)
  BY <1>1
<1>3. AlignOf(f) = FieldAlign(type, n) /\ AlignOf(f) \in Nat \ {0}
  BY <1>1, <1>2, FieldType DEF AlignOf, FieldAlign
<1>4. o \in Seq(Nat) /\ Len(o) = Len(type.fields) + 1
  BY DEF Follows, Promised
<1>5. o[n] \in Nat
  BY <1>1, <1>2, <1>4
<1>6. CASE type.union
  BY <1>2, <1>6 DEF Follows, Promised, Shared, NextOffset
<1>7. CASE ~type.union
  <2>1. InOrder(type, o)
    BY <1>7 DEF Follows, Promised
  <2>2. FirstFrom(end, AlignOf(f), o[n])
    <3>1. CASE k = 0
      <4>1. end = 0 /\ o[n] = 0
        BY <3>1, <1>7, <2>1 DEF Follows, InOrder
      <4>2. \A a \in Nat \ {0} : (0 % a) = 0
        OBVIOUS
      <4> QED
        BY <4>1, <4>2, <1>3 DEF FirstFrom
    <3>2. CASE k > 0
      <4>1. k \in 1..Len(type.fields) /\ k # Len(type.fields)
        BY <3>2, <1>1, <1>2
      <4>2. end = o[k] + type.fields[k].size
        BY <3>2, <1>1, <1>7 DEF Follows
      <4>3. FirstFrom(o[k] + type.fields[k].size, FieldAlign(type, k + 1),
                      o[k + 1])
        BY <4>1, <2>1 DEF InOrder
      <4> QED
        BY <4>2, <4>3, <1>3
    <3> QED
      BY <3>1, <3>2, <1>1
  <2>3. RoundUp(end, AlignOf(f)) = o[n]
    BY <2>2, <1>1, <1>3, <1>5, RoundUpIsFirst
  <2> QED
    BY <2>3, <1>7 DEF NextOffset
<1> QED
  BY <1>6, <1>7

LEMMA CourseKept == TypeOK /\ OnCourse /\ [Next]_vars => OnCourse'
<1> SUFFICES ASSUME TypeOK, OnCourse, [Next]_vars PROVE OnCourse'
  OBVIOUS
<1>1. PICK o : Follows(o)
  BY DEF OnCourse
<1>2. CASE PlaceField
  <2> DEFINE k == Len(offs)
             n == k + 1
             f == type.fields[n]
  <2>1. /\ type.fields \in Seq(Fields) /\ Len(type.fields) \in Nat
        /\ k \in Nat /\ k < Len(type.fields)
        /\ type \in Types /\ end \in Nat /\ widest \in Nat \ {0}
        /\ offs \in Seq(Nat)
    BY <1>2, TypesAssumption DEF TypeOK, PlaceField
  <2>2. n \in 1..Len(type.fields)
    BY <2>1
  <2>3. /\ AlignOf(f) = FieldAlign(type, n) /\ AlignOf(f) \in Nat \ {0}
        /\ f.size \in Nat
    BY <2>1, <2>2, FieldType DEF AlignOf, FieldAlign
  <2>4. o \in Seq(Nat) /\ Len(o) = Len(type.fields) + 1 /\ o[n] \in Nat
    <3>1. o \in Seq(Nat) /\ Len(o) = Len(type.fields) + 1
      BY <1>1 DEF Follows, Promised
    <3> QED
      BY <3>1, <2>1, <2>2
  <2>5. NextOffset(f) = o[n]
    BY <1>1, <2>1, NextAsPromised
  <2>6. /\ offs' = Append(offs, o[n])
        /\ end' = IF o[n] + f.size > end THEN o[n] + f.size ELSE end
        /\ widest' = IF AlignOf(f) > widest THEN AlignOf(f) ELSE widest
        /\ type' = type
    BY <1>2, <2>5 DEF PlaceField
  <2>7. /\ Len(offs') = n /\ offs'[n] = o[n]
        /\ \A i \in 1..k : offs'[i] = offs[i]
        /\ \A i \in 1..n : i \in 1..k \/ i = n
    <3>1. offs' = Append(offs, o[n]) /\ o[n] \in Nat /\ offs \in Seq(Nat)
      BY <2>1, <2>4, <2>6
    <3>2. Len(offs') = n /\ offs'[n] = o[n] /\ \A i \in 1..k : offs'[i] = offs[i]
      BY <3>1
    <3>3. \A i \in 1..n : i \in 1..k \/ i = n
      BY <2>1
    <3> QED
      BY <3>2, <3>3
  <2>8. Promised(type', o)
    BY <1>1, <2>6 DEF Follows
  <2>9. \A i \in 1..n : offs'[i] = o[i]
    BY <1>1, <2>7 DEF Follows
  <2>10. \A i \in 1..k : FieldAlign(type, i) \in Nat
    BY <2>1, FieldType DEF FieldAlign
  <2>11. \A i \in 1..n : FieldAlign(type, i) <= widest'
    <3>1. \A i \in 1..k : FieldAlign(type, i) <= widest
      BY <1>1 DEF Follows
    <3> QED
      BY <3>1, <2>1, <2>3, <2>6, <2>7, <2>10
  <2>12. widest' = 1 \/ \E i \in 1..n : FieldAlign(type, i) = widest'
    <3>1. widest = 1 \/ \E i \in 1..k : FieldAlign(type, i) = widest
      BY <1>1 DEF Follows
    <3>2. n \in 1..n /\ \A i \in 1..k : i \in 1..n
      BY <2>1
    <3> QED
      BY <3>1, <3>2, <2>3, <2>6
  <2>13. CASE type.union
    <3>1. Shared(type, o) /\ type.size \in Nat
      <4>1. Shared(type, o) /\ o[Len(o)] = type.size
        BY <2>13, <1>1 DEF Follows, Promised
      <4> QED
        BY <4>1, <2>1, <2>4
    <3>2. o[n] = 0 /\ f.size <= type.size
      BY <3>1, <2>2 DEF Shared
    <3>3. end <= type.size /\ \A i \in 1..k : type.fields[i].size <= end
      BY <2>13, <1>1 DEF Follows
    <3>4. end' <= type.size /\ end <= end' /\ f.size <= end' /\ end' \in Nat
      BY <3>1, <3>2, <3>3, <2>1, <2>3, <2>6
    <3>5. \A i \in 1..k : type.fields[i].size \in Nat
      BY <2>1, FieldType
    <3>6. \A i \in 1..n : type.fields[i].size <= end'
      BY <3>3, <3>4, <3>5, <2>1, <2>7
    <3>7. Follows(o)'
      BY <3>4, <3>6, <2>6, <2>7, <2>8, <2>9, <2>11, <2>12, <2>13 DEF Follows
    <3> QED
      BY <3>7 DEF OnCourse
  <2>14. CASE ~type.union
    <3>1. InOrder(type, o)
      BY <2>14, <1>1 DEF Follows, Promised
    <3>2. end <= o[n]
      <4>1. CASE k = 0
        BY <4>1, <2>14, <1>1, <2>4 DEF Follows
      <4>2. CASE k > 0
        <5>1. k \in 1..Len(type.fields)
          BY <4>2, <2>1
        <5>2. end = o[k] + type.fields[k].size
          BY <4>2, <2>1, <2>14, <1>1 DEF Follows
        <5> QED
          BY <5>1, <5>2, <3>1 DEF InOrder, FirstFrom
      <4> QED
        BY <4>1, <4>2, <2>1
    <3>3. end' = o[n] + f.size
      <4>1. end \in Nat /\ o[n] \in Nat /\ f.size \in Nat
        BY <2>1, <2>3, <2>4
      <4>2. end' = IF o[n] + f.size > end THEN o[n] + f.size ELSE end
        BY <2>6
      <4> HIDE DEF f, n
      <4> QED BY <3>2, <4>1, <4>2
    <3>4. Len(offs') # 0 /\ type'.fields[Len(offs')] = f
      BY <2>1, <2>6, <2>7
    <3>5. Follows(o)'
      BY <3>3, <3>4, <2>6, <2>7, <2>8, <2>9, <2>11, <2>12, <2>14 DEF Follows
    <3> QED
      BY <3>5 DEF OnCourse
  <2> QED
    BY <2>13, <2>14
<1>3. CASE UNCHANGED vars
  <2>1. Follows(o)'
    BY <1>1, <1>3 DEF Follows, vars
  <2> QED
    BY <2>1 DEF OnCourse
<1> QED
  BY <1>2, <1>3 DEF Next

\* A declaration that is laid out has the size and alignment promised.
LEMMA FinishedAsPromised ==
  ASSUME TypeOK, NEW o, Follows(o), LaidOut
  PROVE  SizeOf = type.size /\ widest = type.align
<1> DEFINE n == Len(type.fields)
<1>1. /\ n \in Nat /\ Len(offs) = n /\ end \in Nat /\ widest \in Nat \ {0}
      /\ type \in Types
  BY TypesAssumption DEF TypeOK, LaidOut
<1>2. /\ o \in Seq(Nat) /\ Len(o) = n + 1 /\ o[n + 1] = type.size
      /\ type.size \in Nat
  BY <1>1 DEF Follows, Promised
<1>3. \A i \in 1..n : FieldAlign(type, i) \in Nat
  BY <1>1, FieldType DEF FieldAlign
<1>4. Strictest(type) /\ type.align \in Nat \ {0}
  BY DEF Follows, Promised, Strictest
<1>5. widest = type.align
  <2>1. /\ \A i \in 1..n : FieldAlign(type, i) <= widest
        /\ widest = 1 \/ \E i \in 1..n : FieldAlign(type, i) = widest
    BY <1>1 DEF Follows
  <2>2. /\ \A i \in 1..n : FieldAlign(type, i) <= type.align
        /\ type.align = 1 \/ \E i \in 1..n : FieldAlign(type, i) = type.align
    BY <1>4 DEF Strictest
  <2>3. type.align <= widest
    BY <2>1, <2>2, <1>1
  <2>4. widest <= type.align
    BY <2>1, <2>2, <1>4
  <2> QED
    BY <2>3, <2>4, <1>1, <1>4
<1>6. FirstFrom(end, type.align, type.size)
  <2>1. CASE type.union
    <3>1. Shared(type, o) /\ end <= type.size
      BY <2>1 DEF Follows, Promised
    <3>2. PICK i \in 1..n : type.size < type.fields[i].size + type.align
      BY <3>1 DEF Shared
    <3>3. type.fields[i].size <= end /\ type.fields[i].size \in Nat
      BY <2>1, <1>1, FieldType DEF Follows
    <3>4. /\ end \in Nat /\ type.size \in Int /\ type.align \in Nat
          /\ type.fields[i].size <= end /\ type.fields[i].size \in Nat
      BY <3>3, <1>1, <1>2, <1>4
    <3>5. type.size < end + type.align
      BY <3>2, <3>4
    <3> QED
      BY <3>1, <3>5 DEF FirstFrom, Shared
  <2>2. CASE ~type.union
    <3>1. InOrder(type, o)
      BY <2>2 DEF Follows, Promised
    <3>2. CASE n = 0
      <4>1. end = 0 /\ type.size = 0
        BY <3>1, <3>2, <2>2, <1>1, <1>2 DEF Follows, InOrder
      <4>2. \A a \in Nat \ {0} : (0 % a) = 0
        OBVIOUS
      <4> QED
        BY <4>1, <4>2, <1>4 DEF FirstFrom
    <3>3. CASE n > 0
      <4>1. n \in 1..n
        BY <3>3, <1>1
      <4>2. end = o[n] + type.fields[n].size
        BY <3>3, <1>1, <2>2 DEF Follows
      <4>3. FirstFrom(o[n] + type.fields[n].size, type.align, o[n + 1])
        BY <4>1, <3>1 DEF InOrder
      <4> QED
        BY <4>2, <4>3, <1>2
    <3> QED
      BY <3>2, <3>3, <1>1
  <2> QED
    BY <2>1, <2>2
<1>7. RoundUp(end, type.align) = type.size
  BY <1>1, <1>2, <1>4, <1>6, RoundUpIsFirst
<1> QED
  BY <1>5, <1>7 DEF SizeOf

LEMMA CourseIsRight == TypeOK /\ OnCourse => AssertionsHold /\ ViewsFit
<1> SUFFICES ASSUME TypeOK, OnCourse PROVE AssertionsHold /\ ViewsFit
  OBVIOUS
<1>1. PICK o : Follows(o)
  BY DEF OnCourse
<1>2. /\ Len(offs) \in Nat /\ Len(type.fields) \in Nat
      /\ Len(offs) <= Len(type.fields)
  BY TypesAssumption DEF TypeOK
<1>3. \A i \in 1..Len(offs) :
        i \in 1..Len(type.fields) /\ RightAt(type, type.fields[i], offs[i])
  BY <1>1, <1>2 DEF Follows, Promised
<1>4. LaidOut => SizeOf = type.size /\ widest = type.align
  BY <1>1, FinishedAsPromised
<1>5. AssertionsHold
  BY <1>3, <1>4 DEF AssertionsHold, RightAt
<1>6. ViewsFit
  <2> HIDE DEF SizeOf
  <2> QED
    BY <1>3, <1>4 DEF ViewsFit, RightAt
<1> QED
  BY <1>5, <1>6

\* Declarations whose assertions are those of the C ABI are laid out as they
\* assert, whichever declarations they are.
THEOREM ConsistentIsRight ==
  AllConsistent => (Spec => [](AssertionsHold /\ ViewsFit))
<1>1. AllConsistent /\ Init => OnCourse
  BY CourseStarts
<1>2. TypeOK /\ OnCourse /\ [Next]_vars => OnCourse'
  BY CourseKept
<1>3. TypeOK /\ OnCourse => AssertionsHold /\ ViewsFit
  BY CourseIsRight
<1>4. ASSUME AllConsistent PROVE Spec => [](AssertionsHold /\ ViewsFit)
  <2>1. Init => OnCourse
    BY <1>1, <1>4
  <2> QED
    BY <2>1, <1>2, <1>3, LayoutTypes, PTL DEF Spec
<1> QED
  BY <1>4

-----------------------------------------------------------------------------
\* The declarations of bindings.rs, one by one: the sizes and alignments of
\* those that others contain, then the offsets that their assertions promise.
Sized(t, size, align) == t.size = size /\ t.align = align

LEMMA PartSizes ==
  /\ Sized(sigval, 8, 8)
  /\ Sized(siginfo_t__bindgen_ty_1__bindgen_ty_1, 8, 4)
  /\ Sized(siginfo_t__bindgen_ty_1__bindgen_ty_2, 16, 8)
  /\ Sized(siginfo_t__bindgen_ty_1__bindgen_ty_3, 16, 8)
  /\ Sized(siginfo_t__bindgen_ty_1__bindgen_ty_4, 32, 8)
  /\ Sized(siginfo_t__bindgen_ty_1__bindgen_ty_5__bindgen_ty_1__bindgen_ty_1,
           16, 8)
  /\ Sized(siginfo_t__bindgen_ty_1__bindgen_ty_5__bindgen_ty_1, 16, 8)
  /\ Sized(siginfo_t__bindgen_ty_1__bindgen_ty_5, 32, 8)
  /\ Sized(siginfo_t__bindgen_ty_1__bindgen_ty_6, 16, 8)
  /\ Sized(siginfo_t__bindgen_ty_1__bindgen_ty_7, 16, 8)
  /\ Sized(siginfo_t__bindgen_ty_1, 112, 8)
  /\ Sized(__kernel_timespec, 16, 8)
  /\ Sized(io_uring_sqe__bindgen_ty_1__bindgen_ty_1, 8, 4)
  /\ Sized(io_uring_sqe__bindgen_ty_1, 8, 8)
  /\ Sized(io_uring_sqe__bindgen_ty_2__bindgen_ty_1, 8, 4)
  /\ Sized(io_uring_sqe__bindgen_ty_2, 8, 8)
  /\ Sized(io_uring_sqe__bindgen_ty_3, 4, 4)
  /\ Sized(io_uring_sqe__bindgen_ty_4, 2, 1)
  /\ Sized(io_uring_sqe__bindgen_ty_5__bindgen_ty_1, 4, 2)
  /\ Sized(io_uring_sqe__bindgen_ty_5, 4, 4)
  /\ Sized(io_uring_sqe__bindgen_ty_6__bindgen_ty_1, 16, 8)
  /\ Sized(io_uring_sqe__bindgen_ty_6, 16, 8)
  /\ Sized(io_sqring_offsets, 40, 8)
  /\ Sized(io_cqring_offsets, 40, 8)
  /\ Sized(io_uring_probe_op, 8, 4)
  /\ Sized(io_uring_restriction__bindgen_ty_1, 1, 1)
  /\ Sized(io_uring_buf, 16, 8)
  /\ Sized(io_uring_buf_ring__bindgen_ty_1__bindgen_ty_1, 16, 8)
  /\ Sized(io_uring_buf_ring__bindgen_ty_1, 16, 8)
  /\ Sized(io_uring_sq, 104, 8)
  /\ Sized(io_uring_cq, 88, 8)
  /\ Sized(io_uring, 216, 8)
  /\ Sized(bufring_init_params_t, 6, 2)
  /\ Sized(bufpool_t, 32, 8)
  /\ Sized(userdata__bindgen_ty_1__bindgen_ty_1, 8, 4)
  /\ Sized(userdata__bindgen_ty_1, 8, 8)
BY DEF Sized, Struct, Union, PackedUnion, Declared, sigval,
  siginfo_t__bindgen_ty_1__bindgen_ty_1,
  siginfo_t__bindgen_ty_1__bindgen_ty_2,
  siginfo_t__bindgen_ty_1__bindgen_ty_3,
  siginfo_t__bindgen_ty_1__bindgen_ty_4,
  siginfo_t__bindgen_ty_1__bindgen_ty_5__bindgen_ty_1__bindgen_ty_1,
  siginfo_t__bindgen_ty_1__bindgen_ty_5__bindgen_ty_1,
  siginfo_t__bindgen_ty_1__bindgen_ty_5,
  siginfo_t__bindgen_ty_1__bindgen_ty_6,
  siginfo_t__bindgen_ty_1__bindgen_ty_7, siginfo_t__bindgen_ty_1,
  __kernel_timespec, io_uring_sqe__bindgen_ty_1__bindgen_ty_1,
  io_uring_sqe__bindgen_ty_1, io_uring_sqe__bindgen_ty_2__bindgen_ty_1,
  io_uring_sqe__bindgen_ty_2, io_uring_sqe__bindgen_ty_3,
  io_uring_sqe__bindgen_ty_4, io_uring_sqe__bindgen_ty_5__bindgen_ty_1,
  io_uring_sqe__bindgen_ty_5, io_uring_sqe__bindgen_ty_6__bindgen_ty_1,
  io_uring_sqe__bindgen_ty_6, io_sqring_offsets, io_cqring_offsets,
  io_uring_probe_op, io_uring_restriction__bindgen_ty_1, io_uring_buf,
  io_uring_buf_ring__bindgen_ty_1__bindgen_ty_1,
  io_uring_buf_ring__bindgen_ty_1, io_uring_sq, io_uring_cq, io_uring,
  bufring_init_params_t, bufpool_t, userdata__bindgen_ty_1__bindgen_ty_1,
  userdata__bindgen_ty_1

\* A declaration with its offsets is consistent.
LEMMA PromiseKept == ASSUME NEW t, NEW o, Promised(t, o) PROVE Consistent(t)
BY DEF Consistent

\* Types of the C library and of the kernel that liburing takes.
LEMMA SystemTypes ==
  \A t \in {iovec, __sigset_t, sockaddr, msghdr, cmsghdr, sigval,
    __kernel_timespec, open_how} :
    Consistent(t)
<1> USE DEF Promised, Shared, InOrder, FirstFrom, FieldAlign, Strictest,
      RightAt, Struct, Union, PackedUnion, Declared, F, V, Array, Scalar, u8,
      u16, u32, u64, ptr, Anywhere, Sized
<1>1. Promised(iovec, <<0, 8, 16>>)
  BY DEF iovec
<1>2. Promised(__sigset_t, <<0, 128>>)
  BY DEF __sigset_t
<1>3. Promised(sockaddr, <<0, 2, 16>>)
  BY DEF sockaddr
<1>4. Promised(msghdr, <<0, 8, 16, 24, 32, 40, 48, 56>>)
  BY DEF msghdr
<1>5. Promised(cmsghdr, <<0, 8, 12, 16, 16>>)
  BY DEF cmsghdr
<1>6. Promised(sigval, <<0, 0, 8>>)
  BY DEF sigval
<1>7. Promised(__kernel_timespec, <<0, 8, 16>>)
  BY DEF __kernel_timespec
<1>8. Promised(open_how, <<0, 8, 16, 24>>)
  BY DEF open_how
<1> HIDE DEF Promised
<1> QED
  BY <1>1, <1>2, <1>3, <1>4, <1>5, <1>6, <1>7, <1>8, PromiseKept

\* Siginfo_t and what it is made of.
LEMMA SiginfoTypes ==
  \A t \in {siginfo_t__bindgen_ty_1__bindgen_ty_1,
    siginfo_t__bindgen_ty_1__bindgen_ty_2,
    siginfo_t__bindgen_ty_1__bindgen_ty_3,
    siginfo_t__bindgen_ty_1__bindgen_ty_4,
    siginfo_t__bindgen_ty_1__bindgen_ty_5__bindgen_ty_1__bindgen_ty_1,
    siginfo_t__bindgen_ty_1__bindgen_ty_5__bindgen_ty_1,
    siginfo_t__bindgen_ty_1__bindgen_ty_5,
    siginfo_t__bindgen_ty_1__bindgen_ty_6,
    siginfo_t__bindgen_ty_1__bindgen_ty_7, siginfo_t__bindgen_ty_1, siginfo_t} :
    Consistent(t)
<1> USE DEF Promised, Shared, InOrder, FirstFrom, FieldAlign, Strictest,
      RightAt, Struct, Union, PackedUnion, Declared, F, V, Array, Scalar, u8,
      u16, u32, u64, ptr, Anywhere, Sized
<1>1. Promised(siginfo_t__bindgen_ty_1__bindgen_ty_1, <<0, 4, 8>>)
  BY DEF siginfo_t__bindgen_ty_1__bindgen_ty_1
<1>2. Promised(siginfo_t__bindgen_ty_1__bindgen_ty_2, <<0, 4, 8, 16>>)
  BY PartSizes DEF siginfo_t__bindgen_ty_1__bindgen_ty_2
<1>3. Promised(siginfo_t__bindgen_ty_1__bindgen_ty_3, <<0, 4, 8, 16>>)
  BY PartSizes DEF siginfo_t__bindgen_ty_1__bindgen_ty_3
<1>4. Promised(siginfo_t__bindgen_ty_1__bindgen_ty_4,
         <<0, 4, 8, 16, 24, 32>>)
  BY DEF siginfo_t__bindgen_ty_1__bindgen_ty_4
<1>5. Promised(siginfo_t__bindgen_ty_1__bindgen_ty_5__bindgen_ty_1__bindgen_ty_1,
         <<0, 8, 16>>)
  BY DEF siginfo_t__bindgen_ty_1__bindgen_ty_5__bindgen_ty_1__bindgen_ty_1
<1>6. Promised(siginfo_t__bindgen_ty_1__bindgen_ty_5__bindgen_ty_1,
         <<0, 0, 16>>)
  BY PartSizes DEF siginfo_t__bindgen_ty_1__bindgen_ty_5__bindgen_ty_1
<1>7. Promised(siginfo_t__bindgen_ty_1__bindgen_ty_5, <<0, 8, 16, 32>>)
  BY PartSizes DEF siginfo_t__bindgen_ty_1__bindgen_ty_5
<1>8. Promised(siginfo_t__bindgen_ty_1__bindgen_ty_6, <<0, 8, 16>>)
  BY DEF siginfo_t__bindgen_ty_1__bindgen_ty_6
<1>9. Promised(siginfo_t__bindgen_ty_1__bindgen_ty_7, <<0, 8, 12, 16>>)
  BY DEF siginfo_t__bindgen_ty_1__bindgen_ty_7
<1>10. Promised(siginfo_t__bindgen_ty_1, <<0, 0, 0, 0, 0, 0, 0, 0, 112>>)
  BY PartSizes DEF siginfo_t__bindgen_ty_1
<1>11. Promised(siginfo_t, <<0, 4, 8, 12, 16, 128>>)
  BY PartSizes DEF siginfo_t
<1> HIDE DEF Promised
<1> QED
  BY <1>1, <1>2, <1>3, <1>4, <1>5, <1>6, <1>7, <1>8, <1>9, <1>10, <1>11,
    PromiseKept

\* The entries of the two queues.
LEMMA SqeTypes ==
  \A t \in {io_uring_sqe__bindgen_ty_1__bindgen_ty_1,
    io_uring_sqe__bindgen_ty_1, io_uring_sqe__bindgen_ty_2__bindgen_ty_1,
    io_uring_sqe__bindgen_ty_2, io_uring_sqe__bindgen_ty_3,
    io_uring_sqe__bindgen_ty_4, io_uring_sqe__bindgen_ty_5__bindgen_ty_1,
    io_uring_sqe__bindgen_ty_5, io_uring_sqe__bindgen_ty_6__bindgen_ty_1,
    io_uring_sqe__bindgen_ty_6, io_uring_sqe, io_uring_cqe} :
    Consistent(t)
<1> USE DEF Promised, Shared, InOrder, FirstFrom, FieldAlign, Strictest,
      RightAt, Struct, Union, PackedUnion, Declared, F, V, Array, Scalar, u8,
      u16, u32, u64, ptr, Anywhere, Sized
<1>1. Promised(io_uring_sqe__bindgen_ty_1__bindgen_ty_1, <<0, 4, 8>>)
  BY DEF io_uring_sqe__bindgen_ty_1__bindgen_ty_1
<1>2. Promised(io_uring_sqe__bindgen_ty_1, <<0, 0, 0, 8>>)
  BY PartSizes DEF io_uring_sqe__bindgen_ty_1
<1>3. Promised(io_uring_sqe__bindgen_ty_2__bindgen_ty_1, <<0, 4, 8>>)
  BY DEF io_uring_sqe__bindgen_ty_2__bindgen_ty_1
<1>4. Promised(io_uring_sqe__bindgen_ty_2, <<0, 0, 0, 8>>)
  BY PartSizes DEF io_uring_sqe__bindgen_ty_2
<1>5. Promised(io_uring_sqe__bindgen_ty_3,
         <<0, 0, 0, 0, 0, 0, 0, 0, 0, 0, 0, 0, 0, 0, 0, 0, 0, 0, 0, 0, 0, 0,
           0, 4>>)
  BY DEF io_uring_sqe__bindgen_ty_3
<1>6. Promised(io_uring_sqe__bindgen_ty_4, <<0, 0, 2>>)
  BY DEF io_uring_sqe__bindgen_ty_4
<1>7. Promised(io_uring_sqe__bindgen_ty_5__bindgen_ty_1, <<0, 2, 4>>)
  BY DEF io_uring_sqe__bindgen_ty_5__bindgen_ty_1
<1>8. Promised(io_uring_sqe__bindgen_ty_5, <<0, 0, 0, 0, 4>>)
  BY PartSizes DEF io_uring_sqe__bindgen_ty_5
<1>9. Promised(io_uring_sqe__bindgen_ty_6__bindgen_ty_1, <<0, 8, 16>>)
  BY DEF io_uring_sqe__bindgen_ty_6__bindgen_ty_1
<1>10. Promised(io_uring_sqe__bindgen_ty_6, <<0, 0, 0, 0, 16>>)
  BY PartSizes DEF io_uring_sqe__bindgen_ty_6
<1>11. \E o : Promised(io_uring_sqe, o)
  <2> DEFINE o == <<0, 1, 2, 4, 8, 16, 24, 28, 32, 40, 42, 44, 48, 64>>
  <2>1. InOrder(io_uring_sqe, o)
    BY PartSizes DEF io_uring_sqe
  <2>2. Strictest(io_uring_sqe)
    BY PartSizes DEF io_uring_sqe
  <2>3. \A i \in 1..Len(io_uring_sqe.fields) :
          RightAt(io_uring_sqe, io_uring_sqe.fields[i], o[i])
    <3>1. \A i \in 1..Len(io_uring_sqe.fields) :
            io_uring_sqe.fields[i].view = 0 /\ io_uring_sqe.fields[i].viewAlign = 1
      BY DEF io_uring_sqe
    <3>2. /\ \A i \in 1..Len(io_uring_sqe.fields) :
               o[i] \in Nat /\ o[i] <= io_uring_sqe.size
          /\ io_uring_sqe.align \in Nat /\ io_uring_sqe.size \in Nat
      BY DEF io_uring_sqe
    <3>3. \A i \in 1..Len(io_uring_sqe.fields) :
            io_uring_sqe.fields[i].at \in {Anywhere, o[i]}
      BY DEF io_uring_sqe
    <3> HIDE DEF o, io_uring_sqe
    <3> QED
      BY <3>1, <3>2, <3>3
  <2>4. /\ o \in Seq(Nat) /\ Len(o) = Len(io_uring_sqe.fields) + 1
        /\ o[Len(o)] = io_uring_sqe.size /\ ~io_uring_sqe.union
    BY PartSizes DEF io_uring_sqe
  <2> HIDE DEF o, InOrder, Strictest, RightAt
  <2>5. Promised(io_uring_sqe, o)
    BY <2>1, <2>2, <2>3, <2>4
  <2> QED
    BY <2>5
<1>12. Promised(io_uring_cqe, <<0, 8, 12, 16, 16>>)
  BY DEF io_uring_cqe
<1> HIDE DEF Promised
<1> QED
  BY <1>1, <1>2, <1>3, <1>4, <1>5, <1>6, <1>7, <1>8, <1>9, <1>10, <1>11,
    <1>12, PromiseKept

\* What io_uring is set up and registered with.
LEMMA SetupTypes ==
  \A t \in {io_sqring_offsets, io_cqring_offsets, io_uring_params,
    io_uring_files_update, io_uring_region_desc, io_uring_mem_region_reg,
    io_uring_rsrc_register, io_uring_rsrc_update, io_uring_rsrc_update2,
    io_uring_probe_op, io_uring_probe, io_uring_restriction__bindgen_ty_1,
    io_uring_restriction, io_uring_clock_register, io_uring_clone_buffers} :
    Consistent(t)
<1> USE DEF Promised, Shared, InOrder, FirstFrom, FieldAlign, Strictest,
      RightAt, Struct, Union, PackedUnion, Declared, F, V, Array, Scalar, u8,
      u16, u32, u64, ptr, Anywhere, Sized
<1>1. Promised(io_sqring_offsets, <<0, 4, 8, 12, 16, 20, 24, 28, 32, 40>>)
  BY DEF io_sqring_offsets
<1>2. Promised(io_cqring_offsets, <<0, 4, 8, 12, 16, 20, 24, 28, 32, 40>>)
  BY DEF io_cqring_offsets
<1>3. Promised(io_uring_params, <<0, 4, 8, 12, 16, 20, 24, 28, 40, 80, 120>>)
  BY PartSizes DEF io_uring_params
<1>4. Promised(io_uring_files_update, <<0, 4, 8, 16>>)
  BY DEF io_uring_files_update
<1>5. Promised(io_uring_region_desc, <<0, 8, 16, 20, 24, 32, 64>>)
  BY DEF io_uring_region_desc
<1>6. Promised(io_uring_mem_region_reg, <<0, 8, 16, 32>>)
  BY DEF io_uring_mem_region_reg
<1>7. Promised(io_uring_rsrc_register, <<0, 4, 8, 16, 24, 32>>)
  BY DEF io_uring_rsrc_register
<1>8. Promised(io_uring_rsrc_update, <<0, 4, 8, 16>>)
  BY DEF io_uring_rsrc_update
<1>9. Promised(io_uring_rsrc_update2, <<0, 4, 8, 16, 24, 28, 32>>)
  BY DEF io_uring_rsrc_update2
<1>10. Promised(io_uring_probe_op, <<0, 1, 2, 4, 8>>)
  BY DEF io_uring_probe_op
<1>11. Promised(io_uring_probe, <<0, 1, 2, 4, 16, 16>>)
  BY PartSizes DEF io_uring_probe
<1>12. Promised(io_uring_restriction__bindgen_ty_1, <<0, 0, 0, 1>>)
  BY DEF io_uring_restriction__bindgen_ty_1
<1>13. Promised(io_uring_restriction, <<0, 2, 3, 4, 16>>)
  BY PartSizes DEF io_uring_restriction
<1>14. Promised(io_uring_clock_register, <<0, 4, 16>>)
  BY DEF io_uring_clock_register
<1>15. Promised(io_uring_clone_buffers, <<0, 4, 8, 12, 16, 20, 32>>)
  BY DEF io_uring_clone_buffers
<1> HIDE DEF Promised
<1> QED
  BY <1>1, <1>2, <1>3, <1>4, <1>5, <1>6, <1>7, <1>8, <1>9, <1>10, <1>11,
    <1>12, <1>13, <1>14, <1>15, PromiseKept

\* Buffer rings and buffer pools.
LEMMA BufferTypes ==
  \A t \in {io_uring_buf, io_uring_buf_ring__bindgen_ty_1__bindgen_ty_1,
    io_uring_buf_ring__bindgen_ty_1, io_uring_buf_ring, io_uring_buf_reg,
    io_uring_buf_status, bufring_init_params_t, bufring_t, bufpool_t,
    bufpool_freebuf_t} :
    Consistent(t)
<1> USE DEF Promised, Shared, InOrder, FirstFrom, FieldAlign, Strictest,
      RightAt, Struct, Union, PackedUnion, Declared, F, V, Array, Scalar, u8,
      u16, u32, u64, ptr, Anywhere, Sized
<1>1. Promised(io_uring_buf, <<0, 8, 12, 14, 16>>)
  BY DEF io_uring_buf
<1>2. Promised(io_uring_buf_ring__bindgen_ty_1__bindgen_ty_1,
         <<0, 8, 12, 14, 16>>)
  BY DEF io_uring_buf_ring__bindgen_ty_1__bindgen_ty_1
<1>3. Promised(io_uring_buf_ring__bindgen_ty_1, <<0, 0, 0, 16>>)
  BY PartSizes DEF io_uring_buf_ring__bindgen_ty_1
<1>4. Promised(io_uring_buf_ring, <<0, 16>>)
  BY PartSizes DEF io_uring_buf_ring
<1>5. Promised(io_uring_buf_reg, <<0, 8, 12, 14, 16, 40>>)
  BY DEF io_uring_buf_reg
<1>6. Promised(io_uring_buf_status, <<0, 4, 8, 40>>)
  BY DEF io_uring_buf_status
<1>7. Promised(bufring_init_params_t, <<0, 2, 4, 6>>)
  BY DEF bufring_init_params_t
<1>8. Promised(bufring_t, <<0, 8, 16, 24>>)
  BY PartSizes DEF bufring_t
<1>9. Promised(bufpool_t, <<0, 8, 16, 24, 32>>)
  BY DEF bufpool_t
<1>10. Promised(bufpool_freebuf_t, <<0, 8, 16, 24>>)
  BY DEF bufpool_freebuf_t
<1> HIDE DEF Promised
<1> QED
  BY <1>1, <1>2, <1>3, <1>4, <1>5, <1>6, <1>7, <1>8, <1>9, <1>10, PromiseKept

\* The arguments of waits, cancellations and polling.
LEMMA WaitTypes ==
  \A t \in {io_uring_napi, io_uring_cqwait_reg_arg, io_uring_reg_wait,
    io_uring_getevents_arg, io_uring_sync_cancel_reg,
    io_uring_file_index_range, io_uring_recvmsg_out} :
    Consistent(t)
<1> USE DEF Promised, Shared, InOrder, FirstFrom, FieldAlign, Strictest,
      RightAt, Struct, Union, PackedUnion, Declared, F, V, Array, Scalar, u8,
      u16, u32, u64, ptr, Anywhere, Sized
<1>1. Promised(io_uring_napi, <<0, 4, 5, 8, 16>>)
  BY DEF io_uring_napi
<1>2. Promised(io_uring_cqwait_reg_arg, <<0, 4, 8, 12, 16, 24, 48>>)
  BY DEF io_uring_cqwait_reg_arg
<1>3. Promised(io_uring_reg_wait, <<0, 16, 20, 24, 32, 36, 48, 64>>)
  BY PartSizes DEF io_uring_reg_wait
<1>4. Promised(io_uring_getevents_arg, <<0, 8, 12, 16, 24>>)
  BY DEF io_uring_getevents_arg
<1>5. Promised(io_uring_sync_cancel_reg, <<0, 8, 12, 16, 32, 33, 40, 64>>)
  BY PartSizes DEF io_uring_sync_cancel_reg
<1>6. Promised(io_uring_file_index_range, <<0, 4, 8, 16>>)
  BY DEF io_uring_file_index_range
<1>7. Promised(io_uring_recvmsg_out, <<0, 4, 8, 12, 16>>)
  BY DEF io_uring_recvmsg_out
<1> HIDE DEF Promised
<1> QED
  BY <1>1, <1>2, <1>3, <1>4, <1>5, <1>6, <1>7, PromiseKept

\* The ring, the application context and the user data.
LEMMA ProgramTypes ==
  \A t \in {io_uring_sq, io_uring_cq, io_uring, appctx_t,
    userdata__bindgen_ty_1__bindgen_ty_1, userdata__bindgen_ty_1, userdata} :
    Consistent(t)
<1> USE DEF Promised, Shared, InOrder, FirstFrom, FieldAlign, Strictest,
      RightAt, Struct, Union, PackedUnion, Declared, F, V, Array, Scalar, u8,
      u16, u32, u64, ptr, Anywhere, Sized
<1>1. \E o : Promised(io_uring_sq, o)
  <2> DEFINE o ==
        <<0, 8, 16, 24, 32, 40, 48, 56, 64, 68, 72, 80, 88, 92, 96, 104>>
  <2>1. InOrder(io_uring_sq, o)
    BY DEF io_uring_sq
  <2>2. Strictest(io_uring_sq)
    BY DEF io_uring_sq
  <2>3. \A i \in 1..Len(io_uring_sq.fields) :
          RightAt(io_uring_sq, io_uring_sq.fields[i], o[i])
    <3>1. Len(io_uring_sq.fields) = 15
      BY DEF io_uring_sq
    <3>2. \A i \in 1..8 :
            /\ io_uring_sq.fields[i].view = 0
            /\ io_uring_sq.fields[i].viewAlign = 1
            /\ io_uring_sq.fields[i].at = o[i]
      BY DEF io_uring_sq
    <3>3. \A i \in 9..15 :
            /\ io_uring_sq.fields[i].view = 0
            /\ io_uring_sq.fields[i].viewAlign = 1
            /\ io_uring_sq.fields[i].at = o[i]
      BY DEF io_uring_sq
    <3>4. /\ \A i \in 1..15 : o[i] \in Nat /\ o[i] <= io_uring_sq.size
          /\ io_uring_sq.align \in Nat /\ io_uring_sq.size \in Nat
      BY DEF io_uring_sq
    <3> HIDE DEF o, io_uring_sq
    <3> QED
      BY <3>1, <3>2, <3>3, <3>4
  <2>4. /\ o \in Seq(Nat) /\ Len(o) = Len(io_uring_sq.fields) + 1
        /\ o[Len(o)] = io_uring_sq.size /\ ~io_uring_sq.union
    BY DEF io_uring_sq
  <2> HIDE DEF o, InOrder, Strictest, RightAt
  <2>5. Promised(io_uring_sq, o)
    BY <2>1, <2>2, <2>3, <2>4
  <2> QED
    BY <2>5
<1>2. \E o : Promised(io_uring_cq, o)
  <2> DEFINE o == <<0, 8, 16, 24, 32, 40, 48, 56, 64, 72, 76, 80, 88>>
  <2>1. InOrder(io_uring_cq, o)
    BY DEF io_uring_cq
  <2>2. Strictest(io_uring_cq)
    BY DEF io_uring_cq
  <2>3. \A i \in 1..Len(io_uring_cq.fields) :
          RightAt(io_uring_cq, io_uring_cq.fields[i], o[i])
    <3>1. \A i \in 1..Len(io_uring_cq.fields) :
            io_uring_cq.fields[i].view = 0 /\ io_uring_cq.fields[i].viewAlign = 1
      BY DEF io_uring_cq
    <3>2. /\ \A i \in 1..Len(io_uring_cq.fields) :
               o[i] \in Nat /\ o[i] <= io_uring_cq.size
          /\ io_uring_cq.align \in Nat /\ io_uring_cq.size \in Nat
      BY DEF io_uring_cq
    <3>3. \A i \in 1..Len(io_uring_cq.fields) :
            io_uring_cq.fields[i].at \in {Anywhere, o[i]}
      BY DEF io_uring_cq
    <3> HIDE DEF o, io_uring_cq
    <3> QED
      BY <3>1, <3>2, <3>3
  <2>4. /\ o \in Seq(Nat) /\ Len(o) = Len(io_uring_cq.fields) + 1
        /\ o[Len(o)] = io_uring_cq.size /\ ~io_uring_cq.union
    BY DEF io_uring_cq
  <2> HIDE DEF o, InOrder, Strictest, RightAt
  <2>5. Promised(io_uring_cq, o)
    BY <2>1, <2>2, <2>3, <2>4
  <2> QED
    BY <2>5
<1>3. \E o : Promised(io_uring, o)
  <2> DEFINE o == <<0, 104, 192, 196, 200, 204, 208, 209, 212, 216>>
  <2>1. InOrder(io_uring, o)
    BY PartSizes DEF io_uring
  <2>2. Strictest(io_uring)
    BY PartSizes DEF io_uring
  <2>3. \A i \in 1..Len(io_uring.fields) :
          RightAt(io_uring, io_uring.fields[i], o[i])
    <3>1. \A i \in 1..Len(io_uring.fields) :
            io_uring.fields[i].view = 0 /\ io_uring.fields[i].viewAlign = 1
      BY DEF io_uring
    <3>2. /\ \A i \in 1..Len(io_uring.fields) :
               o[i] \in Nat /\ o[i] <= io_uring.size
          /\ io_uring.align \in Nat /\ io_uring.size \in Nat
      BY DEF io_uring
    <3>3. \A i \in 1..Len(io_uring.fields) :
            io_uring.fields[i].at \in {Anywhere, o[i]}
      BY DEF io_uring
    <3> HIDE DEF o, io_uring
    <3> QED
      BY <3>1, <3>2, <3>3
  <2>4. /\ o \in Seq(Nat) /\ Len(o) = Len(io_uring.fields) + 1
        /\ o[Len(o)] = io_uring.size /\ ~io_uring.union
    BY PartSizes DEF io_uring
  <2> HIDE DEF o, InOrder, Strictest, RightAt
  <2>5. Promised(io_uring, o)
    BY <2>1, <2>2, <2>3, <2>4
  <2> QED
    BY <2>5
<1>4. Promised(appctx_t, <<0, 216, 248, 256>>)
  BY PartSizes DEF appctx_t
<1>5. Promised(userdata__bindgen_ty_1__bindgen_ty_1, <<0, 4, 8>>)
  BY DEF userdata__bindgen_ty_1__bindgen_ty_1
<1>6. Promised(userdata__bindgen_ty_1, <<0, 0, 8>>)
  BY PartSizes DEF userdata__bindgen_ty_1
<1>7. Promised(userdata, <<0, 8>>)
  BY PartSizes DEF userdata
<1> HIDE DEF Promised
<1> QED
  BY <1>1, <1>2, <1>3, <1>4, <1>5, <1>6, <1>7, PromiseKept

LEMMA DeclaredConsistent == \A t \in DeclaredTypes : Consistent(t)
BY SystemTypes, SiginfoTypes, SqeTypes, SetupTypes, BufferTypes, WaitTypes,
  ProgramTypes DEF DeclaredTypes

\* Every size, alignment and offset that bindings.rs asserts is the one that
\* its declaration has, for any choice of its types, so that Rust and C read
\* and write the same bytes (rexe/src/main.rs:10-48).
THEOREM BindingsAgree ==
  Types \subseteq DeclaredTypes => (Spec => []AssertionsHold)
<1>1. Types \subseteq DeclaredTypes => AllConsistent
  BY DeclaredConsistent DEF AllConsistent
<1>2. [](AssertionsHold /\ ViewsFit) => []AssertionsHold
  BY PTL
<1> QED
  BY <1>1, <1>2, ConsistentIsRight

\* The storage behind every __BindgenUnionField (bindings.rs:34-47) is long
\* enough, and aligned, for what is read through it.
THEOREM BindingsViewsFit ==
  Types \subseteq DeclaredTypes => (Spec => []ViewsFit)
<1>1. Types \subseteq DeclaredTypes => AllConsistent
  BY DeclaredConsistent DEF AllConsistent
<1>2. [](AssertionsHold /\ ViewsFit) => []ViewsFit
  BY PTL
<1> QED
  BY <1>1, <1>2, ConsistentIsRight
=============================================================================
