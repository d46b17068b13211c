------------------------------- MODULE Layout -------------------------------
(***************************************************************************)
(* How rustc lays out a #[repr(C)] declaration, field by field, and what   *)
(* the program needs of the result: the Rust front end passes these types  *)
(* to the C library by value and by pointer (rexe/src/main.rs:10-48), so   *)
(* the two compilers have to agree on every byte.                          *)
(***************************************************************************)
EXTENDS Bindings

CONSTANT
  Types               \* the declarations to lay out

Fields == [size : Nat, align : Nat \ {0}, at : Int,
           view : Nat, viewAlign : Nat \ {0}]

ASSUME TypesAssumption ==
  \A t \in Types : t.fields \in Seq(Fields) /\ {t.union, t.packed} \subseteq BOOLEAN

VARIABLES
  type,               \* the declaration being laid out
  offs,               \* the offsets of its first fields
  end,                \* the end of the furthest of them
  widest              \* the largest alignment so far

vars == <<type, offs, end, widest>>

\* The first multiple of align that is not below n.
RoundUp(n, align) == IF n % align = 0 THEN n ELSE n + (align - (n % align))

AlignOf(f) == IF type.packed THEN 1 ELSE f.align

-----------------------------------------------------------------------------
Init ==
  /\ type \in Types
  /\ offs = <<>>
  /\ end = 0
  /\ widest = 1

\* Fields of a union share offset 0; those of a struct follow each other.
NextOffset(f) == IF type.union THEN 0 ELSE RoundUp(end, AlignOf(f))

PlaceField ==
  /\ Len(offs) < Len(type.fields)
  /\ LET f == type.fields[Len(offs) + 1]
         at == NextOffset(f)
     IN  /\ offs' = Append(offs, at)
         /\ end' = IF at + f.size > end THEN at + f.size ELSE end
         /\ widest' = IF AlignOf(f) > widest THEN AlignOf(f) ELSE widest
  /\ UNCHANGED type

Next == PlaceField

Spec == Init /\ [][Next]_vars

-----------------------------------------------------------------------------
LaidOut == Len(offs) = Len(type.fields)
SizeOf == RoundUp(end, widest)

\* Types; holds of any declarations, and serves the proofs only.
TypeOK ==
  /\ type \in Types
  /\ offs \in Seq(Nat)
  /\ Len(offs) <= Len(type.fields)
  /\ end \in Nat
  /\ widest \in Nat \ {0}

\* Every offset, size and alignment that bindings.rs asserts of a type (from
\* the C headers, through clang) is the one that its Rust declaration has: a
\* field bindgen got wrong, or a table gone stale, would move what C reads.
AssertionsHold ==
  /\ \A i \in 1..Len(offs) : type.fields[i].at \in {Anywhere, offs[i]}
  /\ LaidOut => SizeOf = type.size /\ widest = type.align

\* A zero-sized __BindgenUnionField is read by a transmute of its address
\* (bindings.rs:40-47): the storage behind it has to be long enough for what
\* is read there, and aligned for it.
ViewsFit ==
  LaidOut => \A i \in 1..Len(offs) :
    /\ offs[i] + type.fields[i].view <= SizeOf
    /\ offs[i] % type.fields[i].viewAlign = 0
    /\ widest % type.fields[i].viewAlign = 0
=============================================================================
