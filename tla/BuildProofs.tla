---------------------------- MODULE BuildProofs ----------------------------
(***************************************************************************)
(* Proofs about Build, whatever files the developer edits and however      *)
(* often builds fail.                                                      *)
(***************************************************************************)
EXTENDS Build, TLAPS

\* A run of build.rs is never skipped: cargo watches a file that is not there.
LEMMA NeverFresh == edited \subseteq Files => ~Fresh
<1>1. "bufring.h" \in Watched
  BY DEF Watched
<1>2. "bufring.h" \notin Files
  BY DEF Files, Sources, Headers, LibHeaders
<1> QED
  BY <1>1, <1>2 DEF Fresh

\* make leaves nothing old that the library is made from.
LEMMA MadeAnew == lib \subseteq Sources \cup LibHeaders => Made = {}
  BY DEF Made, MakeDeps

LEMMA HeadersAreFiles == Headers \subseteq Files
  BY DEF Files

LEMMA LibFilesAreFiles == Sources \cup LibHeaders \subseteq Files
  BY DEF Files, Headers

LEMMA InitInv == Init => TypeOK
<1> SUFFICES ASSUME Init PROVE TypeOK
  OBVIOUS
<1> QED
  BY DEF Init, TypeOK

LEMMA EditInv == \A f \in EditedFiles : TypeOK /\ Edit(f) => TypeOK'
<1> SUFFICES ASSUME NEW f \in EditedFiles, TypeOK, Edit(f) PROVE TypeOK'
  OBVIOUS
<1>1. f \in Files
  BY EditedAssumption
<1> QED
  BY <1>1 DEF Edit, TypeOK

\* Every step keeps the types and what the next step counts on.
LEMMA NextInv == TypeOK /\ [Next]_vars => TypeOK'
<1> SUFFICES ASSUME TypeOK, [Next]_vars PROVE TypeOK'
  OBVIOUS
<1>1. ASSUME NEW f \in EditedFiles, Edit(f) PROVE TypeOK'
  BY <1>1, EditInv
<1>2. CASE MakeForC
  BY <1>2, MadeAnew DEF MakeForC, TypeOK
<1>3. CASE StartBuild
  <2>1. pc' = "make" /\ ran' \in BOOLEAN /\ edited' = {}
    BY <1>3, NeverFresh DEF StartBuild, TypeOK, Fresh
  <2> QED
    BY <1>3, <2>1 DEF StartBuild, TypeOK
<1>4. CASE Make
  BY <1>4, MadeAnew DEF Make, TypeOK
<1>5. CASE Generate
  BY <1>5 DEF Generate, TypeOK
<1>6. CASE WriteBindings
  BY <1>6 DEF WriteBindings, TypeOK
<1>7. CASE Rustc
  BY <1>7, HeadersAreFiles, LibFilesAreFiles DEF Rustc, TypeOK
<1>8. CASE Fail
  BY <1>8 DEF Fail, TypeOK
<1>9. CASE UNCHANGED vars
  BY <1>9 DEF vars, TypeOK
<1> QED
  BY <1>1, <1>2, <1>3, <1>4, <1>5, <1>6, <1>7, <1>8, <1>9 DEF Next

THEOREM BuildTypes == Spec => []TypeOK
  BY InitInv, NextInv, PTL DEF Spec

\* A successful build is made from the files as they were after it began.
THEOREM SuccessIsCurrent == Spec => BuiltFromCurrentFiles
<1> DEFINE A == pc = "rustc" /\ result' = "ok" /\ pc' = "idle"
                  => binary' \subseteq edited
<1>1. TypeOK /\ [Next]_vars => [A]_vars
  <2> SUFFICES ASSUME TypeOK, Next, pc = "rustc", result' = "ok", pc' = "idle"
               PROVE  binary' \subseteq edited
    BY DEF vars
  <2>1. Rustc
    BY DEF Next, Edit, MakeForC, StartBuild, Make, Generate, WriteBindings, Fail
  <2> QED
    BY <2>1 DEF Rustc, TypeOK
<1> QED
  BY <1>1, BuildTypes, PTL DEF Spec, BuiltFromCurrentFiles
=============================================================================
