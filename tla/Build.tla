------------------------------- MODULE Build -------------------------------
(***************************************************************************)
(* `cargo build` of the Rust front end: rexe/build.rs runs make in clib,   *)
(* generates src/bindings.rs from the headers and tells cargo when to do   *)
(* so again; then rustc compiles the bindings and links the library.  The  *)
(* developer may edit a file between any two of these steps, and each of   *)
(* them may fail.  An artifact is described by the files that were edited  *)
(* since it was made from them.  A run of make is one step.                *)
(***************************************************************************)
CONSTANT
  EditedFiles         \* the files the developer edits: a bound of the runs

Sources == {"appctx.c", "logging.c", "userdata.c"}
LibHeaders == {"appctx.h", "logging.h", "userdata.h"}
Headers == LibHeaders \cup {"wrapper.h", "errors.h"}
Files == Sources \cup Headers

ASSUME EditedAssumption == EditedFiles \subseteq Files

VARIABLES
  pc,                 \* what cargo does next; "idle" between builds
  result,             \* how the last build ended: "ok", "failed", "none"
  ran,                \* the last run of build.rs succeeded
  edited,             \* files edited since the last build began
  lib,                \* ... since libiouring_helpers.a was built from them
  generated,          \* ... since bindgen read them
  bindings,           \* ... since src/bindings.rs was generated from them
  binary              \* ... since the linked program was made from them

vars == <<pc, result, ran, edited, lib, generated, bindings, binary>>

Init ==
  /\ pc = "idle"
  /\ result = "none"
  /\ ran = FALSE
  /\ edited = Files
  /\ lib = Sources \cup LibHeaders
  /\ generated = Headers
  /\ bindings \in {{}, Headers}     \* a checked-in file, current or not
  /\ binary = Files

-----------------------------------------------------------------------------
\* A faulty list, without the header that the library does not have.
WatchedHeaders == Headers

\* What build.rs has cargo watch: the last five lines, and by CargoCallbacks
\* every header that bindgen reads.
Watched == {"wrapper.h", "bufring.h", "logging.h", "userdata.h", "errors.h"}
             \cup Headers

\* cargo runs the script again if a watched file changed, or does not exist.
Fresh == ran /\ Watched \subseteq Files \ edited

\* A faulty Makefile that leaves out a header.
MakeDepsWithoutUserdata == Sources \cup (LibHeaders \ {"userdata.h"})

\* What the objects of clib/Makefile depend on: SOURCES and HEADERS.
MakeDeps == Sources \cup LibHeaders

\* make builds what is older than its dependencies; all of it, or no archive.
Made == lib \ MakeDeps

Edit(f) ==
  /\ edited' = edited \cup {f}
  /\ lib' = lib \cup ({f} \cap (Sources \cup LibHeaders))
  /\ generated' = generated \cup ({f} \cap Headers)
  /\ bindings' = bindings \cup ({f} \cap Headers)
  /\ binary' = binary \cup {f}
  /\ UNCHANGED <<pc, result, ran>>

\* cexe/Makefile:16-17 builds the same library, whatever cargo is doing.
MakeForC ==
  /\ lib' = Made
  /\ UNCHANGED <<pc, result, ran, edited, generated, bindings, binary>>

-----------------------------------------------------------------------------
\* cargo runs build.rs if it has to, and otherwise goes on to rustc.
StartBuild ==
  /\ pc = "idle"
  /\ pc' = IF Fresh THEN "rustc" ELSE "make"
  /\ ran' = Fresh
  /\ edited' = {}
  /\ UNCHANGED <<result, lib, generated, bindings, binary>>

\* A panic of build.rs (lines 16-21, 53, 59) or an error of rustc.
Fail ==
  /\ pc # "idle"
  /\ pc' = "idle"
  /\ result' = "failed"
  /\ UNCHANGED <<ran, edited, lib, generated, bindings, binary>>

Make ==
  /\ pc = "make"
  /\ lib' = Made
  /\ pc' = "bindgen"
  /\ UNCHANGED <<result, ran, edited, generated, bindings, binary>>

Generate ==
  /\ pc = "bindgen"
  /\ generated' = {}
  /\ pc' = "write"
  /\ UNCHANGED <<result, ran, edited, lib, bindings, binary>>

\* write_to_file; the script then prints what to watch and ends.
WriteBindings ==
  /\ pc = "write"
  /\ bindings' = generated
  /\ ran' = TRUE
  /\ pc' = "rustc"
  /\ UNCHANGED <<result, edited, lib, generated, binary>>

Rustc ==
  /\ pc = "rustc"
  /\ binary' = lib \cup bindings
  /\ result' = "ok"
  /\ pc' = "idle"
  /\ UNCHANGED <<ran, edited, lib, generated, bindings>>

Next ==
  \/ \E f \in EditedFiles : Edit(f)
  \/ MakeForC \/ StartBuild \/ Make \/ Generate \/ WriteBindings
  \/ Rustc \/ Fail

Spec == Init /\ [][Next]_vars

-----------------------------------------------------------------------------
\* Types, and what each step may count on: an artifact made in this build is
\* older only than edits made in this build.
TypeOK ==
  /\ pc \in {"idle", "make", "bindgen", "write", "rustc"}
  /\ result \in {"none", "ok", "failed"}
  /\ ran \in BOOLEAN
  /\ edited \subseteq Files
  /\ lib \subseteq Sources \cup LibHeaders
  /\ generated \subseteq Headers
  /\ bindings \subseteq Headers
  /\ binary \subseteq Files
  /\ pc \in {"bindgen", "write", "rustc"} => lib \subseteq edited
  /\ pc = "write" => generated \subseteq edited
  /\ pc = "rustc" => bindings \subseteq edited

\* When a build succeeds, the program is made from the files as they were
\* after it began, whatever failed before and whoever built the library in
\* between (build.rs:14-68).
BuiltFromCurrentFiles ==
  [][pc = "rustc" /\ result' = "ok" /\ pc' = "idle"
       => binary' \subseteq edited]_vars
=============================================================================
