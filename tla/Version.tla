------------------------------ MODULE Version ------------------------------
(***************************************************************************)
(* Versions of LLVM (lib/internals/version.h) and the macros the code uses *)
(* to choose between them (lib/internals/clang.h): a version is made one   *)
(* number to be compared.                                                  *)
(***************************************************************************)
EXTENDS Integers

CONSTANT Part \* what major, minor and patch may be

ASSUME PartAssumption == Part \subseteq 0..99

Versions == [major : Part, minor : Part, patch : Part]

(* Faulty: a digit for the minor version.                                  *)
REFACTOR_VERSION_DIGITS(v) == v.major * 100 + v.minor * 10 + v.patch

REFACTOR_VERSION(v) == v.major * 10000 + v.minor * 100 + v.patch

(* The version is the given one or a later one.                            *)
REFACTOR_LLVM_PREQE(v, given) == REFACTOR_VERSION(v) >= REFACTOR_VERSION(given)

(* Major before minor before patch.                                        *)
AtLeast(v, w) ==
  \/ v.major > w.major
  \/ v.major = w.major /\ v.minor > w.minor
  \/ v.major = w.major /\ v.minor = w.minor /\ v.patch >= w.patch
=============================================================================
