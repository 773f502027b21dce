------------------------- MODULE ClangInstallation -------------------------
(***************************************************************************)
(* Which resource directory the compiler is given: the Clang object        *)
(* (lib/internals/clang.cpp) and the arguments adjuster a RefactoringTask  *)
(* installs for the whole of its life (lib/refactoringtask.cpp).  The      *)
(* version of LLVM the program was built with decides which adjuster it    *)
(* has: one that is given a file name next to the arguments, or not.       *)
(***************************************************************************)
EXTENDS Version, Sequences

CONSTANTS
  Prefix,      \* prefixes of installations, each with its resource directory
  LLVM_PREFIX, \* the prefix the program was built with
  Flag,        \* arguments that are no -resource-dir
  MaxArguments, MaxTasks

ASSUME PrefixAssumption == LLVM_PREFIX \in Prefix
ASSUME BoundsAssumption == MaxArguments \in Nat /\ MaxTasks \in Nat

Flags == [flag : Flag]
ResourceDir == [resource_dir : Prefix]
Argument == Flags \cup ResourceDir

VARIABLES
  llvm,        \* LLVM_VERSION_MAJOR, _MINOR and _PATCH of the build
  llvm_prefix, \* Clang::llvm_prefix_
  wanted,      \* what a caller last passed to setLLVMPrefix
  tasks,       \* per RefactoringTask, the Clang its adjuster captured
  arguments,   \* the command of the source that is compiled next
  command      \* the last one: what was given, what was run, for which task

vars == <<llvm, llvm_prefix, wanted, tasks, arguments, command>>

NoCommand == [given |-> << >>, run |-> << >>, task |-> 0]
-----------------------------------------------------------------------------
(* Faulty: the user's own resource directory is not looked for.            *)
AppendAlways(in, prefix) == Append(in, [resource_dir |-> prefix])

(* getClangResourcePathAdjuster, with getResourceDir of the captured Clang.*)
Adjust(in, prefix) ==
  IF \E i \in DOMAIN in : in[i] \in ResourceDir
  THEN in
  ELSE Append(in, [resource_dir |-> prefix])

Init ==
  /\ llvm \in Versions
  /\ llvm_prefix = LLVM_PREFIX
  /\ wanted = LLVM_PREFIX
  /\ tasks = << >>
  /\ arguments = << >>
  /\ command = NoCommand

(* The assignment in setLLVMPrefix goes to its parameter.                  *)
SetLLVMPrefix(prefix) ==
  /\ wanted' = prefix
  /\ UNCHANGED <<llvm, llvm_prefix, tasks, arguments, command>>

(* RefactoringTask's constructor: the lambda copies the Clang object.      *)
CreateTask ==
  /\ Len(tasks) < MaxTasks
  /\ tasks' = Append(tasks, llvm_prefix)
  /\ UNCHANGED <<llvm, llvm_prefix, wanted, arguments, command>>

(* An argument of the compilation database or of -extra-arg.               *)
AddArgument(a) ==
  /\ Len(arguments) < MaxArguments
  /\ arguments' = Append(arguments, a)
  /\ UNCHANGED <<llvm, llvm_prefix, wanted, tasks, command>>

(* A task compiles a source with the arguments its adjuster returns.       *)
Compile(t) ==
  /\ command' = [given |-> arguments, run |-> Adjust(arguments, tasks[t]),
                 task |-> t]
  /\ arguments' = << >>
  /\ UNCHANGED <<llvm, llvm_prefix, wanted, tasks>>

Next ==
  \/ \E prefix \in Prefix : SetLLVMPrefix(prefix)
  \/ CreateTask
  \/ \E a \in Argument : AddArgument(a)
  \/ \E t \in DOMAIN tasks : Compile(t)

Spec == Init /\ [][Next]_vars
-----------------------------------------------------------------------------
(* The positions of -resource-dir in a command, and the last of them.      *)
ResourceDirs(args) == {i \in DOMAIN args : args[i] \in ResourceDir}

LastResourceDir(args) ==
  args[CHOOSE i \in ResourceDirs(args) : \A j \in ResourceDirs(args) : j <= i]

(* The compiler's last -resource-dir counts.  It is the user's, if there   *)
(* is one, and otherwise that of the task's installation; nothing else of  *)
(* the command changes (the loop in getClangResourcePathAdjuster).         *)
UserResourceDirWins ==
  command # NoCommand =>
    /\ ResourceDirs(command.run) # {}
    /\ LastResourceDir(command.run) =
         IF ResourceDirs(command.given) # {}
         THEN LastResourceDir(command.given)
         ELSE [resource_dir |-> tasks[command.task]]
    /\ SubSeq(command.run, 1, Len(command.given)) = command.given

(* Whatever LLVM the program is built with, the code it chooses by a       *)
(* version is that of this or a later version: comparing the numbers is    *)
(* comparing the versions part by part, and no minor or patch number of    *)
(* two digits runs over into the part in front of it (REFACTOR_VERSION).   *)
ComparesVersions ==
  \A given \in Versions :
    REFACTOR_LLVM_PREQE(llvm, given) <=> AtLeast(llvm, given)

(* A prefix that was set is the prefix that is used (clang.h: "set the     *)
(* prefix of the llvm installation with the clang installation").          *)
SetPrefixIsUsed == llvm_prefix = wanted
=============================================================================
