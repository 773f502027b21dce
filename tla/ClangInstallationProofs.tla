---------------------- MODULE ClangInstallationProofs ----------------------
(***************************************************************************)
(* Proofs about ClangInstallation, for any installations, any arguments,   *)
(* and any number of tasks.                                                *)
(***************************************************************************)
EXTENDS ClangInstallation, SequenceTheorems, TLAPS
-----------------------------------------------------------------------------
(* The parts of a version are natural numbers below 100.                   *)
LEMMA PartsAreSmall ==
  ASSUME NEW v \in Versions
  PROVE  /\ v.major \in 0..99
         /\ v.minor \in 0..99
         /\ v.patch \in 0..99
  BY PartAssumption DEF Versions

(* The numbers are in the order of the versions: parts below 100 are the   *)
(* digits of a number in base 100.                                         *)
THEOREM NumbersCompare ==
  ASSUME NEW v \in Versions, NEW w \in Versions
  PROVE  REFACTOR_LLVM_PREQE(v, w) <=> AtLeast(v, w)
<1> DEFINE a == v.major  b == v.minor  c == v.patch
           x == w.major  y == w.minor  z == w.patch
<1>1. /\ a \in 0..99 /\ b \in 0..99 /\ c \in 0..99
      /\ x \in 0..99 /\ y \in 0..99 /\ z \in 0..99
  BY PartsAreSmall
<1>2. (a * 10000 + b * 100 + c >= x * 10000 + y * 100 + z)
        <=> (a > x \/ (a = x /\ b > y) \/ (a = x /\ b = y /\ c >= z))
  <2> HIDE DEF a, b, c, x, y, z
  <2>1. CASE a > x
    BY <1>1, <2>1
  <2>2. CASE a = x
    BY <1>1, <2>2
  <2>3. CASE a < x
    BY <1>1, <2>3
  <2> QED
    BY <1>1, <2>1, <2>2, <2>3
<1> QED
  BY <1>2 DEF REFACTOR_LLVM_PREQE, REFACTOR_VERSION, AtLeast
-----------------------------------------------------------------------------
(* What was run last is what the adjuster of its task made of the command. *)
Compiled ==
  /\ command.given \in Seq(Argument)
  /\ command.task \in DOMAIN tasks
  /\ command.run = Adjust(command.given, tasks[command.task])

InstallationInv ==
  /\ llvm \in Versions
  /\ llvm_prefix \in Prefix
  /\ tasks \in Seq(Prefix)
  /\ arguments \in Seq(Argument)
  /\ command = NoCommand \/ Compiled

(* The adjuster keeps the arguments it is given and leaves a command with  *)
(* a resource directory: the user's last one or else that of its prefix.   *)
LEMMA AdjustKeeps ==
  ASSUME NEW in \in Seq(Argument), NEW prefix \in Prefix
  PROVE  LET out == Adjust(in, prefix)
         IN  /\ ResourceDirs(out) # {}
             /\ LastResourceDir(out) =
                  IF ResourceDirs(in) # {} THEN LastResourceDir(in)
                  ELSE [resource_dir |-> prefix]
             /\ SubSeq(out, 1, Len(in)) = in
<1> DEFINE out == Adjust(in, prefix)
           own == [resource_dir |-> prefix]
<1>1. CASE ResourceDirs(in) # {}
  <2>1. out = in
    BY <1>1 DEF Adjust, ResourceDirs
  <2>2. SubSeq(in, 1, Len(in)) = in
    OBVIOUS
  <2> QED
    BY <1>1, <2>1, <2>2
<1>2. CASE ResourceDirs(in) = {}
  <2>1. out = Append(in, own) /\ own \in ResourceDir
    BY <1>2 DEF Adjust, ResourceDirs, ResourceDir
  <2>2. /\ Len(out) = Len(in) + 1 /\ DOMAIN out = 1..Len(out)
        /\ out[Len(out)] = own
        /\ \A i \in 1..Len(in) : out[i] = in[i] /\ i \in DOMAIN in
    BY <2>1 DEF Argument
  <2>3. ResourceDirs(out) = {Len(out)}
    BY <1>2, <2>1, <2>2 DEF ResourceDirs
  <2>4. LastResourceDir(out) = out[Len(out)]
    BY <2>2, <2>3 DEF LastResourceDir
  <2>5. SubSeq(out, 1, Len(in)) = in
    BY <2>1 DEF Argument
  <2> QED
    BY <1>2, <2>2, <2>3, <2>4, <2>5
<1> QED
  BY <1>1, <1>2

(* A task that compiles keeps its prefix, and new tasks come behind it.    *)
LEMMA InstallationInductive == Spec => []InstallationInv
<1>1. Init => InstallationInv
  BY PrefixAssumption DEF Init, InstallationInv
<1>2. InstallationInv /\ [Next]_vars => InstallationInv'
  <2> SUFFICES ASSUME InstallationInv, [Next]_vars PROVE InstallationInv'
    OBVIOUS
  <2> USE DEF InstallationInv
  <2>1. ASSUME NEW prefix \in Prefix, SetLLVMPrefix(prefix)
        PROVE  InstallationInv'
    BY <2>1 DEF SetLLVMPrefix, Compiled
  <2>2. CASE CreateTask
    <3>1. /\ tasks' = Append(tasks, llvm_prefix)
          /\ UNCHANGED <<llvm, llvm_prefix, arguments, command>>
      BY <2>2 DEF CreateTask
    <3>2. /\ tasks' \in Seq(Prefix)
          /\ \A t \in DOMAIN tasks : t \in DOMAIN tasks' /\ tasks'[t] = tasks[t]
      BY <3>1
    <3>3. Compiled => Compiled'
      BY <3>1, <3>2 DEF Compiled
    <3> QED
      BY <3>1, <3>2, <3>3
  <2>3. ASSUME NEW a \in Argument, AddArgument(a)
        PROVE  InstallationInv'
    BY <2>3 DEF AddArgument, Compiled
  <2>4. ASSUME NEW t \in DOMAIN tasks, Compile(t)
        PROVE  InstallationInv'
    BY <2>4 DEF Compile, Compiled
  <2>5. CASE UNCHANGED vars
    BY <2>5 DEF vars, Compiled
  <2> QED
    BY <2>1, <2>2, <2>3, <2>4, <2>5 DEF Next
<1> QED
  BY <1>1, <1>2, PTL DEF Spec

(* Every compilation gets the user's resource directory or, without one,   *)
(* that of the task's installation, whatever was set since.                *)
THEOREM ResourceDirIsRight == Spec => []UserResourceDirWins
<1>1. InstallationInv => UserResourceDirWins
  <2> SUFFICES ASSUME InstallationInv, command # NoCommand
               PROVE  /\ ResourceDirs(command.run) # {}
                      /\ LastResourceDir(command.run) =
                           IF ResourceDirs(command.given) # {}
                           THEN LastResourceDir(command.given)
                           ELSE [resource_dir |-> tasks[command.task]]
                      /\ SubSeq(command.run, 1, Len(command.given)) = command.given
    BY DEF UserResourceDirWins
  <2>1. Compiled /\ tasks \in Seq(Prefix)
    BY DEF InstallationInv
  <2>2. tasks[command.task] \in Prefix
    BY <2>1 DEF Compiled
  <2> QED
    BY <2>1, <2>2, AdjustKeeps DEF Compiled
<1> QED
  BY <1>1, InstallationInductive, PTL

(* The macros choose the code of the right version of LLVM, for all        *)
(* versions with parts below 100.                                          *)
THEOREM VersionsCompare == Spec => []ComparesVersions
<1>1. InstallationInv => ComparesVersions
  BY NumbersCompare DEF InstallationInv, ComparesVersions
<1> QED
  BY <1>1, InstallationInductive, PTL
=============================================================================
