----------------------- MODULE RefactorProgramProofs -----------------------
(***************************************************************************)
(* Proofs about the driver and the program, for option values of every     *)
(* length, any registry and any files.                                     *)
(***************************************************************************)
EXTENDS RefactorProgram, SequenceTheorems, FiniteSetTheorems,
        DataInduction, TLAPS

NonEmpty == Seq(Token) \ {<< >>}

(* Where the driver is tells what has been called and with what success.   *)
ResultsFollowPc ==
  /\ pc \in {"modules", "split", "add", "run"} => ~ran /\ ~saved
  /\ pc = "save" => ran /\ ~saved
  /\ pc # "returned" => returncode = 0
  /\ pc = "returned" => (returncode = 0 <=> ran /\ saved) /\ (saved => ran)

(* The loop over the registry has collected what it has passed.            *)
FactoriesCollected ==
  /\ \A i \in 1..(nextModule - 1) : Modules[i] \subseteq factories
  /\ pc \notin {"modules", "returned"} => "rename-function" \in factories

(* What is created has a new name, which a null pointer has not.           *)
RefactoringCreated == pc = "add" => refactoring.new # << >>

(* The files are not touched before save(), and the task is running until  *)
(* the driver is at its end.                                               *)
TaskFollowsPc ==
  /\ tree \in [File -> {"old", "new"}]
  /\ plan \subseteq File
  /\ pc \in {"modules", "split", "add", "run", "crashed"} => Task!Untouched
  /\ pc # "returned" => result \in {"none", "died"}

ProgramInv ==
  /\ TypeOK
  /\ ResultsFollowPc
  /\ FactoriesCollected
  /\ RefactoringCreated
  /\ NoNullRefactoring
  /\ TaskFollowsPc
  /\ ExitTellsFiles
-----------------------------------------------------------------------------
(* StringRef::split cuts at the first comma, or at the end of the string.  *)
LEMMA FirstCommaIsFirst ==
  ASSUME NEW s \in Seq(Token)
  PROVE  /\ FirstComma(s) \in 1..(Len(s) + 1)
         /\ FirstComma(s) = Len(s) + 1 \/ s[FirstComma(s)] = comma
         /\ \A j \in 1..(FirstComma(s) - 1) : s[j] # comma
<1> DEFINE Cuts == {i \in 1..(Len(s) + 1) : i = Len(s) + 1 \/ s[i] = comma}
<1>1. Cuts \in SUBSET Nat /\ Cuts # {}
  OBVIOUS
<1>2. PICK i \in Cuts : \A m \in Cuts : i <= m
  BY <1>1, LeastExists
<1>3. /\ i \in 1..(Len(s) + 1)
      /\ i = Len(s) + 1 \/ s[i] = comma
      /\ \A j \in 1..(i - 1) : s[j] # comma
  BY <1>2
<1> QED
  BY <1>3 DEF FirstComma

(* What is left of a string when it is trimmed is a part of it.            *)
LEMMA TrimIsPart ==
  ASSUME NEW s \in Seq(Token)
  PROVE  Trim(s) \in Seq(Token)
<1> DEFINE solid == {i \in 1..Len(s) : s[i] # blank}
<1>1. CASE solid = {}
  BY <1>1 DEF Trim
<1>2. CASE solid # {}
  <2>1. solid \in SUBSET Nat /\ Len(s) \in Nat /\ \A m \in solid : m <= Len(s)
    OBVIOUS
  <2>2. \E i \in solid : \A j \in solid : i <= j
    BY <1>2, <2>1, LeastExists
  <2>3. \E i \in solid : \A j \in solid : i >= j
    BY <1>2, <2>1, GreatestExists
  <2>4. \E a, b \in 1..Len(s) : Trim(s) = SubSeq(s, a, b)
    BY <1>2, <2>2, <2>3 DEF Trim
  <2> QED
    BY <2>4
<1> QED
  BY <1>1, <1>2

(* The argument in front of the first comma, and what is left behind it.   *)
LEMMA CutIsTyped ==
  ASSUME NEW s \in Seq(Token)
  PROVE  /\ Trim(SubSeq(s, 1, FirstComma(s) - 1)) \in Seq(Token)
         /\ SubSeq(s, FirstComma(s) + 1, Len(s)) \in Seq(Token)
<1>1. FirstComma(s) \in 1..(Len(s) + 1)
  BY FirstCommaIsFirst
<1>2. SubSeq(s, 1, FirstComma(s) - 1) \in Seq(Token)
  BY <1>1
<1>3. SubSeq(s, FirstComma(s) + 1, Len(s)) \in Seq(Token)
  BY <1>1
<1> QED
  BY <1>2, <1>3, TrimIsPart

(* A name stays a sequence of tokens when it is made absolute.             *)
LEMMA AbsoluteIsName ==
  ASSUME NEW name \in Seq(Token) PROVE Absolute(name) \in Seq(Token)
<1>1. <<scope>> \in Seq(Token)
  BY DEF Token
<1> QED
  BY <1>1 DEF Absolute
-----------------------------------------------------------------------------
(* main starts with nothing called and nothing saved.                      *)
LEMMA DriverInit == ProgramInit => ProgramInv
<1> SUFFICES ASSUME ProgramInit PROVE ProgramInv
  OBVIOUS
<1> USE DEF ProgramInit, Init, Task!Init
<1>1. Len(Modules) \in Nat
  BY ModulesAssumption
<1>2. NoRefactoring \in [old : Seq(Token), new : Seq(Token)]
  BY DEF NoRefactoring
<1>3. << >> \in Seq(Token) /\ << >> \in Seq(NonEmpty) /\ 1 \in 1..(Len(Modules) + 1)
  BY <1>1
<1>4. TypeOK
  BY <1>2, <1>3 DEF TypeOK, NonEmpty
<1>5. ResultsFollowPc /\ RefactoringCreated /\ NoNullRefactoring
  BY DEF ResultsFollowPc, RefactoringCreated, NoNullRefactoring
<1>6. FactoriesCollected
  BY DEF FactoriesCollected
<1>7. TaskFollowsPc /\ ExitTellsFiles
  BY DEF TaskFollowsPc, ExitTellsFiles, Task!Untouched
<1> QED
  BY <1>4, <1>5, <1>6, <1>7 DEF ProgramInv

(* Up to save(), the driver's steps leave the files as they are.           *)
LEMMA PrepareKeepsFiles ==
  ASSUME ProgramInv, pc \in {"modules", "split", "add", "run"}, Alive,
         TaskFails, ran' = ran \/ pc' = "save",
         pc' = "returned" => returncode' = 1
  PROVE  (pc' # "save" => TaskFollowsPc') /\ ExitTellsFiles'
<1> USE DEF ProgramInv, TaskFollowsPc, TaskFails, Task!Fail, Task!Untouched,
            Alive, task, ExitTellsFiles, ResultsFollowPc
<1>1. CASE pc' = "returned"
  BY <1>1
<1>2. CASE pc' # "returned"
  BY <1>2
<1> QED
  BY <1>1, <1>2

(* No step of main or of the task breaks the invariant.                    *)
LEMMA DriverStep == ProgramInv /\ [ProgramNext]_all => ProgramInv'
<1> SUFFICES ASSUME ProgramInv, [ProgramNext]_all PROVE ProgramInv'
  OBVIOUS
<1> USE DEF ProgramInv
<1>1. CASE Alive /\ AddFactories /\ TaskFails
  <2>1. nextModule \in 1..Len(Modules) /\ Len(Modules) \in Nat
    BY <1>1, ModulesAssumption DEF AddFactories, TypeOK
  <2>2. TypeOK'
    BY <1>1, <2>1 DEF AddFactories, TypeOK, commandLine, results
  <2>3. FactoriesCollected'
    BY <1>1, <2>1 DEF AddFactories, FactoriesCollected
  <2>4. ResultsFollowPc' /\ RefactoringCreated' /\ NoNullRefactoring'
    BY <1>1 DEF AddFactories, ResultsFollowPc, RefactoringCreated,
                NoNullRefactoring, results
  <2>5. TaskFollowsPc' /\ ExitTellsFiles'
    BY <1>1, PrepareKeepsFiles DEF AddFactories, results
  <2> QED
    BY <2>2, <2>3, <2>4, <2>5
<1>2. CASE Alive /\ CheckOption /\ TaskFails
  <2>1. TypeOK'
    BY <1>2, OptionValuesAssumption
    DEF CheckOption, TypeOK, Return, commandLine, registry, results
  <2>2. FactoriesCollected'
    <3>1. \A i \in 1..Len(Modules) : Modules[i] \subseteq factories
      <4>1. Len(Modules) \in Nat /\ nextModule \in 1..(Len(Modules) + 1)
        BY ModulesAssumption DEF TypeOK
      <4>2. nextModule - 1 = Len(Modules)
        BY <1>2, <4>1 DEF CheckOption
      <4> QED
        BY <4>2 DEF FactoriesCollected
    <3>2. "rename-function" \in factories
      BY <3>1, ModulesAssumption
    <3> QED
      BY <1>2, <3>2 DEF CheckOption, FactoriesCollected, registry
  <2>3. ResultsFollowPc' /\ RefactoringCreated' /\ NoNullRefactoring'
    BY <1>2 DEF CheckOption, ResultsFollowPc, RefactoringCreated,
                NoNullRefactoring, Return, results
  <2>4. TaskFollowsPc' /\ ExitTellsFiles'
    BY <1>2, PrepareKeepsFiles DEF CheckOption, Return, results
  <2> QED
    BY <2>1, <2>2, <2>3, <2>4
<1>3. CASE Alive /\ SplitArgument /\ TaskFails
  <2> DEFINE arg == Trim(SubSeq(rest, 1, FirstComma(rest) - 1))
  <2>1. arg \in Seq(Token) /\ rest' \in Seq(Token)
    BY <1>3, CutIsTyped DEF SplitArgument, TypeOK
  <2>2. args' \in Seq(NonEmpty)
    <3>1. args \in Seq(NonEmpty)
      BY DEF TypeOK, NonEmpty
    <3>2. arg # << >> => arg \in NonEmpty
      BY <2>1 DEF NonEmpty
    <3>3. args' = args \/ (arg # << >> /\ args' = Append(args, arg))
      BY <1>3 DEF SplitArgument
    <3> QED
      BY <3>1, <3>2, <3>3
  <2>3. TypeOK'
    BY <1>3, <2>1, <2>2
    DEF SplitArgument, TypeOK, NonEmpty, Return, commandLine, registry, results
  <2>4. FactoriesCollected'
    BY <1>3 DEF SplitArgument, FactoriesCollected, registry, Return
  <2>5. ResultsFollowPc' /\ RefactoringCreated' /\ NoNullRefactoring'
    BY <1>3 DEF SplitArgument, ResultsFollowPc, RefactoringCreated,
                NoNullRefactoring, Return, results
  <2>6. TaskFollowsPc' /\ ExitTellsFiles'
    BY <1>3, PrepareKeepsFiles DEF SplitArgument, Return, results
  <2> QED
    BY <2>3, <2>4, <2>5, <2>6
<1>4. CASE Alive /\ Create /\ TaskFails
  <2>1. "rename-function" \in factories
    BY <1>4 DEF Create, FactoriesCollected
  <2>2. CASE Len(args) = 2
    <3>1. args[1] \in NonEmpty /\ args[2] \in NonEmpty
      <4>1. args \in Seq(NonEmpty)
        BY DEF TypeOK, NonEmpty
      <4>2. 1 \in 1..Len(args) /\ 2 \in 1..Len(args)
        BY <2>2
      <4>3. \A i \in 1..Len(args) : args[i] \in NonEmpty
        BY <4>1
      <4> QED
        BY <4>2, <4>3
    <3>2. refactoring' = [old |-> Absolute(args[1]), new |-> args[2]] /\ pc' = "add"
      BY <1>4, <2>1, <2>2 DEF Create
    <3>3. /\ refactoring' \in [old : Seq(Token), new : Seq(Token)]
          /\ refactoring'.new # << >>
      BY <3>1, <3>2, AbsoluteIsName DEF NonEmpty
    <3>4. UNCHANGED <<commandLine, registry, rest, args, results, returncode>>
      BY <1>4, <2>1, <2>2 DEF Create
    <3>5. TypeOK'
      BY <3>2, <3>3, <3>4 DEF TypeOK, commandLine, registry, results
    <3>6. /\ ResultsFollowPc' /\ FactoriesCollected'
          /\ RefactoringCreated' /\ NoNullRefactoring'
      BY <1>4, <2>1, <3>2, <3>3, <3>4
      DEF Create, ResultsFollowPc, FactoriesCollected, RefactoringCreated,
          NoNullRefactoring, registry, results
    <3>7. TaskFollowsPc' /\ ExitTellsFiles'
      BY <1>4, <3>2, <3>4, PrepareKeepsFiles DEF Create, results
    <3> QED
      BY <3>5, <3>6, <3>7
  <2>3. CASE Len(args) # 2
    <3>1. Return(1) /\ UNCHANGED refactoring
      BY <1>4, <2>1, <2>3 DEF Create
    <3>2. pc' = "returned" /\ returncode' = 1
      BY <3>1 DEF Return
    <3>3. UNCHANGED <<commandLine, registry, rest, args, results>>
      BY <1>4 DEF Create
    <3>4. TypeOK'
      BY <3>1, <3>2, <3>3 DEF TypeOK, commandLine, registry, results
    <3>5. /\ ResultsFollowPc' /\ FactoriesCollected'
          /\ RefactoringCreated' /\ NoNullRefactoring'
      BY <1>4, <3>2, <3>3
      DEF Create, ResultsFollowPc, FactoriesCollected, RefactoringCreated,
          NoNullRefactoring, registry, results
    <3>6. TaskFollowsPc' /\ ExitTellsFiles'
      BY <1>4, <3>2, <3>3, PrepareKeepsFiles DEF Create, results
    <3> QED
      BY <3>4, <3>5, <3>6
  <2> QED
    BY <2>2, <2>3
<1>5. CASE Alive /\ AddRefactoring /\ TaskFails
  <2>1. refactoring # NoRefactoring
    BY <1>5 DEF AddRefactoring, RefactoringCreated, NoRefactoring
  <2>2. pc' = "run"
    BY <1>5, <2>1 DEF AddRefactoring
  <2>3. TypeOK'
    BY <1>5, <2>2 DEF AddRefactoring, TypeOK, commandLine, registry, results
  <2>4. /\ ResultsFollowPc' /\ FactoriesCollected'
        /\ RefactoringCreated' /\ NoNullRefactoring'
    BY <1>5, <2>2
    DEF AddRefactoring, ResultsFollowPc, FactoriesCollected,
        RefactoringCreated, NoNullRefactoring, registry, results
  <2>5. TaskFollowsPc' /\ ExitTellsFiles'
    BY <1>5, <2>2, PrepareKeepsFiles DEF AddRefactoring, results
  <2> QED
    BY <2>3, <2>4, <2>5
<1>6. CASE Collect
  <2>1. /\ TypeOK' /\ ResultsFollowPc' /\ FactoriesCollected'
        /\ RefactoringCreated' /\ NoNullRefactoring'
    BY <1>6 DEF Collect, vars, TypeOK, ResultsFollowPc, FactoriesCollected,
                RefactoringCreated, NoNullRefactoring
  <2>2. TaskFollowsPc' /\ ExitTellsFiles'
    BY <1>6 DEF Collect, vars, Task!Extend, TaskFollowsPc, Task!Untouched,
                Task!Running, ExitTellsFiles
  <2> QED
    BY <2>1, <2>2
<1>7. CASE FinishRun
  <2>1. TypeOK'
    BY <1>7 DEF FinishRun, Run, Return, TypeOK, commandLine, registry
  <2>2. /\ ResultsFollowPc' /\ FactoriesCollected'
        /\ RefactoringCreated' /\ NoNullRefactoring'
    BY <1>7 DEF FinishRun, Run, Return, ResultsFollowPc, FactoriesCollected,
                RefactoringCreated, NoNullRefactoring, registry
  <2>3. TaskFollowsPc' /\ ExitTellsFiles'
    BY <1>7 DEF FinishRun, Run, Return, TypeOK, ResultsFollowPc, TaskFails,
                Task!Fail, task, Alive, TaskFollowsPc, Task!Untouched, ExitTellsFiles
  <2> QED
    BY <2>1, <2>2, <2>3
<1>8. CASE WriteFile
  <2>1. /\ TypeOK' /\ ResultsFollowPc' /\ FactoriesCollected'
        /\ RefactoringCreated' /\ NoNullRefactoring'
    BY <1>8 DEF WriteFile, vars, TypeOK, ResultsFollowPc, FactoriesCollected,
                RefactoringCreated, NoNullRefactoring
  <2>2. TaskFollowsPc' /\ ExitTellsFiles'
    BY <1>8 DEF WriteFile, vars, Task!Publish, TaskFollowsPc, ExitTellsFiles
  <2> QED
    BY <2>1, <2>2
<1>9. CASE FinishSave
  <2>1. /\ TypeOK' /\ ResultsFollowPc' /\ FactoriesCollected'
        /\ RefactoringCreated' /\ NoNullRefactoring'
    BY <1>9 DEF FinishSave, Save, Return, TypeOK, ResultsFollowPc, FactoriesCollected,
                RefactoringCreated, NoNullRefactoring, commandLine, registry
  <2>2. UNCHANGED <<tree, plan>>
    BY <1>9 DEF FinishSave, Save, TypeOK, Task!Succeed, Task!Fail
  <2>3. TaskFollowsPc' /\ ExitTellsFiles'
    BY <1>9, <2>2 DEF FinishSave, Save, Return, TypeOK, ResultsFollowPc,
                      TaskFollowsPc, ExitTellsFiles, Task!Untouched
  <2> QED
    BY <2>1, <2>3
<1>10. CASE Kill
  <2>1. /\ TypeOK' /\ ResultsFollowPc' /\ FactoriesCollected'
        /\ RefactoringCreated' /\ NoNullRefactoring'
    BY <1>10 DEF Kill, vars, TypeOK, ResultsFollowPc, FactoriesCollected,
                 RefactoringCreated, NoNullRefactoring
  <2>2. TaskFollowsPc' /\ ExitTellsFiles'
    BY <1>10 DEF Kill, vars, Task!Die, TaskFollowsPc, Task!Untouched, ExitTellsFiles
  <2> QED
    BY <2>1, <2>2
<1>11. CASE UNCHANGED all
  BY <1>11 DEF all, vars, task, TypeOK, ResultsFollowPc, FactoriesCollected,
               RefactoringCreated, NoNullRefactoring, TaskFollowsPc,
               Task!Untouched, ExitTellsFiles
<1> QED
  BY <1>1, <1>2, <1>3, <1>4, <1>5, <1>6, <1>7, <1>8, <1>9, <1>10, <1>11
  DEF ProgramNext, ProgramStep, Prepare

(* The invariant of the program holds in every reachable state.            *)
THEOREM ProgramInductive == ProgramSpec => []ProgramInv
BY DriverInit, DriverStep, PTL DEF ProgramSpec

(* The type invariant, for option values of every length.                  *)
THEOREM DriverTypeCorrect == ProgramSpec => []TypeOK
<1>1. ProgramInv => TypeOK
  BY DEF ProgramInv
<1> QED
  BY <1>1, ProgramInductive, PTL

(* Exit code 0 means run and saved (main).                                 *)
THEOREM ZeroIsEarned == ProgramSpec => []ZeroMeansSaved
<1>1. ProgramInv => ZeroMeansSaved
  BY DEF ProgramInv, ResultsFollowPc, ZeroMeansSaved
<1> QED
  BY <1>1, ProgramInductive, PTL

(* main never dereferences a null pointer, if one of the modules brings    *)
(* the factory of "rename-function" (main, RefactoringFactories::create).  *)
THEOREM CreateFindsFactory == ProgramSpec => []NoNullRefactoring
<1>1. ProgramInv => NoNullRefactoring
  BY DEF ProgramInv
<1> QED
  BY <1>1, ProgramInductive, PTL

(* The exit code tells what became of the files (main).                    *)
THEOREM ExitCodeTellsFiles == ProgramSpec => []ExitTellsFiles
<1>1. ProgramInv => ExitTellsFiles
  BY DEF ProgramInv
<1> QED
  BY <1>1, ProgramInductive, PTL
-----------------------------------------------------------------------------
(***************************************************************************)
(* The value of -rename-function, of every length: the loop that cuts at   *)
(* one comma after the other finds the fields of the value, which are      *)
(* defined by counting commas.                                             *)
(***************************************************************************)
CommasUpTo(value, n) == {j \in Commas(value) : j <= n}

(* How much of the value the loop has consumed.                            *)
Used == Len(option) - Len(rest)

(* The arguments so far are the fields so far, as many as there are commas *)
(* in what is consumed, and one more if its end is that of the value.      *)
ArgsAreFields ==
  /\ option # NotGiven
  /\ Used \in 0..Len(option)
  /\ rest = SubSeq(option, Used + 1, Len(option))
  /\ Used = 0 \/ Used = Len(option) \/ option[Used] = comma
  /\ Len(args) = Cardinality(CommasUpTo(option, Used))
                   + (IF Used = 0 \/ option[Used] = comma THEN 0 ELSE 1)
  /\ \A k \in 1..Len(args) : args[k] = Field(option, k)

Asked == [old |-> Absolute(Field(option, 1)), new |-> Field(option, 2)]

(* A refactoring is the one the user asked for.                            *)
RefactoringIsAsked ==
  /\ refactoring # NoRefactoring =>
       Acceptable(option) /\ Field(option, 1) \in NonEmpty /\ refactoring = Asked
  /\ pc \in {"add", "run", "save"} \/ ran => refactoring # NoRefactoring
  /\ pc = "returned" /\ Acceptable(option) => refactoring # NoRefactoring

(* Files change only in save().                                            *)
ChangesFollowRun == ~ran => Task!Untouched

NoArgsYet == pc = "modules" => args = << >>

OptionInv ==
  /\ NoArgsYet
  /\ pc = "split" => ArgsAreFields
  /\ RefactoringIsAsked
  /\ ChangesFollowRun
-----------------------------------------------------------------------------
(* The commas of a value, and those up to a place, can be counted.         *)
LEMMA CommasFinite ==
  ASSUME NEW v \in Seq(Token), NEW S \in SUBSET Commas(v)
  PROVE  /\ IsFiniteSet(S) /\ Cardinality(S) \in Nat
         /\ Cardinality(S) <= Cardinality(Commas(v))
         /\ Cardinality(Commas(v)) \in Nat
         /\ \A c \in Commas(v) \ S :
              Cardinality(S) + 1 <= Cardinality(Commas(v))
<1>1. IsFiniteSet(1..Len(v))
  BY FS_Interval
<1>2. Commas(v) \in SUBSET (1..Len(v))
  BY DEF Commas
<1>3. IsFiniteSet(Commas(v))
  BY <1>1, <1>2, FS_Subset
<1>4. IsFiniteSet(S) /\ Cardinality(S) <= Cardinality(Commas(v))
  BY <1>3, FS_Subset
<1>5. Cardinality(S) \in Nat /\ Cardinality(Commas(v)) \in Nat
  BY <1>3, <1>4, FS_CardinalityType
<1>6. ASSUME NEW c \in Commas(v) \ S
      PROVE  Cardinality(S) + 1 <= Cardinality(Commas(v))
  <2>1. Cardinality(S \cup {c}) = Cardinality(S) + 1
    BY <1>4, FS_AddElement
  <2>2. S \cup {c} \in SUBSET Commas(v)
    OBVIOUS
  <2>3. Cardinality(S \cup {c}) <= Cardinality(Commas(v))
    BY <1>3, <2>2, FS_Subset
  <2> QED
    BY <2>1, <2>3
<1> QED
  BY <1>4, <1>5, <1>6

(* A field ends where as many commas lie in front as there are fields.     *)
LEMMA EndOfFieldIsUnique ==
  ASSUME NEW v \in Seq(Token), NEW k \in Nat,
         NEW i \in Commas(v) \cup {Len(v) + 1},
         Cardinality({j \in Commas(v) : j < i}) = k - 1
  PROVE  EndOfField(v, k) = i
<1> DEFINE Before(n) == {j \in Commas(v) : j < n}
           Ends == Commas(v) \cup {Len(v) + 1}
<1>1. Commas(v) \subseteq 1..Len(v) /\ Len(v) \in Nat
  BY DEF Commas
<1>2. ASSUME NEW a \in Ends, NEW b \in Ends, a < b
      PROVE  Cardinality(Before(a)) # Cardinality(Before(b))
  <2>1. a \in Commas(v)
    BY <1>1, <1>2
  <2>2. a \in Before(b) /\ a \notin Before(a)
    BY <1>1, <1>2, <2>1
  <2>3. Before(a) \in SUBSET Before(b)
    BY <1>1, <1>2
  <2>4. IsFiniteSet(Before(b))
    BY CommasFinite
  <2> QED
    BY <2>2, <2>3, <2>4, FS_Subset
<1>3. ASSUME NEW n \in Ends, Cardinality(Before(n)) = k - 1
      PROVE  n = i
  <2>1. n \in Nat /\ i \in Nat /\ i \in Ends
    BY <1>1
  <2>2. Cardinality(Before(n)) = Cardinality(Before(i))
    BY <1>3
  <2>3. ~(n < i) /\ ~(i < n)
    BY <1>2, <2>1, <2>2
  <2> QED
    BY <2>1, <2>3
<1> QED
  BY <1>3 DEF EndOfField

(* What the loop cuts off behind a comma, or at the start, is a field.     *)
LEMMA CutIsField ==
  ASSUME NEW v \in Seq(Token), NEW n \in 0..(Len(v) - 1),
         n = 0 \/ v[n] = comma
  PROVE  LET r == SubSeq(v, n + 1, Len(v))
             c == FirstComma(r)
             k == Cardinality(CommasUpTo(v, n)) + 1
         IN  /\ n + c \in Commas(v) \cup {Len(v) + 1}
             /\ {j \in Commas(v) : j < n + c} = CommasUpTo(v, n)
             /\ Trim(SubSeq(r, 1, c - 1)) = Field(v, k)
             /\ k \in Nat /\ k <= FieldCount(v)
<1> DEFINE r == SubSeq(v, n + 1, Len(v))
           c == FirstComma(r)
           k == Cardinality(CommasUpTo(v, n)) + 1
<1>1. /\ r \in Seq(Token) /\ Len(r) = Len(v) - n
      /\ \A i \in 1..Len(r) : r[i] = v[n + i]
  OBVIOUS
<1>2. /\ c \in 1..(Len(r) + 1)
      /\ c = Len(r) + 1 \/ r[c] = comma
      /\ \A j \in 1..(c - 1) : r[j] # comma
  BY <1>1, FirstCommaIsFirst
<1> HIDE DEF c, r
<1>3. n + c \in Commas(v) \cup {Len(v) + 1}
  <2>1. CASE c = Len(r) + 1
    BY <1>1, <2>1
  <2>2. CASE c \in 1..Len(r)
    <3>1. v[n + c] = comma
      BY <1>1, <1>2, <2>2
    <3>2. n + c \in 1..Len(v)
      BY <1>1, <2>2
    <3> QED
      BY <3>1, <3>2 DEF Commas
  <2>3. Len(r) \in Nat /\ c \in 1..(Len(r) + 1)
    BY <1>1, <1>2
  <2> QED
    BY <2>1, <2>2, <2>3
<1>4. {j \in Commas(v) : j < n + c} = CommasUpTo(v, n)
  <2>1. ASSUME NEW j \in Commas(v), j < n + c, ~(j <= n)
        PROVE  FALSE
    <3>1. j - n \in 1..(c - 1) /\ j - n \in 1..Len(r) /\ n + (j - n) = j
      BY <1>1, <1>2, <2>1 DEF Commas
    <3>2. r[j - n] = v[j] /\ r[j - n] # comma
      BY <1>1, <1>2, <3>1
    <3> QED
      BY <3>2 DEF Commas
  <2>2. \A j \in Commas(v) : j \in Nat /\ (j <= n => j < n + c)
    BY <1>2 DEF Commas
  <2> QED
    BY <2>1, <2>2 DEF CommasUpTo
<1>5. CommasUpTo(v, n) \in SUBSET Commas(v)
  BY DEF CommasUpTo
<1>6. /\ k \in Nat /\ k >= 1 /\ Cardinality(CommasUpTo(v, n)) = k - 1
      /\ k = Cardinality(CommasUpTo(v, n)) + 1
  BY <1>5, CommasFinite
<1> HIDE DEF k
<1>7. EndOfField(v, k) = n + c
  BY <1>3, <1>4, <1>6, EndOfFieldIsUnique
<1>8. k <= FieldCount(v)
  <2>1. CASE v[Len(v)] = comma
    <3>1. Len(v) \in Commas(v) \ CommasUpTo(v, n)
      BY <2>1 DEF Commas, CommasUpTo
    <3>2. k <= Cardinality(Commas(v))
      BY <1>5, <1>6, <3>1, CommasFinite
    <3> QED
      BY <2>1, <3>2, CommasFinite DEF FieldCount
  <2>2. CASE v[Len(v)] # comma
    <3>1. v # << >>
      BY <1>1
    <3> QED
      BY <1>5, <1>6, <2>2, <3>1, CommasFinite DEF FieldCount
  <2> QED
    BY <2>1, <2>2
<1>9. SubSeq(r, 1, c - 1) = SubSeq(v, n + 1, n + c - 1)
  BY <1>1, <1>2 DEF r
<1>10. (IF k = 1 THEN 1 ELSE EndOfField(v, k - 1) + 1) = n + 1
  <2>1. CASE n = 0
    <3>1. CommasUpTo(v, n) = {}
      BY <2>1 DEF CommasUpTo, Commas
    <3>2. Cardinality(CommasUpTo(v, n)) = 0
      BY <3>1, FS_EmptySet
    <3>3. k = 1
      BY <1>6, <3>2
    <3> QED
      BY <2>1, <3>3
  <2>2. CASE n # 0
    <3>1. n \in Commas(v)
      BY <2>2 DEF Commas
    <3> DEFINE Before == {j \in Commas(v) : j < n}
    <3>2. CommasUpTo(v, n) = Before \cup {n} /\ n \notin Before
      BY <3>1 DEF CommasUpTo, Commas
    <3>3. IsFiniteSet(Before) /\ Cardinality(Before) \in Nat
      BY CommasFinite
    <3>4. Cardinality(CommasUpTo(v, n)) = Cardinality(Before) + 1
      BY <3>2, <3>3, FS_AddElement
    <3>5. k - 1 \in Nat /\ Cardinality(Before) = (k - 1) - 1 /\ k # 1
      BY <1>6, <3>2, <3>3, <3>4, CommasFinite, FS_EmptySet
    <3>6. EndOfField(v, k - 1) = n
      BY <3>1, <3>5, EndOfFieldIsUnique
    <3> QED
      BY <3>5, <3>6
  <2> QED
    BY <2>1, <2>2
<1>11. Trim(SubSeq(r, 1, c - 1)) = Field(v, k)
  <2> DEFINE start == IF k = 1 THEN 1 ELSE EndOfField(v, k - 1) + 1
             end == EndOfField(v, k) - 1
  <2>1. Field(v, k) = Trim(SubSeq(v, start, end))
    BY DEF Field
  <2>2. start = n + 1
    BY <1>10
  <2>3. end = n + c - 1
    BY <1>2, <1>7
  <2> HIDE DEF start, end
  <2> QED
    BY <1>9, <2>1, <2>2, <2>3
<1> QED
  BY <1>3, <1>4, <1>6, <1>8, <1>11 DEF r, c, k
-----------------------------------------------------------------------------
(* One iteration of Support::split finds the next field; a blank one is    *)
(* one of the value's fields, so that it is right to refuse the value.     *)
LEMMA SplitFindsField ==
  ASSUME TypeOK, option \in Seq(Token), ArgsAreFields, SplitArgument
  PROVE  /\ pc' = "split" => ArgsAreFields'
         /\ pc' # "split" => pc' = "returned" /\ ~Acceptable(option)
<1> DEFINE v == option
           n == Used
           c == FirstComma(rest)
           k == Cardinality(CommasUpTo(v, n)) + 1
           arg == Trim(SubSeq(rest, 1, c - 1))
<1>1. /\ v \in Seq(Token) /\ Len(v) \in Nat
      /\ n \in 0..Len(v) /\ rest = SubSeq(v, n + 1, Len(v))
  BY DEF ArgsAreFields
<1>2. /\ rest \in Seq(Token) /\ Len(rest) \in Nat /\ Len(rest) > 0
      /\ Len(rest) = Len(v) - n
      /\ \A i \in 1..Len(rest) : rest[i] = v[n + i]
  <2>1. rest \in Seq(Token) /\ rest # << >>
    BY DEF TypeOK, SplitArgument
  <2> HIDE DEF n
  <2>2. /\ Len(rest) = Len(v) - n
        /\ \A i \in 1..Len(rest) : rest[i] = v[n + i]
    BY <1>1
  <2> QED
    BY <2>1, <2>2
<1>3. n \in 0..(Len(v) - 1) /\ (n = 0 \/ v[n] = comma)
  BY <1>1, <1>2 DEF ArgsAreFields
<1>4. /\ c \in 1..(Len(rest) + 1)
      /\ c = Len(rest) + 1 \/ rest[c] = comma
      /\ \A j \in 1..(c - 1) : rest[j] # comma
  BY <1>2, FirstCommaIsFirst
<1>5. /\ {j \in Commas(v) : j < n + c} = CommasUpTo(v, n)
      /\ arg = Field(v, k)
      /\ k \in Nat /\ k <= FieldCount(v)
  BY <1>1, <1>3, CutIsField
<1>6. Len(args) = k - 1 /\ k \in Nat \ {0}
  <2>1. Cardinality(CommasUpTo(v, n)) \in Nat
    BY <1>1, CommasFinite DEF CommasUpTo
  <2> QED
    BY <1>3, <2>1 DEF ArgsAreFields
<1>7. /\ rest' = SubSeq(rest, c + 1, Len(rest))
      /\ option' = option
      /\ IF arg = << >> THEN Return(1) /\ UNCHANGED args
         ELSE args' = Append(args, arg) /\ UNCHANGED <<pc, returncode>>
      /\ pc = "split"
  BY DEF SplitArgument, commandLine
<1>8. args \in Seq(NonEmpty)
  BY DEF TypeOK, NonEmpty
<1> HIDE DEF n, c, k, arg
<1>9. CASE arg = << >>
  <2>1. ASSUME Acceptable(v) PROVE FALSE
    <3>1. k \in 1..2
      BY <1>5, <1>6, <2>1 DEF Acceptable
    <3>2. Fields(v)[k] = Field(v, k)
      BY <2>1, <3>1 DEF Fields, Acceptable
    <3> QED
      BY <1>5, <1>9, <2>1, <3>1, <3>2 DEF Acceptable
  <2> QED
    BY <1>7, <1>9, <2>1 DEF Return
<1>10. CASE arg # << >>
  <2>1. args' = Append(args, arg) /\ pc' = "split"
    BY <1>7, <1>10
  <2>2. /\ Len(args') = k
        /\ \A i \in 1..k : args'[i] = IF i = k THEN arg ELSE args[i]
    BY <1>6, <1>8, <2>1
  <2>3. \A i \in 1..Len(args') : args'[i] = Field(option', i)
    <3>1. \A i \in 1..(k - 1) : args[i] = Field(v, i)
      BY <1>6 DEF ArgsAreFields
    <3>2. \A i \in 1..k : i = k \/ i \in 1..(k - 1)
      BY <1>6
    <3> QED
      BY <1>5, <1>7, <2>2, <3>1, <3>2
  <2>4. CASE c = Len(rest) + 1
    <3>1. rest' = << >> /\ Used' = Len(v)
      BY <1>1, <1>2, <1>7, <2>4 DEF Used
    <3>2. SubSeq(v, Len(v) + 1, Len(v)) = << >>
      BY <1>1, SubSeqEmpty
    <3>3. CommasUpTo(v, Len(v)) = CommasUpTo(v, n)
      <4>1. n + c = Len(v) + 1
        BY <1>1, <1>2, <1>3, <2>4
      <4>2. \A j \in Commas(v) : j <= Len(v) /\ j < n + c
        BY <1>1, <4>1 DEF Commas
      <4> QED
        BY <1>5, <4>2 DEF CommasUpTo
    <3>4. v[Len(v)] # comma /\ Len(v) # 0
      <4>1. Len(rest) \in 1..(c - 1) /\ n + Len(rest) = Len(v)
        BY <1>1, <1>2, <1>3, <2>4
      <4>2. rest[Len(rest)] # comma /\ rest[Len(rest)] = v[Len(v)]
        BY <1>2, <1>4, <4>1
      <4> QED
        BY <1>1, <1>3, <4>2
    <3>5. Len(args') = Cardinality(CommasUpTo(v, Len(v))) + 1
      BY <2>2, <3>3 DEF k
    <3>6. option' # NotGiven /\ Used' \in 0..Len(option') /\ Used' = Len(option')
      BY <1>1, <1>7, <3>1 DEF ArgsAreFields
    <3>7. rest' = SubSeq(option', Used' + 1, Len(option'))
      BY <1>7, <3>1, <3>2
    <3>8. Len(args') = Cardinality(CommasUpTo(option', Used'))
                         + (IF Used' = 0 \/ option'[Used'] = comma THEN 0 ELSE 1)
      BY <1>7, <3>1, <3>4, <3>5
    <3> QED
      BY <1>7, <2>1, <2>3, <3>6, <3>7, <3>8 DEF ArgsAreFields
  <2>5. CASE c \in 1..Len(rest)
    <3>1. n + c \in 1..Len(v) /\ n + c \in Nat /\ v[n + c] = comma
      <4>1. n + c \in 1..Len(v) /\ n + c \in Nat
        BY <1>1, <1>2, <1>3, <2>5
      <4>2. rest[c] = comma
        BY <1>2, <1>4, <2>5
      <4>3. rest[c] = v[n + c]
        BY <1>2, <2>5
      <4> QED
        BY <4>1, <4>2, <4>3
    <3>2. rest' = SubSeq(v, n + c + 1, Len(v)) /\ Len(rest') = Len(v) - (n + c)
      BY <1>1, <1>2, <1>3, <1>7, <2>5
    <3>3. Used' = n + c
      <4>1. Used' = Len(v) - (Len(v) - (n + c))
        BY <1>7, <3>2 DEF Used
      <4> QED
        BY <1>1, <3>1, <4>1
    <3>4. Cardinality(CommasUpTo(v, n + c)) = k
      <4>1. n + c \in Commas(v)
        BY <3>1 DEF Commas
      <4>2. CommasUpTo(v, n + c) = {j \in Commas(v) : j < n + c} \cup {n + c}
        BY <3>1, <4>1 DEF CommasUpTo, Commas
      <4>3. n + c \notin CommasUpTo(v, n)
        BY <1>3, <2>5, <3>1 DEF CommasUpTo
      <4>4. IsFiniteSet(CommasUpTo(v, n))
        BY <1>1, CommasFinite DEF CommasUpTo
      <4> QED
        BY <1>5, <4>2, <4>3, <4>4, FS_AddElement DEF k
    <3>5. option' # NotGiven /\ Used' \in 0..Len(option') /\ option'[Used'] = comma
      BY <1>7, <3>1, <3>3 DEF ArgsAreFields
    <3>6. rest' = SubSeq(option', Used' + 1, Len(option'))
      BY <1>7, <3>2, <3>3
    <3>7. Len(args') = Cardinality(CommasUpTo(option', Used'))
                         + (IF Used' = 0 \/ option'[Used'] = comma THEN 0 ELSE 1)
      BY <1>6, <1>7, <2>2, <3>1, <3>3, <3>4
    <3> QED
      BY <1>7, <2>1, <2>3, <3>5, <3>6, <3>7 DEF ArgsAreFields
  <2> QED
    BY <1>2, <1>4, <2>1, <2>4, <2>5
<1> QED
  BY <1>9, <1>10

(* When the whole value is consumed, the arguments are all of its fields.  *)
LEMMA AllFieldsFound ==
  ASSUME option \in Seq(Token), ArgsAreFields, rest = << >>
  PROVE  Len(args) = FieldCount(option)
<1> DEFINE v == option
<1>1. Used = Len(v) /\ Len(v) \in Nat
  BY DEF Used
<1>2. CommasUpTo(v, Len(v)) = Commas(v)
  BY DEF CommasUpTo, Commas
<1>3. v = << >> <=> Len(v) = 0
  BY EmptySeq
<1> QED
  BY <1>1, <1>2, <1>3 DEF ArgsAreFields, FieldCount
-----------------------------------------------------------------------------
(* Nothing has been cut in the beginning.                                  *)
LEMMA OptionInit == ProgramInit => OptionInv
BY DEF ProgramInit, Init, Task!Init, OptionInv, NoArgsYet, RefactoringIsAsked,
       ChangesFollowRun, Task!Untouched

(* A step that does not touch what the value became.                       *)
LEMMA AskedStays ==
  ASSUME RefactoringIsAsked, UNCHANGED <<option, refactoring>>,
         pc' \in {"add", "run", "save"} \/ ran' =>
           pc \in {"add", "run", "save"} \/ ran,
         pc' = "returned" =>
           pc \in {"returned", "add", "run", "save"} \/ ~Acceptable(option)
  PROVE  RefactoringIsAsked'
<1> USE DEF RefactoringIsAsked
<1>1. Acceptable(option') = Acceptable(option) /\ Asked' = Asked
  BY DEF Asked
<1>2. refactoring' # NoRefactoring =>
        Acceptable(option') /\ Field(option', 1) \in NonEmpty /\ refactoring' = Asked'
  BY <1>1
<1>3. pc' \in {"add", "run", "save"} \/ ran' => refactoring' # NoRefactoring
  OBVIOUS
<1>4. pc' = "returned" /\ Acceptable(option') => refactoring' # NoRefactoring
  BY <1>1
<1> QED
  BY <1>2, <1>3, <1>4

(* Every round of the loop cuts at the next comma.                         *)
LEMMA OptionStep ==
  ProgramInv /\ OptionInv /\ [ProgramNext]_all => OptionInv'
<1> SUFFICES ASSUME ProgramInv, OptionInv, [ProgramNext]_all PROVE OptionInv'
  OBVIOUS
<1>1. TypeOK /\ ResultsFollowPc /\ FactoriesCollected /\ RefactoringCreated
  BY DEF ProgramInv
<1>2. option # NotGiven => option \in Seq(Token)
  BY <1>1, OptionValuesAssumption DEF TypeOK
<1>3. /\ pc = "split" => ArgsAreFields
      /\ RefactoringIsAsked /\ ChangesFollowRun
  BY DEF OptionInv
<1>4. NoArgsYet
  BY DEF OptionInv
<1>5. NoArgsYet'
  <2>1. pc' = "modules" => pc = "modules" /\ args' = args
    BY DEF ProgramNext, ProgramStep, Prepare, Kill, Collect, WriteFile, FinishRun,
           FinishSave, AddFactories, CheckOption, SplitArgument, Create,
           AddRefactoring, Run, Save, Return, all, vars
  <2> QED
    BY <1>4, <2>1 DEF NoArgsYet
<1>6. CASE Alive /\ AddFactories /\ TaskFails
  <2>1. RefactoringIsAsked'
    BY <1>3, <1>6, AskedStays DEF AddFactories, commandLine, results
  <2>2. ChangesFollowRun' /\ pc' # "split"
    BY <1>3, <1>6 DEF AddFactories, results, TaskFails, task, ChangesFollowRun,
                      Task!Untouched
  <2> QED
    BY <1>5, <2>1, <2>2 DEF OptionInv
<1>7. CASE Alive /\ CheckOption /\ TaskFails
  <2>1. RefactoringIsAsked'
    BY <1>1, <1>3, <1>7, AskedStays
    DEF CheckOption, commandLine, results, Return, Acceptable, ResultsFollowPc
  <2>2. ChangesFollowRun'
    BY <1>3, <1>7 DEF CheckOption, results, TaskFails, Task!Fail, task,
                      ChangesFollowRun, Task!Untouched
  <2>3. ASSUME pc' = "split" PROVE ArgsAreFields'
    <3>1. option # NotGiven /\ rest' = option /\ option' = option
      BY <1>7, <2>3 DEF CheckOption, commandLine, Return
    <3>2. option \in Seq(Token) /\ Len(option) \in Nat
      BY <1>2, <3>1
    <3>3. SubSeq(option, 1, Len(option)) = option
      BY <3>2
    <3>4. Used' = 0
      BY <3>1, <3>2 DEF Used
    <3>5. args' = << >>
      BY <1>7, <1>4 DEF CheckOption, NoArgsYet
    <3>6. Cardinality(CommasUpTo(option, 0)) = 0
      <4>1. CommasUpTo(option, 0) = {}
        BY DEF CommasUpTo, Commas
      <4> QED
        BY <4>1, FS_EmptySet
    <3>7. /\ Len(args') = Cardinality(CommasUpTo(option', Used'))
                         + (IF Used' = 0 \/ option'[Used'] = comma THEN 0 ELSE 1)
          /\ Len(args') = 0
      BY <3>1, <3>4, <3>5, <3>6
    <3> QED
      BY <3>1, <3>2, <3>3, <3>4, <3>7 DEF ArgsAreFields
  <2> QED
    BY <1>5, <2>1, <2>2, <2>3 DEF OptionInv
<1>8. CASE Alive /\ SplitArgument /\ TaskFails
  <2>1. ArgsAreFields /\ option \in Seq(Token)
    BY <1>2, <1>3, <1>8 DEF SplitArgument, ArgsAreFields
  <2>2. /\ pc' = "split" => ArgsAreFields'
        /\ pc' # "split" => pc' = "returned" /\ ~Acceptable(option)
    BY <1>1, <1>8, <2>1, SplitFindsField
  <2>3. RefactoringIsAsked'
    BY <1>3, <1>8, <2>2, AskedStays DEF SplitArgument, commandLine, results
  <2>4. ChangesFollowRun'
    BY <1>3, <1>8 DEF SplitArgument, results, TaskFails, Task!Fail, task,
                      ChangesFollowRun, Task!Untouched
  <2> QED
    BY <1>5, <2>2, <2>3, <2>4 DEF OptionInv
<1>9. CASE Alive /\ Create /\ TaskFails
  <2>1. ArgsAreFields /\ option \in Seq(Token) /\ rest = << >>
    BY <1>2, <1>3, <1>9 DEF Create, ArgsAreFields
  <2>2. Len(args) = FieldCount(option)
    BY <2>1, AllFieldsFound
  <2>3. "rename-function" \in factories
    BY <1>1, <1>9 DEF Create, FactoriesCollected
  <2>4. UNCHANGED <<option, args, ran>>
    BY <1>9 DEF Create, commandLine, results
  <2>5. RefactoringIsAsked'
    <3>1. CASE Len(args) # 2
      <4>1. pc' = "returned" /\ refactoring' = refactoring
        BY <1>9, <2>3, <3>1 DEF Create, Return
      <4>2. ~Acceptable(option)
        BY <2>2, <3>1 DEF Acceptable
      <4> QED
        BY <1>3, <2>4, <4>1, <4>2, AskedStays
    <3>2. CASE Len(args) = 2
      <4>1. pc' = "add"
        BY <1>9, <2>3, <3>2 DEF Create
      <4>2. refactoring' = [old |-> Absolute(args[1]), new |-> args[2]]
        BY <1>9, <2>3, <3>2 DEF Create
      <4>3. /\ args[1] = Field(option, 1) /\ args[2] = Field(option, 2)
            /\ args[1] \in NonEmpty /\ args[2] \in NonEmpty
        <5>1. \A k \in 1..2 : args[k] = Field(option, k)
          BY <2>1, <3>2 DEF ArgsAreFields
        <5>2. \A k \in 1..2 : args[k] \in NonEmpty
          <6>1. args \in Seq(NonEmpty)
            BY <1>1 DEF TypeOK, NonEmpty
          <6> QED
            BY <3>2, <6>1, ElementOfSeq
        <5> QED
          BY <5>1, <5>2
      <4>4. Acceptable(option)
        <5>1. \A k \in 1..2 : Fields(option)[k] = Field(option, k)
          BY <2>2, <3>2 DEF Fields
        <5> QED
          BY <2>1, <2>2, <3>2, <4>3, <5>1 DEF Acceptable, ArgsAreFields, NonEmpty
      <4>5. refactoring' = Asked /\ Asked' = Asked
        BY <2>4, <4>2, <4>3 DEF Asked
      <4>6. refactoring' # NoRefactoring
        BY <4>2, <4>3 DEF NoRefactoring, NonEmpty
      <4> QED
        BY <2>4, <4>1, <4>3, <4>4, <4>5, <4>6 DEF RefactoringIsAsked
    <3> QED
      BY <3>1, <3>2
  <2>6. ChangesFollowRun' /\ pc' # "split"
    BY <1>3, <1>9, <2>3, <2>4
    DEF Create, Return, TaskFails, Task!Fail, task, ChangesFollowRun, Task!Untouched
  <2> QED
    BY <1>5, <2>5, <2>6 DEF OptionInv
<1>10. CASE Alive /\ AddRefactoring /\ TaskFails
  <2>1. RefactoringIsAsked'
    BY <1>3, <1>10, AskedStays DEF AddRefactoring, commandLine, results
  <2>2. ChangesFollowRun' /\ pc' # "split"
    BY <1>3, <1>10 DEF AddRefactoring, results, TaskFails, Task!Fail, task,
                      ChangesFollowRun, Task!Untouched
  <2> QED
    BY <1>5, <2>1, <2>2 DEF OptionInv
<1>11. CASE Collect
  <2>1. RefactoringIsAsked'
    BY <1>3, <1>11, AskedStays DEF Collect, vars
  <2>2. ChangesFollowRun' /\ pc' # "split"
    BY <1>3, <1>11 DEF Collect, vars, Task!Extend, ChangesFollowRun, Task!Untouched
  <2> QED
    BY <1>5, <2>1, <2>2 DEF OptionInv
<1>12. CASE FinishRun
  <2>1. RefactoringIsAsked'
    BY <1>3, <1>12, AskedStays DEF FinishRun, Run, commandLine, Return
  <2>2. ChangesFollowRun' /\ pc' # "split"
    BY <1>1, <1>3, <1>12
    DEF FinishRun, Run, Return, TaskFails, Task!Fail, task, ResultsFollowPc,
        ChangesFollowRun, Task!Untouched
  <2> QED
    BY <1>5, <2>1, <2>2 DEF OptionInv
<1>13. CASE WriteFile
  <2>1. RefactoringIsAsked'
    BY <1>3, <1>13, AskedStays DEF WriteFile, vars
  <2>2. ChangesFollowRun' /\ pc' # "split"
    BY <1>1, <1>13 DEF WriteFile, vars, ResultsFollowPc, ChangesFollowRun
  <2> QED
    BY <1>5, <2>1, <2>2 DEF OptionInv
<1>14. CASE FinishSave
  <2>1. RefactoringIsAsked'
    BY <1>3, <1>14, AskedStays DEF FinishSave, Save, commandLine, Return
  <2>2. ChangesFollowRun' /\ pc' # "split"
    BY <1>1, <1>14 DEF FinishSave, Save, Return, ResultsFollowPc, ChangesFollowRun
  <2> QED
    BY <1>5, <2>1, <2>2 DEF OptionInv
<1>15. CASE Kill \/ UNCHANGED all
  <2>1. UNCHANGED <<vars, tree>>
    BY <1>15 DEF Kill, Task!Die, all, task
  <2>2. RefactoringIsAsked'
    BY <1>3, <2>1, AskedStays DEF vars
  <2>3. ChangesFollowRun'
    BY <1>3, <2>1 DEF vars, ChangesFollowRun, Task!Untouched
  <2>4. (pc = "split" => ArgsAreFields) => (pc' = "split" => ArgsAreFields')
    BY <2>1 DEF vars, ArgsAreFields, Used
  <2> QED
    BY <1>3, <1>5, <2>2, <2>3, <2>4 DEF OptionInv
<1> QED
  BY <1>6, <1>7, <1>8, <1>9, <1>10, <1>11, <1>12, <1>13, <1>14, <1>15
  DEF ProgramNext, ProgramStep, Prepare

(* The loop finds the fields of the value in every run.                    *)
THEOREM OptionInductive == ProgramSpec => [](ProgramInv /\ OptionInv)
BY DriverInit, DriverStep, OptionInit, OptionStep, PTL DEF ProgramSpec
-----------------------------------------------------------------------------
(* An acceptable value has the two fields a refactoring is made of.        *)
LEMMA FieldsOfAcceptable ==
  ASSUME Acceptable(option)
  PROVE  /\ Fields(option)[1] = Field(option, 1)
         /\ Fields(option)[2] = Field(option, 2)
<1>1. FieldCount(option) = 2
  BY DEF Acceptable
<1> QED
  BY <1>1 DEF Fields

(* The old name is absolute, and otherwise the name that was given.        *)
LEMMA AbsoluteKeepsName ==
  ASSUME NEW name \in Seq(Token), name # << >>
  PROVE  /\ Absolute(name) \in {name, <<scope>> \o name}
         /\ Absolute(name)[1] = scope
         /\ name \in {Absolute(name), Tail(Absolute(name))}
<1>1. CASE name[1] = scope
  BY <1>1 DEF Absolute
<1>2. CASE name[1] # scope
  <2> DEFINE absolute == <<scope>> \o name
  <2>1. Absolute(name) = absolute
    BY <1>2 DEF Absolute
  <2>2. <<scope>> \in Seq(Token) /\ scope \in Token
    BY DEF Token
  <2>3. /\ absolute \in Seq(Token) /\ Len(absolute) = Len(name) + 1
        /\ absolute[1] = scope
        /\ \A i \in 1..Len(name) : absolute[i + 1] = name[i]
    BY <2>2
  <2> HIDE DEF absolute
  <2>4. /\ Tail(absolute) \in Seq(Token) /\ Len(Tail(absolute)) = Len(name)
        /\ \A i \in 1..Len(name) : Tail(absolute)[i] = name[i]
    BY <2>3
  <2>5. Tail(absolute) = name
    BY <2>4, SeqEqual
  <2> QED
    BY <2>1, <2>3, <2>5 DEF absolute
<1> QED
  BY <1>1, <1>2

(* Exactly the values with two fields that are not blank lead to a run.    *)
THEOREM TwoFieldsAreAccepted == ProgramSpec => []AcceptsExactlyTwoFields
<1>1. ProgramInv /\ OptionInv => AcceptsExactlyTwoFields
  BY DEF OptionInv, RefactoringIsAsked, AcceptsExactlyTwoFields
<1> QED
  BY <1>1, OptionInductive, PTL

(* What is run is what the two fields of the value say.                    *)
LEMMA AskedByUser ==
  ASSUME OptionInv, refactoring # NoRefactoring
  PROVE  /\ Acceptable(option)
         /\ refactoring.new = Fields(option)[2]
         /\ refactoring.old = Absolute(Fields(option)[1])
         /\ Fields(option)[1] \in NonEmpty
<1>1. /\ Acceptable(option) /\ refactoring = Asked
      /\ Field(option, 1) \in NonEmpty
  BY DEF OptionInv, RefactoringIsAsked
<1> QED
  BY <1>1, FieldsOfAcceptable DEF Asked

(* What is run is the renaming the user asked for.                         *)
THEOREM RunsWhatWasAsked == ProgramSpec => []RenamesWhatWasAsked
<1>1. ASSUME OptionInv PROVE RenamesWhatWasAsked
  <2> SUFFICES ASSUME pc \in {"run", "save"}
               PROVE  /\ refactoring.new = Fields(option)[2]
                      /\ refactoring.old \in {Fields(option)[1],
                                              <<scope>> \o Fields(option)[1]}
                      /\ refactoring.old[1] = scope
    BY DEF RenamesWhatWasAsked
  <2>1. refactoring # NoRefactoring
    BY <1>1 DEF OptionInv, RefactoringIsAsked
  <2>2. /\ refactoring.new = Fields(option)[2]
        /\ refactoring.old = Absolute(Fields(option)[1])
        /\ Fields(option)[1] \in Seq(Token) /\ Fields(option)[1] # << >>
    BY <1>1, <2>1, AskedByUser DEF NonEmpty
  <2> QED
    BY <2>2, AbsoluteKeepsName
<1> QED
  BY <1>1, OptionInductive, PTL

(* Nothing reaches the files but what the user asked for.                  *)
THEOREM OnlyTheRequestIsSaved == ProgramSpec => []FilesFollowRequest
<1>1. ASSUME OptionInv PROVE FilesFollowRequest
  <2> SUFFICES ASSUME NEW f \in File, tree[f] = "new"
               PROVE  /\ ran
                      /\ Acceptable(option)
                      /\ refactoring.new = Fields(option)[2]
                      /\ Fields(option)[1] \in {refactoring.old, Tail(refactoring.old)}
    BY DEF FilesFollowRequest
  <2>1. ran
    BY <1>1 DEF OptionInv, ChangesFollowRun, Task!Untouched
  <2>2. refactoring # NoRefactoring
    BY <1>1, <2>1 DEF OptionInv, RefactoringIsAsked
  <2>3. /\ Acceptable(option)
        /\ refactoring.new = Fields(option)[2]
        /\ refactoring.old = Absolute(Fields(option)[1])
        /\ Fields(option)[1] \in Seq(Token) /\ Fields(option)[1] # << >>
    BY <1>1, <2>2, AskedByUser DEF NonEmpty
  <2> QED
    BY <2>1, <2>3, AbsoluteKeepsName
<1> QED
  BY <1>1, OptionInductive, PTL
=============================================================================
