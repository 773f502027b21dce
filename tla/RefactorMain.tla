---------------------------- MODULE RefactorMain ----------------------------
(***************************************************************************)
(* The command line driver (lib/refactor.cpp): it collects the factories   *)
(* of the registered modules, turns the value of -rename-function into     *)
(* arguments and these into a refactoring, and maps what run() and save()  *)
(* return to the exit code.  What run() and save() do is in                *)
(* RefactoringTask; here they only succeed or fail.                        *)
(*                                                                         *)
(* The option's value is a sequence of tokens: words, commas, blanks and   *)
(* the scope operator.                                                     *)
(***************************************************************************)
EXTENDS Naturals, Sequences, FiniteSets

CONSTANTS
  Word,         \* words an option value is made of
  OptionValues, \* the values of -rename-function
  Modules       \* per registered module, the refactorings it has factories for

comma == ","
blank == " "
scope == "::"

Token == Word \cup {comma, blank, scope}

NotGiven == <<"no -rename-function">>
NoRefactoring == [old |-> << >>, new |-> << >>]

ASSUME OptionValuesAssumption == OptionValues \subseteq Seq(Token)
ASSUME ModulesAssumption ==
  /\ Modules \in Seq(SUBSET STRING)
  /\ \E i \in 1..Len(Modules) : "rename-function" \in Modules[i]

VARIABLES
  pc,          \* where main is
  option,      \* the value of RenameOption, or NotGiven
  syntaxCheck, \* FinalSyntaxCheck
  nextModule,  \* loop index over the registry
  factories,   \* names in RefactoringFactories
  rest,        \* what Support::split has not consumed
  args,        \* RefactoringArgs under construction
  refactoring, \* the refactoring that was created
  ran, saved,  \* run() and save() succeeded
  returncode

vars == <<pc, option, syntaxCheck, nextModule, factories, rest, args,
          refactoring, ran, saved, returncode>>

commandLine == <<option, syntaxCheck>>
registry == <<nextModule, factories>>
results == <<ran, saved>>

-----------------------------------------------------------------------------
(* StringRef::split: where the first comma is, or the end of the string.   *)
FirstComma(s) ==
  CHOOSE i \in 1..(Len(s) + 1) :
    /\ i = Len(s) + 1 \/ s[i] = comma
    /\ \A j \in 1..(i - 1) : s[j] # comma

(* StringRef::trim(" \t\n\r").                                             *)
Trim(s) ==
  LET solid == {i \in 1..Len(s) : s[i] # blank}
  IN  IF solid = {}
      THEN << >>
      ELSE SubSeq(s, CHOOSE i \in solid : \A j \in solid : i <= j,
                     CHOOSE i \in solid : \A j \in solid : i >= j)

(* RenameFunction's constructor makes the old name an absolute one.        *)
Absolute(name) == IF name[1] = scope THEN name ELSE <<scope>> \o name

Return(code) == pc' = "returned" /\ returncode' = code
-----------------------------------------------------------------------------
Init ==
  /\ pc = "modules"
  /\ option \in OptionValues \cup {NotGiven}
  /\ syntaxCheck \in BOOLEAN
  /\ nextModule = 1
  /\ factories = {}
  /\ rest = << >>
  /\ args = << >>
  /\ refactoring = NoRefactoring
  /\ ran = FALSE
  /\ saved = FALSE
  /\ returncode = 0

(* One module of RefactoringModuleRegistry adds its factories; one of the  *)
(* same name replaces an earlier one.                                      *)
AddFactories ==
  /\ pc = "modules"
  /\ nextModule <= Len(Modules)
  /\ factories' = factories \cup Modules[nextModule]
  /\ nextModule' = nextModule + 1
  /\ UNCHANGED <<pc, commandLine, rest, args, refactoring, results, returncode>>

(* Faulty: the loop over the registry stops before the last module.        *)
CheckOptionEarly ==
  /\ pc = "modules"
  /\ nextModule >= Len(Modules)
  /\ IF option = NotGiven
     THEN Return(1) /\ UNCHANGED rest
     ELSE pc' = "split" /\ rest' = option /\ UNCHANGED returncode
  /\ UNCHANGED <<commandLine, registry, args, refactoring, results>>

(* Without -rename-function there is nothing to do, which is an error.     *)
CheckOption ==
  /\ pc = "modules"
  /\ nextModule > Len(Modules)
  /\ IF option = NotGiven
     THEN Return(1) /\ UNCHANGED rest
     ELSE pc' = "split" /\ rest' = option /\ UNCHANGED returncode
  /\ UNCHANGED <<commandLine, registry, args, refactoring, results>>

(* Faulty: an empty argument is passed over without going on behind it, so *)
(* that the loop stays where it is.                                        *)
SplitWithoutEnd ==
  /\ pc = "split"
  /\ rest # << >>
  /\ LET cut == FirstComma(rest)
         arg == Trim(SubSeq(rest, 1, cut - 1))
     IN  /\ arg # << >>
         /\ rest' = SubSeq(rest, cut + 1, Len(rest))
         /\ args' = Append(args, arg)
  /\ UNCHANGED <<pc, commandLine, registry, refactoring, results, returncode>>

(* Faulty: arguments are not trimmed.                                      *)
SplitUntrimmed ==
  /\ pc = "split"
  /\ rest # << >>
  /\ LET cut == FirstComma(rest)
         arg == SubSeq(rest, 1, cut - 1)
     IN  /\ rest' = SubSeq(rest, cut + 1, Len(rest))
         /\ IF arg = << >>
            THEN Return(1) /\ UNCHANGED args
            ELSE args' = Append(args, arg) /\ UNCHANGED <<pc, returncode>>
  /\ UNCHANGED <<commandLine, registry, refactoring, results>>

(* Faulty: an empty argument is an argument.                               *)
SplitEmptyToo ==
  /\ pc = "split"
  /\ rest # << >>
  /\ LET cut == FirstComma(rest)
     IN  /\ args' = Append(args, Trim(SubSeq(rest, 1, cut - 1)))
         /\ rest' = SubSeq(rest, cut + 1, Len(rest))
  /\ UNCHANGED <<pc, commandLine, registry, refactoring, results, returncode>>

(* One iteration of Support::split with the body RefactoringArgs gives it: *)
(* an empty argument throws, and main catches.                             *)
SplitArgument ==
  /\ pc = "split"
  /\ rest # << >>
  /\ LET cut == FirstComma(rest)
         arg == Trim(SubSeq(rest, 1, cut - 1))
     IN  /\ rest' = SubSeq(rest, cut + 1, Len(rest))
         /\ IF arg = << >>
            THEN Return(1) /\ UNCHANGED args
            ELSE args' = Append(args, arg) /\ UNCHANGED <<pc, returncode>>
  /\ UNCHANGED <<commandLine, registry, refactoring, results>>

(* Faulty: surplus arguments are ignored.                                  *)
CreateFromFirstTwo ==
  /\ pc = "split"
  /\ rest = << >>
  /\ IF "rename-function" \notin factories
     THEN pc' = "add" /\ UNCHANGED <<refactoring, returncode>>
     ELSE IF Len(args) < 2
          THEN Return(1) /\ UNCHANGED refactoring
          ELSE /\ refactoring' = [old |-> Absolute(args[1]), new |-> args[2]]
               /\ pc' = "add"
               /\ UNCHANGED returncode
  /\ UNCHANGED <<commandLine, registry, rest, args, results>>

(* RefactoringFactories::create and RenameFunction's constructor, which    *)
(* throws unless there are two arguments.  With no factory of that name    *)
(* the refactoring is a null pointer.                                      *)
Create ==
  /\ pc = "split"
  /\ rest = << >>
  /\ IF "rename-function" \notin factories
     THEN pc' = "add" /\ UNCHANGED <<refactoring, returncode>>
     ELSE IF Len(args) # 2
          THEN Return(1) /\ UNCHANGED refactoring
          ELSE /\ refactoring' = [old |-> Absolute(args[1]), new |-> args[2]]
               /\ pc' = "add"
               /\ UNCHANGED returncode
  /\ UNCHANGED <<commandLine, registry, rest, args, results>>

(* main dereferences the refactoring for addRefactoring: a null pointer is *)
(* undefined behaviour, here the end of the process.                       *)
AddRefactoring ==
  /\ pc = "add"
  /\ pc' = IF refactoring = NoRefactoring THEN "crashed" ELSE "run"
  /\ UNCHANGED <<commandLine, registry, rest, args, refactoring, results,
                 returncode>>

(* Faulty: main goes on to save() whatever run() returned.                 *)
RunAndIgnore ==
  /\ pc = "run"
  /\ ran' \in BOOLEAN
  /\ pc' = "save"
  /\ UNCHANGED <<commandLine, registry, rest, args, refactoring, saved,
                 returncode>>

(* RefactoringTask::run: a nonzero result is main's result.                *)
Run ==
  /\ pc = "run"
  /\ ran' \in BOOLEAN
  /\ IF ran'
     THEN pc' = "save" /\ UNCHANGED returncode
     ELSE Return(1)
  /\ UNCHANGED <<commandLine, registry, rest, args, refactoring, saved>>

(* Faulty: the truth value save() returns is taken for an exit code.       *)
SaveAsCode ==
  /\ pc = "save"
  /\ saved' \in BOOLEAN
  /\ Return(IF saved' THEN 1 ELSE 0)
  /\ UNCHANGED <<commandLine, registry, rest, args, refactoring, ran>>

(* RefactoringTask::save, the last thing main does.                        *)
Save ==
  /\ pc = "save"
  /\ saved' \in BOOLEAN
  /\ Return(IF saved' THEN 0 ELSE 1)
  /\ UNCHANGED <<commandLine, registry, rest, args, refactoring, ran>>

Next ==
  \/ AddFactories \/ CheckOption \/ SplitArgument \/ Create
  \/ AddRefactoring \/ Run \/ Save

Spec == Init /\ [][Next]_vars
-----------------------------------------------------------------------------
(* The comma separated fields of a value, by the positions of its commas.  *)
Commas(value) == {i \in 1..Len(value) : value[i] = comma}

EndOfField(value, k) ==
  CHOOSE i \in Commas(value) \cup {Len(value) + 1} :
    Cardinality({j \in Commas(value) : j < i}) = k - 1

Field(value, k) ==
  Trim(SubSeq(value, IF k = 1 THEN 1 ELSE EndOfField(value, k - 1) + 1,
              EndOfField(value, k) - 1))

(* A comma that ends the value opens no further field.                     *)
FieldCount(value) ==
  Cardinality(Commas(value))
    + (IF value = << >> \/ value[Len(value)] = comma THEN 0 ELSE 1)

Fields(value) == [k \in 1..FieldCount(value) |-> Field(value, k)]

Acceptable(value) ==
  /\ value # NotGiven
  /\ FieldCount(value) = 2
  /\ \A k \in 1..2 : Fields(value)[k] # << >>

TypeOK ==
  /\ pc \in {"modules", "split", "add", "run", "save", "returned", "crashed"}
  /\ option \in OptionValues \cup {NotGiven}
  /\ syntaxCheck \in BOOLEAN
  /\ nextModule \in 1..(Len(Modules) + 1)
  /\ factories \subseteq UNION {Modules[i] : i \in 1..Len(Modules)}
  /\ rest \in Seq(Token)
  /\ args \in Seq(Seq(Token) \ {<< >>})
  /\ refactoring \in [old : Seq(Token), new : Seq(Token)]
  /\ ran \in BOOLEAN
  /\ saved \in BOOLEAN
  /\ returncode \in {0, 1}

(* A value leads to a run exactly if it has two fields that are not blank, *)
(* however it is spelled: one trailing comma is let through, any other     *)
(* empty field is refused (fromString and RenameFunction's constructor).   *)
AcceptsExactlyTwoFields ==
  /\ pc \in {"run", "save"} => Acceptable(option)
  /\ pc = "returned" /\ returncode = 1 /\ ~Acceptable(option) => ~ran
  /\ pc = "returned" /\ Acceptable(option) => refactoring # NoRefactoring

(* What is run is the renaming the user asked for: the first field, made   *)
(* absolute, to the second, without the blanks around them.                *)
RenamesWhatWasAsked ==
  pc \in {"run", "save"} =>
    /\ refactoring.new = Fields(option)[2]
    /\ refactoring.old \in {Fields(option)[1], <<scope>> \o Fields(option)[1]}
    /\ refactoring.old[1] = scope

(* Exit code 0 means that a refactoring ran and was saved; there is no     *)
(* other way to it, whatever the command line (main).                      *)
ZeroMeansSaved ==
  pc = "returned" => (returncode = 0 <=> ran /\ saved)

(* The refactoring main dereferences is never the null pointer create()    *)
(* returns for a name no module has registered.                            *)
NoNullRefactoring == pc # "crashed"

(* With -final-syntax-check, exit code 0 means that the new name was       *)
(* checked to leave correct syntax, so it is a single word.                *)
SyntaxIsChecked ==
  pc = "returned" /\ returncode = 0 /\ syntaxCheck =>
    Len(refactoring.new) = 1 /\ refactoring.new[1] \in Word
=============================================================================
