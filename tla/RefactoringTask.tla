-------------------------- MODULE RefactoringTask --------------------------
(***************************************************************************)
(* One run of the tool, from the first addRefactoring call to the exit     *)
(* code (lib/refactor.cpp:100-122 and lib/refactoringtask.cpp): the rename *)
(* matchers fire once per matching AST node of every translation unit,     *)
(* every firing leaves replacement groups in the shared context, save()    *)
(* flattens, sorts and deduplicates them, rewrites the tokens in in-memory *)
(* buffers and publishes the changed files one by one.                     *)
(*                                                                         *)
(* The loops of save() are walked one iteration per step, so a kill of the *)
(* process can fall between any two of them.                               *)
(*                                                                         *)
(* A source token is a (path, offset) pair.  Its length is fixed by the    *)
(* token, so a replacement does not carry it.  Paths and texts are the     *)
(* ranks of strings in string order; each file has one path.               *)
(***************************************************************************)
EXTENDS Naturals, Sequences, FiniteSets, Functions

CONSTANTS
  Path,         \* files the compiler opens, as ranks of their names
  Offset,       \* token offsets
  Text,         \* new names, as ranks
  Name,         \* qualified function names
  NSources,     \* number of source paths on the command line
  Programs,     \* possible programs: for each source, the AST nodes seen in it
  Refactorings, \* the refactorings main creates, in order
  Temporaries   \* builder temporaries per refactor() call that are not elided

(* The path "" clang gives a replacement whose token is in no file, such   *)
(* as one pasted together by a macro.  It sorts before every real path.    *)
NoPath == 0

Source == 1..NSources

(* A node of the AST that names a function: its class, the function, the   *)
(* spelling location of the name, and what it has among its ancestors: a   *)
(* template instantiation, the substitution of a template argument.  A     *)
(* reference in a template that does not depend on the template's          *)
(* arguments is one node with the template and all of its instantiations   *)
(* as ancestors: it is inside one in the units that instantiate the        *)
(* template, and in no other.                                              *)
Node == [form : {"FunctionDecl", "DeclRefExpr", "UnresolvedLookupExpr",
                 "MemberExpr", "UsingDecl"},
         target : Name, path : Path \cup {NoPath}, offset : Offset,
         inside : SUBSET {"instantiation", "substitution"}]

Replacement == [path : Path \cup {NoPath}, offset : Offset, text : Text]

Refactoring == [old : Name, new : Text]

ASSUME PathAssumption == Path \subseteq Nat \ {NoPath}
ASSUME OffsetAssumption == Offset \subseteq Nat
ASSUME TextAssumption == Text \subseteq Nat
ASSUME NSourcesAssumption == NSources \in Nat
ASSUME TemporariesAssumption == Temporaries \in Nat
ASSUME ProgramsAssumption == Programs \subseteq [Source -> SUBSET Node]
ASSUME RefactoringsAssumption == Refactorings \in Seq(Refactoring)

VARIABLES
  phase,        \* where main is
  actions,      \* RefactoringTask::actions_
  program,      \* the AST nodes of each source
  source,       \* the source ClangTool::run is at
  pending,      \* firings of the current unit still to come
  parsed,       \* sources whose unit was traversed without an error
  failed,       \* ClangTool::run saw a unit fail
  groups,       \* RefactoringContext::replacements_
  replacements, \* the vector save() works on
  unique,       \* its prefix already compacted by std::unique
  next,         \* loop index of the phase save() is in
  buffers,      \* Rewriter: per file and token, the texts put in its place
  unwritten,    \* files overwriteChangedFiles still has to publish
  allWritten,   \* overwriteChangedFiles saw no error
  disk,         \* the files, in the form of buffers
  exit          \* exit code of the process

vars == <<phase, actions, program, source, pending, parsed, failed, groups,
          replacements, unique, next, buffers, unwritten, allWritten, disk,
          exit>>

inputVars == <<actions, program>>
toolVars == <<source, pending, parsed, failed, groups>>
saveVars == <<replacements, unique, next>>
fileVars == <<buffers, unwritten, allWritten, disk>>

-----------------------------------------------------------------------------
(* A file in which every token is as the user wrote it.                    *)
Pristine == [o \in Offset |-> << >>]

(* Faulty: references in template instantiations are renamed as well.      *)
EagerAllowUnsafe == TRUE

(* RenameFunction::allowUnsafe() is false and nothing sets it.             *)
AllowUnsafe == FALSE

(* What keeps a reference from being matched, if it is among the ancestors.*)
Unless == IF AllowUnsafe THEN "substitution" ELSE "instantiation"

(* RenameFunctionAction::registerMatchers: functionDecl and declRefExpr.   *)
Matches(n, r) ==
  /\ n.target = r.old
  /\ \/ n.form = "FunctionDecl"
     \/ n.form = "DeclRefExpr" /\ Unless \notin n.inside

SamePlace(n1, n2) == n1.path = n2.path /\ n1.offset = n2.offset

(* No token is to be renamed by two refactorings, which the code does not  *)
(* look for.  main has one refactoring, for which this is no restriction.  *)
ASSUME NoConflictAssumption ==
  \A p \in Programs : \A s1, s2 \in Source :
    \A n1 \in p[s1], n2 \in p[s2] :
      SamePlace(n1, n2) /\ n1.path # NoPath =>
        \A i, j \in 1..Len(Refactorings) :
          Matches(n1, Refactorings[i]) /\ Matches(n2, Refactorings[j]) => i = j

(* The firings of the matchers in one unit: which node, which action.      *)
MatchesIn(s) == {m \in program[s] \X (1..Len(actions)) :
                   Matches(m[1], actions[m[2]])}

(* Faulty: the callbacks put in the old name.                              *)
ReplacementOfOldName(m) ==
  [path |-> m[1].path, offset |-> m[1].offset, text |-> actions[m[2]].old]

(* The replacement CallRenamer::run and DeclRenamer::run build.            *)
ReplacementOf(m) ==
  [path |-> m[1].path, offset |-> m[1].offset, text |-> actions[m[2]].new]

(* What one firing leaves in the context: the builder pushes its group     *)
(* when it is destroyed, and so does every temporary refactor() returned   *)
(* it through, before replace() was called.                                *)
GroupsOf(m) ==
  [i \in 1..(Temporaries + 1) |->
     IF i <= Temporaries THEN << >> ELSE <<ReplacementOf(m)>>]

(* clang's operator< on replacements, with equality.                       *)
NotAfter(r1, r2) ==
  \/ r1.offset < r2.offset
  \/ /\ r1.offset = r2.offset
     /\ \/ r1.path < r2.path
        \/ r1.path = r2.path /\ r1.text <= r2.text

Sorted(s) == \A i, j \in DOMAIN s : i < j => NotAfter(s[i], s[j])

Count(s, r) == Cardinality({i \in DOMAIN s : s[i] = r})

(* The orders std::sort may leave the elements of s in.                    *)
SortedVersions(s) ==
  {t \in [DOMAIN s -> Range(s)] :
     Sorted(t) /\ \A r \in Range(s) : Count(t, r) = Count(s, r)}

IsApplicable(r) == r.path # NoPath

(* Rewriter::ReplaceText over a token: it erases as many characters as the *)
(* token had, from wherever the token begins now, and inserts the text.    *)
(* One replacement leaves the text alone in the token's place; a second    *)
(* one mixes both texts, unless all lengths happen to agree.               *)
Rewrite(content, r) ==
  [content EXCEPT ![r.path][r.offset] = Append(@, r.text)]

ChangedFiles == {f \in Path : buffers[f] # Pristine}
-----------------------------------------------------------------------------
Init ==
  /\ phase = "setup"
  /\ actions = << >>
  /\ program \in Programs
  /\ source = 1
  /\ pending = {}
  /\ parsed = {}
  /\ failed = FALSE
  /\ groups = << >>
  /\ replacements = << >>
  /\ unique = << >>
  /\ next = 1
  /\ buffers = [f \in Path |-> Pristine]
  /\ unwritten = {}
  /\ allWritten = TRUE
  /\ disk = [f \in Path |-> Pristine]
  /\ exit = "none"

(* RefactoringTask::addRefactoring, once per refactoring of main's list.   *)
AddRefactoring ==
  /\ phase = "setup"
  /\ Len(actions) < Len(Refactorings)
  /\ actions' = Append(actions, Refactorings[Len(actions) + 1])
  /\ UNCHANGED <<phase, program, toolVars, saveVars, fileVars, exit>>

(* RefactoringTask::run registers the matchers and starts the tool.        *)
StartRun ==
  /\ phase = "setup"
  /\ Len(actions) = Len(Refactorings)
  /\ phase' = "run"
  /\ UNCHANGED <<inputVars, toolVars, saveVars, fileVars, exit>>

(* ClangTool::run finds no compile command for the source and goes on.     *)
SkipSource ==
  /\ phase = "run"
  /\ source \in Source
  /\ source' = source + 1
  /\ UNCHANGED <<phase, inputVars, pending, parsed, failed, groups, saveVars,
                 fileVars, exit>>

(* The next source is parsed and the traversal of its AST begins.          *)
ParseSource ==
  /\ phase = "run"
  /\ source \in Source
  /\ phase' = "match"
  /\ pending' = MatchesIn(source)
  /\ UNCHANGED <<inputVars, source, parsed, failed, groups, saveVars,
                 fileVars, exit>>

(* One matcher callback: CallRenamer::run or DeclRenamer::run, with the    *)
(* destruction of its builder.                                             *)
MatchNode ==
  /\ phase = "match"
  /\ \E m \in pending :
       /\ pending' = pending \ {m}
       /\ groups' = groups \o GroupsOf(m)
  /\ UNCHANGED <<phase, inputVars, source, parsed, failed, saveVars,
                 fileVars, exit>>

(* The traversal of a unit ends.                                           *)
FinishSource ==
  /\ phase = "match"
  /\ pending = {}
  /\ parsed' = parsed \cup {source}
  /\ source' = source + 1
  /\ phase' = "run"
  /\ UNCHANGED <<inputVars, pending, failed, groups, saveVars, fileVars,
                 exit>>

(* A unit has errors.  What was matched in it stays in the context, and    *)
(* ClangTool::run goes on with the next source.                            *)
FailSource ==
  /\ phase = "match"
  /\ failed' = TRUE
  /\ pending' = {}
  /\ source' = source + 1
  /\ phase' = "run"
  /\ UNCHANGED <<inputVars, parsed, groups, saveVars, fileVars, exit>>

(* Faulty: main does not look at the result of run().                      *)
EndRunRegardless ==
  /\ phase = "run"
  /\ source = NSources + 1
  /\ phase' = "flatten"
  /\ UNCHANGED <<inputVars, toolVars, saveVars, fileVars, exit>>

(* RefactoringTask::run returns to main: an error ends the process, else   *)
(* save() begins.                                                          *)
EndRun ==
  /\ phase = "run"
  /\ source = NSources + 1
  /\ IF failed
     THEN phase' = "exited" /\ exit' = "failure"
     ELSE phase' = "flatten" /\ UNCHANGED exit
  /\ UNCHANGED <<inputVars, toolVars, saveVars, fileVars>>
-----------------------------------------------------------------------------
(* getReplacements: one iteration of its loop over the groups.             *)
FlattenGroup ==
  /\ phase = "flatten"
  /\ next <= Len(groups)
  /\ replacements' = replacements \o groups[next]
  /\ next' = next + 1
  /\ UNCHANGED <<phase, inputVars, toolVars, unique, fileVars, exit>>

(* Faulty: only neighbours are deduplicated, the vector is not sorted.     *)
LeaveUnsorted ==
  /\ phase = "flatten"
  /\ next = Len(groups) + 1
  /\ next' = 1
  /\ phase' = "unique"
  /\ UNCHANGED <<inputVars, toolVars, replacements, unique, fileVars, exit>>

(* std::sort of Support::deduplicate: any order its comparison allows.     *)
SortReplacements ==
  /\ phase = "flatten"
  /\ next = Len(groups) + 1
  /\ replacements' \in SortedVersions(replacements)
  /\ next' = 1
  /\ phase' = "unique"
  /\ UNCHANGED <<inputVars, toolVars, unique, fileVars, exit>>

(* Faulty: replacements at one offset are taken for equal in any file.     *)
KeepIfNewOffset ==
  /\ phase = "unique"
  /\ next <= Len(replacements)
  /\ unique' = IF /\ unique # << >>
                  /\ unique[Len(unique)].offset = replacements[next].offset
               THEN unique
               ELSE Append(unique, replacements[next])
  /\ next' = next + 1
  /\ UNCHANGED <<phase, inputVars, toolVars, replacements, fileVars, exit>>

(* Faulty: the loop does not go on from a duplicate.                       *)
KeepIfNewOrStay ==
  /\ phase = "unique"
  /\ next <= Len(replacements)
  /\ IF unique # << >> /\ unique[Len(unique)] = replacements[next]
     THEN UNCHANGED <<unique, next>>
     ELSE /\ unique' = Append(unique, replacements[next])
          /\ next' = next + 1
  /\ UNCHANGED <<phase, inputVars, toolVars, replacements, fileVars, exit>>

(* std::unique of Support::deduplicate: one element is kept unless it      *)
(* equals the last one kept.                                               *)
KeepIfNew ==
  /\ phase = "unique"
  /\ next <= Len(replacements)
  /\ unique' = IF unique # << >> /\ unique[Len(unique)] = replacements[next]
               THEN unique
               ELSE Append(unique, replacements[next])
  /\ next' = next + 1
  /\ UNCHANGED <<phase, inputVars, toolVars, replacements, fileVars, exit>>

(* The erase of Support::deduplicate.                                      *)
EraseRest ==
  /\ phase = "unique"
  /\ next = Len(replacements) + 1
  /\ replacements' = unique
  /\ next' = 1
  /\ phase' = "apply"
  /\ UNCHANGED <<inputVars, toolVars, unique, fileVars, exit>>

(* applyAllReplacements: one iteration.  A replacement without a file is   *)
(* skipped; the message about it changes no state.                         *)
ApplyReplacement ==
  /\ phase = "apply"
  /\ next <= Len(replacements)
  /\ buffers' = IF IsApplicable(replacements[next])
                THEN Rewrite(buffers, replacements[next])
                ELSE buffers
  /\ next' = next + 1
  /\ UNCHANGED <<phase, inputVars, toolVars, replacements, unique, unwritten,
                 allWritten, disk, exit>>

(* overwriteChangedFiles begins.                                           *)
StartWriting ==
  /\ phase = "apply"
  /\ next = Len(replacements) + 1
  /\ unwritten' = ChangedFiles
  /\ phase' = "write"
  /\ UNCHANGED <<inputVars, toolVars, saveVars, buffers, allWritten, disk,
                 exit>>

(* One changed file is published by renaming a temporary file over it.     *)
WriteFile ==
  /\ phase = "write"
  /\ \E f \in unwritten :
       /\ unwritten' = unwritten \ {f}
       /\ disk' = [disk EXCEPT ![f] = buffers[f]]
  /\ UNCHANGED <<phase, inputVars, toolVars, saveVars, buffers, allWritten,
                 exit>>

(* One changed file cannot be written; the other files are still tried.    *)
FailWrite ==
  /\ phase = "write"
  /\ \E f \in unwritten : unwritten' = unwritten \ {f}
  /\ allWritten' = FALSE
  /\ UNCHANGED <<phase, inputVars, toolVars, saveVars, buffers, disk, exit>>

(* Faulty: save() always reports success.                                  *)
FinishWell ==
  /\ phase = "write"
  /\ unwritten = {}
  /\ exit' = "success"
  /\ phase' = "exited"
  /\ UNCHANGED <<inputVars, toolVars, saveVars, fileVars>>

(* save() returns and main turns its result into the exit code.            *)
Finish ==
  /\ phase = "write"
  /\ unwritten = {}
  /\ exit' = IF allWritten THEN "success" ELSE "failure"
  /\ phase' = "exited"
  /\ UNCHANGED <<inputVars, toolVars, saveVars, fileVars>>

Stopped == phase \in {"exited", "killed"}

(* The process dies.  Files already renamed into place stay.               *)
Kill ==
  /\ ~Stopped
  /\ phase' = "killed"
  /\ UNCHANGED <<inputVars, toolVars, saveVars, fileVars, exit>>

Step ==
  \/ AddRefactoring \/ StartRun
  \/ SkipSource \/ ParseSource \/ MatchNode \/ FinishSource \/ FailSource
  \/ EndRun
  \/ FlattenGroup \/ SortReplacements \/ KeepIfNew \/ EraseRest
  \/ ApplyReplacement \/ StartWriting \/ WriteFile \/ FailWrite \/ Finish

Next == Step \/ Kill

Spec == Init /\ [][Next]_vars

(* A single thread that nothing blocks: main takes a step while one is     *)
(* left.  Nothing makes a kill happen.                                     *)
FairSpec == Spec /\ WF_vars(Step)
-----------------------------------------------------------------------------
(* The replacements of the units that were traversed without an error.     *)
Matched == {ReplacementOf(m) : m \in UNION {MatchesIn(s) : s \in parsed}}

At(r, f, o) == r.path = f /\ r.offset = o

(* File f with every matched token of it replaced once.                    *)
Renamed(f) ==
  [o \in Offset |->
     IF \E r \in Matched : At(r, f, o)
     THEN <<(CHOOSE r \in Matched : At(r, f, o)).text>>
     ELSE << >>]

FileContents == [Path -> [Offset -> Seq(Text)]]

TypeOK ==
  /\ phase \in {"setup", "run", "match", "flatten", "unique", "apply",
                "write", "exited", "killed"}
  /\ actions \in Seq(Refactoring)
  /\ program \in [Source -> SUBSET Node]
  /\ source \in IF phase = "match" THEN Source ELSE 1..(NSources + 1)
  /\ pending \subseteq Node \X (1..Len(actions))
  /\ parsed \subseteq Source
  /\ failed \in BOOLEAN
  /\ groups \in Seq(Seq(Replacement))
  /\ replacements \in Seq(Replacement)
  /\ unique \in Seq(Replacement)
  /\ next \in Nat \ {0}
  /\ buffers \in FileContents
  /\ unwritten \subseteq Path
  /\ allWritten \in BOOLEAN
  /\ disk \in FileContents
  /\ exit \in {"none", "success", "failure"}

(* Every file on disk is, at every moment and after any failure or kill,   *)
(* either as the user wrote it or has every matched token replaced exactly *)
(* once: duplicate replacements from headers seen by several units and     *)
(* from template instantiations are gone before the first write            *)
(* (RefactoringTask::save).                                                *)
WholeFilesOnDisk ==
  \A f \in Path : disk[f] \in {Pristine, Renamed(f)}

(* Exit code 0 means that no unit failed and that every file has all its   *)
(* matched tokens replaced; exit code 1 means that one of these is not so  *)
(* (main and RefactoringTask::save).                                       *)
ExitTellsTruth ==
  phase = "exited" =>
    (exit = "success" <=> ~failed /\ \A f \in Path : disk[f] = Renamed(f))

(* If a unit has errors, not even the files of the units that were fine    *)
(* are touched: main does not save what the run left in the context.       *)
FailureLeavesFilesAlone == failed => \A f \in Path : disk[f] = Pristine

MeansOnly(f, o, function) ==
  \A s \in Source : \A n \in program[s] :
    n.path = f /\ n.offset = o => n.target = function

(* A function gets its new name in all places or in none: if one token     *)
(* that means this function and no other was renamed, then after exit code *)
(* 0 every declaration of it in a traversed unit has the same new name, be *)
(* it in another file or another unit, and so has every reference in       *)
(* ordinary code.  Nothing is said of references that clang resolves in a  *)
(* template, of using-declarations and member calls, which the matchers do *)
(* not see (registerMatchers through overwriteChangedFiles).               *)
RenameIsConsistent ==
  phase = "exited" /\ exit = "success" =>
    \A f \in Path, o \in Offset, function \in Name :
      disk[f][o] # << >> /\ MeansOnly(f, o, function) =>
        \A s \in parsed : \A n \in program[s] :
          (/\ n.target = function
           /\ n.path # NoPath
           /\ \/ n.form = "FunctionDecl"
              \/ n.form = "DeclRefExpr" /\ n.inside = {})
            => disk[n.path][n.offset] = disk[f][o]

(* A token that all units resolve in template instantiations only is left  *)
(* alone, even if all of them take it for the function that is renamed.    *)
(* So are names that are in no node but an unresolved lookup, a member     *)
(* call or a using-declaration (registerMatchers; in simple_project of     *)
(* tests/cli the calls of func1 in CallMeSafe and CallMeUnsafe1 stay).     *)
DependentNamesStay ==
  \A f \in Path, o \in Offset :
    (\A s \in Source : \A n \in program[s] :
       n.path = f /\ n.offset = o =>
         /\ n.form # "FunctionDecl"
         /\ n.form = "DeclRefExpr" => "instantiation" \in n.inside)
    => disk[f][o] = << >>

(* main comes to its end, whatever fails on the way.                       *)
Termination == <>Stopped

(* What a user sees of the run: files renamed one at a time as a whole.    *)
Rename == INSTANCE AtomicRename WITH
  File <- Path,
  tree <- [f \in Path |-> IF disk[f] = Pristine THEN "old"
                          ELSE IF disk[f] = Renamed(f) THEN "new"
                          ELSE "torn"],
  plan <- {f \in Path : Renamed(f) # Pristine},
  result <- IF phase = "killed" THEN "died" ELSE exit

(* The run implements the atomic renaming of files: what is to be renamed  *)
(* is settled before the first file is published, only planned files are,  *)
(* and the exit code says whether all of them were.                        *)
ImplementsRename == Rename!Spec
=============================================================================
