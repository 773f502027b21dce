# Verification of refactor-cpp

refactor-cpp renames C++ functions in whole projects: it parses every
translation unit with clang, collects replacements from AST matchers, and
rewrites the files. This directory holds TLA+ models of the program, TLC runs
that check them on small instances, and TLAPS proofs for all instances.

## 1. The system

| Component | Code (under `src/lib/`) | State | Operations |
|---|---|---|---|
| Driver | `refactor.cpp`, `refactoringargs.*`, `utils/strings.h` | options, factories, list of refactorings, return code | collect factories, split the option's value, create refactorings, `run`, `save` |
| Module registry, factories | `refactoringmodule.*`, `refactoringregistry.h`, `refactorings/rename/renamemodule.cpp` | name to factory map | register, create |
| Rename-function | `refactorings/rename/renamefunction.*` | old and new name, `allow_unsafe_` | register matchers, one callback per match |
| Refactoring task | `refactoringtask.*`, `refactoringcontext.h`, `replacementgroups.*`, `replacementbuilder.*`, `refactoring.*`, `utils/algorithm.h` | actions, replacement groups, the tool | `addRefactoring`, `run`, `save` |
| Clang installation | `internals/clang.*`, `internals/version.h` | the prefix | set prefix, resource directory, arguments adjuster, version macros |
| Naming styles | `namestyle.*` | registry of styles | split an identifier, join words in a style |
| Hooks | `hook.*` | list of hooks | register, notify of a moved file |
| Function definition parser | `utils/parsers.*` | none | parse, `isIdentifier` |
| Diagnostics | `utils/utils.*` | a static diagnostic id | `printRenaming` |

How they interact. `main` builds one `RefactoringTask` and lets every module of
the registry add its factories. It turns `-rename-function OLD,NEW` into a
`RenameFunction` and hands that to the task, which keeps the action it creates.
`run()` registers the matchers of all actions and starts clang's tool; the tool
calls back into the actions once per matching node of each unit. A callback
creates a `ReplacementBuilder`, whose destructor pushes a group of replacements
into the context all actions share. After a successful `run()`, `save()`
flattens the groups, sorts and deduplicates the replacements, applies them to
in-memory buffers and overwrites the changed files. Naming styles, hooks, the
parser and the diagnostics are library code with no caller in the program yet.
`RefactoringTask` is library code too, for clients other than `main`: nothing
keeps them from running and saving several times.

What is hard. The program has one thread, so what is hard is not interleaving
but order, duplicates and failure: the same token matched by several units and
instantiations, in any order; a unit that fails after half of it was matched;
one of several files that cannot be written; a process that dies between two
files; a name in a template that is matched, or not, depending on who instantiates
it; replacements that
outlive the text they were computed from, when a task is used again or a file is
edited; a hook that calls back into the registry that calls it; the edges of the
grammars. `PROJECT.json` lists the hazards at their lines.

What makes each component correct:

* Task: however often it is run and saved, a file that is still what was read
  gets exactly the renamings that were added, and one that is not does not
  spoil another.
* Task and rename: each file on disk is at every moment untouched or renamed as
  a whole; exit code 0 means everything was renamed that was meant to be;
  nothing is touched after a failure; a function has its new name in all its
  declarations and ordinary references or in none; what only template
  instantiations resolve is left alone.
* Driver: exactly the values with two nonblank fields lead to a run, the run
  renames what was asked, exit code 0 means run and saved, the exit code tells
  what became of the files, and the program comes to an end.
* Naming styles: splitting partitions the letters and digits, words begin where
  a reader sees them begin, conversion keeps the letters and can be read back.
* Clang installation: the user's resource directory wins, the prefix can be set,
  versions compare as they are read.
* Hooks: every hook registered hears of every move, once, in order of
  registration.
* Parser: it accepts qualified names and nothing else.

## 2. The modules

| Module | Models | Used by |
|---|---|---|
| `RefactoringTask` | one session of `main`, step by step: task, context, builder, rename matchers and callbacks | `MCRefactoringTask`, `RefactoringTaskProofs` |
| `AtomicRename` | what a run promises about files, without any of the mechanism | `RefactoringTask` (refinement), `RefactorProgram` (composition) |
| `RefactoringTaskProofs` | the theorems about `RefactoringTask`; that it implements `AtomicRename` | |
| `TaskSession` | the task as a library class: sessions of several runs and saves | `MCTaskSession`, `TaskSessionProofs` |
| `TaskSessionProofs` | the theorems about `TaskSession` | |
| `RefactorMain` | `main`, argument splitting, factories, constructor of `RenameFunction` | `RefactorProgram`, `MCRefactorMain` |
| `RefactorProgram` | the driver on top of a task that keeps the promise of `AtomicRename` | `MCRefactorProgram` |
| `RefactorProgramProofs` | the theorems about the driver | |
| `NameStyle` | grammar, split, join, the tables `boost` and `llvm` | `MCNameStyle`, `NameStyleProofs` |
| `NameStyleProofs` | the theorems about `NameStyle` | |
| `Version` | versions and the macros that compare them | `ClangInstallation` |
| `ClangInstallation` | `Clang` and the arguments adjuster | `ClangInstallationProofs` |
| `ClangInstallationProofs` | the theorems about the installation and versions | |
| `Hooks` | `HookRegistry` | `MCHooks`, `HooksProofs` |
| `HooksProofs` | the theorems about `Hooks` | |
| `Parsers` | the grammars of function definitions and identifiers | `ParsersProofs` |
| `ParsersProofs` | the theorems about `Parsers` | |
| `Subsequence` | what is left of a sequence when only some positions are kept | `TaskSession`, `DataInduction` |
| `DataInduction` | lemmas about recursive functions, concatenation, subsequences, finite sets | the modules with proofs |

### RefactoringTask

State and code: `actions` is `actions_`, `groups` the context's
`replacements_`, `replacements` and `unique` the vector in `save()` and its part
already compacted by `std::unique`, `buffers` the rewriter, `disk` the files,
`exit` the result of `main`. `phase` is where `main` is; `next` is the index of
the loop it is in. Each loop of `save()` takes one step per iteration, so that a
kill can fall between any two.

| Action | Code |
|---|---|
| `AddRefactoring` | `RefactoringTask::addRefactoring` |
| `StartRun`, `EndRun` | begin and end of `run()`, and `main`'s look at its result |
| `SkipSource`, `ParseSource`, `FinishSource`, `FailSource` | `ClangTool::run`: no compile command, a unit parsed, traversed, failed (external) |
| `MatchNode` | `CallRenamer::run`, `DeclRenamer::run`, builder destructor |
| `FlattenGroup` | `getReplacements` |
| `SortReplacements`, `KeepIfNew`, `EraseRest` | `Support::deduplicate` |
| `ApplyReplacement` | `applyAllReplacements` |
| `StartWriting`, `WriteFile`, `FailWrite` | `overwriteChangedFiles` (external) |
| `Finish` | the result of `save()` and `main` |
| `Kill` | the process dies |

Abstractions. A program is, per source, the set of AST nodes that name functions:
their class, which function, where its name is spelled, and whether an
instantiation or a substituted template argument is among the ancestors. The
matchers look at declarations and at `DeclRefExpr`s outside of instantiations;
unresolved lookups, member calls and using-declarations are in the model to show
that nothing sees them. A reference in a template that depends on none of the
template's arguments is one node, shared by the template and its instantiations
(as in `CallMeSafe` of the test `simple_project`): it is inside an instantiation
in the units that instantiate the template and in no other.

Skipping, failing and the order of the firings are free. Texts and paths are ranks in string order, which is all that
sorting looks at. A token has its length by its place. A buffer records, per
token, the sequence of texts put in its place; more than one is a mix of texts.
What a token means is not restricted: a token out of a macro may mean two
functions, and if one of them is renamed both are. A replacement without file (a
token pasted by a macro) has the path `NoPath` and is skipped by `applyAllReplacements`.

Temporaries that the compiler does not elide push empty groups: their number per
`refactor()` call is the constant `Temporaries`.

### TaskSession

The same code seen from a client that uses the class freely: `AddRefactoring`,
`StartRun`, `ParseUnit` or `SkipUnit` per unit, `Save`, `DropGroup` (a client may
change the groups it gets from `getReplacementGroups`), and `Edit`, somebody
else's change of a file. What `RefactoringTask` takes apart is one step here, and
what it abstracts is there: a file is a sequence of characters, a replacement is
path, offset, length and text, and `ReplaceText` moves offsets by the deltas of
what was replaced in front. `context` is a bag, since only the number of copies
of a replacement matters to what `deduplicate` leaves.

Of a unit that fails, `ParseUnit` keeps the replacements up to some place in each of
its files, where `RefactoringTask` keeps any of them: the number of subsets would
be too large here. The proofs of the session use no more than that it is some of
them.

Clang's file manager (external) names a file by the path it has last come to know
it by (`NameOf`) and remembers the size it first saw: a file of another size by
now is read as it is, or cut off or filled up (`Readings`).

`Sound` says for which files `save()` can be right: nobody changed the file since
it was read, no two replacements want one place, and it has one path or the names
have one length. Two histories serve the properties. `covered` holds pairs of a
file and a refactoring: a run in which nothing failed has collected the places of
this refactoring in this file, and the file is still what it was then. `changed`
are the files that somebody edited after they were read, or that `save()` wrote
although they were not sound or with names of another length.

### RefactorMain

An option value is a sequence of words, commas, blanks and `::`. `SplitArgument`
is one iteration of `Support::split` with the lambda of
`RefactoringArgs::fromString`. `Run` and `Save` only succeed or fail.
`main` dereferences what `create()` returns; the action `AddRefactoring` ends in
`crashed` if that is the null pointer.

`RefactorProgram` replaces the success or failure by a task. Its variables
`tree`, `plan` and `result` are those of `AtomicRename`; each step of the program
is one of the driver, one of the task, or both: a return with an error is also a
failure of the task, and `save()` succeeds exactly if all planned files are
written. That the task behaves so is what `RunImplementsRename` shows of
`RefactoringTask`.

### NameStyle

A character is its class: small letter, capital, digit, underscore or other. A
grammar rule is a function from a position to the position behind its match,
and ordered choice is the order of the cases. Attributes are those the unit
tests expect: what an alternative that failed had matched is not kept.
The state is an identifier typed character by character, then converted from
style to style (`Convert`: `joinIdentifier`, then `splitIdentifer` on the
result). An affix grows with each conversion, because nothing removes it,
so a name with an affix is not converted again.

### ClangInstallation

The adjuster copies the `Clang` object when the task is created. A command is a
sequence of arguments, each a resource directory or something else. `llvm` is the
version of the build, which decides by `REFACTOR_LLVM_PREQE` what code there is.

### Hooks

`callbacks` is `callbacks_`, `capacity` that of the vector: `registerHook` doubles
it when it is full. `stack` holds the running calls of `onFileMoved`, each with
the two iterators of its loop (`next`, `end`) and whether they dangle. When a hook
has control it may register another, move a file (a call inside the call), throw,
or return. Using a dangling iterator is undefined behaviour: `broken` is set and
nothing is said of what follows.

### Parsers

A rule is a function from a position to the position behind its match. Repetition
is a recursive function, skippers are called where the grammar has them. The state
is a text typed character by character.

## 3. The runs

| Run | Question | Bounds |
|---|---|---|
| `rename` | do files stay whole, does the exit code tell the truth, does a function get its new name in all declarations and ordinary references, are names in instantiations left alone, does deduplication keep neighbouring tokens apart; does the run implement `AtomicRename`, and does it end | two units sharing a header, two renamings, two empty groups per match, seven programs |
| `client_session` | is what `save()` writes right in every session | three refactorings, one of them to a longer name, one that takes a renaming back; two files, one under two paths; at most two actions, three runs, two saves, two disturbances, five events |
| `driver` | which option values lead to what, up to the files, and does the program end | every value of up to five tokens, a second module in the registry, two files |
| `identifiers` | are split, join and conversion right | every identifier of up to five characters of five classes |
| `resource_dir` | which resource directory is used, and do versions compare | two tasks, two arguments, two prefixes; version parts 0, 1, 9, 10 |
| `hooks` | who hears of a move, and in which order | four hooks, three moves |
| `parsers` | which texts are definitions and identifiers | every text of up to seven characters of five classes |
| `dependent_call` | *fails*: does the test `template_function` get the file it expects | four lines of that test |
| `final_syntax_check` | *fails*: is the new name checked when the option asks for it | values of up to four tokens |
| `random_identifier` | *fails*: does every identifier parse | three characters |
| `guessed_style` | *fails*: does a guessed style remove its affix | three characters |
| `set_prefix` | *fails*: does setting the prefix have an effect | as `resource_dir` |

Why the bounds suffice.

* Two units and one shared file give every kind of duplicate: the same
  declaration in two units, twice in one unit through an instantiation, and a name
  that means another function in the other unit, in a template or out of a macro.
  A reference in a template is instantiated by no unit, by one or by both. The
  programs include unresolved lookups, member calls, using-declarations, references
  in no file and function pointers as template arguments. Sorting needs two files
  and two offsets to put neighbours in the wrong order, two texts to compare texts.
* A session goes wrong by something stale, which takes a run, something that makes
  it stale (an edit, a save, a second refactoring, a failing unit) and a save; a
  retry takes one more run, and what the first save left one more save. Five events
  are three of these with two actions; the header holds the old name twice, so that
  a delta in front of a place matters.
* Five tokens are a comma, two fields, and two more to spoil them.
* The grammar of identifiers looks one character ahead and has no memory but the
  rule it is in; five characters are two words with a separator or an acronym
  followed by a word. Seven characters are two rounds of the definition's grammar
  with a blank.
* The vector of four hooks grows at the first three and has room for the fourth.
  Three moves are one inside another and one after or inside both.
* The parts 9 and 10 are where one digit becomes two.

`CHECK_DEADLOCK FALSE` is set for the task and the driver, since both are
processes that end, and where a bound ends what is counted: sessions, moves, and
the texts and identifiers that are typed.

Fairness. `FairSpec` asks for weak fairness of `Step`, the disjunction of
everything `main` does: one thread, no lock, no wait, so it goes on as long as
it can. `FairProgramSpec` asks the same of `ProgramStep`. `Kill` has no fairness. That the tool gets through a unit at all is
clang's doing and is assumed: each unit ends by finishing or failing.

Each property of a passing run has a mutant, named `Faulty` where it is
defined: the operator as it would be with a plausible bug, under which the run
finds the property violated.

### What the failing runs show

* In a template, `func<T>(...)` is an unresolved lookup, which no matcher sees, and
  in the instantiation a reference that is excluded, so the call keeps the old name
  and the exit code is 0. `template_function.expected/main.cpp:39` has it renamed
  (and line 45, where the arguments of the call depend on something, not);
  `run_cli_tests.py` compares what the program has written with that file.
* `-final-syntax-check` is declared and described, and nothing reads it.
* A name of underscores alone is refused by `splitIdentifer`, although the unit
  test with random identifiers expects every one of them to parse.
* `splitIdentifer` with a guessed style drops the results of `slice`, so it
  removes neither prefix nor suffix.
* `Clang::setLLVMPrefix` assigns the member to its parameter.

### What `client_session` says of reuse

`SaveIsExact` and `RetryIsComplete` hold, with the exceptions that `Sound` names,
and each exception is a thing the code does: a second `save()` of a renaming that
changes the length of the name writes at stale offsets and spoils the file (the
context is never cleared); so does a file edited between `run()` and `save()`, two
refactorings that want one token, and a header reached by two spellings of its
path if names change their length. The damage stays in that file. A repeated run
is harmless, and complete if nothing failed in it, whatever runs before it left; a
`save()` that could not write a file may be repeated: if the names have one length, a place that already holds the new
name is overwritten by what it holds.

### What `hooks` says of nesting

As long as no dangling iterator is used, every hook hears of a move in order; a
hook that registers another is harmless only while the vector has room. A hook
that moves a file itself makes the hooks behind it hear of its move before the one
it was told of, and there is no other way to that (`OrderInvertedByNesting`).

## 4. The proofs

For every value of the constants:

| Theorem | Module | Property |
|---|---|---|
| `TypeCorrect` | `RefactoringTaskProofs` | `TypeOK` |
| `Inductive` | `RefactoringTaskProofs` | the inductive invariant `IInv` |
| `FilesStayWhole` | `RefactoringTaskProofs` | `WholeFilesOnDisk` |
| `ExitIsTruthful` | `RefactoringTaskProofs` | `ExitTellsTruth` |
| `NoSaveAfterFailure` | `RefactoringTaskProofs` | `FailureLeavesFilesAlone` |
| `RenamesTogether` | `RefactoringTaskProofs` | `RenameIsConsistent` |
| `DependentNamesAreKept` | `RefactoringTaskProofs` | `DependentNamesStay` |
| `RunImplementsRename` | `RefactoringTaskProofs` | `ImplementsRename` |
| `DriverTypeCorrect` | `RefactorProgramProofs` | `TypeOK` |
| `ZeroIsEarned` | `RefactorProgramProofs` | `ZeroMeansSaved` |
| `CreateFindsFactory` | `RefactorProgramProofs` | `NoNullRefactoring` |
| `ExitCodeTellsFiles` | `RefactorProgramProofs` | `ExitTellsFiles` |
| `TwoFieldsAreAccepted` | `RefactorProgramProofs` | `AcceptsExactlyTwoFields` |
| `RunsWhatWasAsked` | `RefactorProgramProofs` | `RenamesWhatWasAsked` |
| `OnlyTheRequestIsSaved` | `RefactorProgramProofs` | `FilesFollowRequest` |
| `ResourceDirIsRight` | `ClangInstallationProofs` | `UserResourceDirWins` |
| `VersionsCompare` | `ClangInstallationProofs` | `ComparesVersions` |
| `HooksInductive` | `HooksProofs` | the inductive invariant `HooksInv` |
| `EveryHookHears` | `HooksProofs` | `AudienceHears` |
| `HooksTyped` | `HooksProofs` | `TypeOK` |
| `OnlyNestingInverts` | `HooksProofs` | `OrderInvertedByNesting` |
| `SessionIsTyped` | `TaskSessionProofs` | `TypeOK` |
| `SaveOnlyRenames` | `TaskSessionProofs` | `SaveIsExact` |
| `RetryRenamesAll` | `TaskSessionProofs` | `RetryIsComplete` |
| `RewritingIsRenaming` | `TaskSessionProofs` | what the rewriter makes of a text |
| `NamesAreLegal` | `NameStyleProofs` | the inductive invariant `NameInv` |
| `NamesAreTyped` | `NameStyleProofs` | `TypeOK` |
| `NothingIsLost` | `NameStyleProofs` | `PartsCover` |
| `WordsBeginAtCapitals` | `NameStyleProofs` | `WordBoundaries` |
| `LettersAreKept` | `NameStyleProofs` | `ConversionKeepsLetters` |
| `IdentifiersAreAccepted` | `ParsersProofs` | `IdentifiersAccepted` |
| `DefinitionsAreAccepted` | `ParsersProofs` | `DefinitionsAccepted` |
| `PrefixedNamesAreDefinitions` | `ParsersProofs` | `PrefixMakesDefinition` |
| `NumbersCompare` | `ClangInstallationProofs` | what `VersionsCompare` rests on |

### The task

Assumptions: paths, offsets and texts are natural numbers and 0 is no path; a
program has nodes of the right type; and `NoConflictAssumption`: no token is
matched for two refactorings. For `main`, which has one refactoring, the last is
no restriction. A client that adds several gets no help from the code, which has
"TODO: search conflicts" where it would look (`refactoringtask.cpp:77`);
`TaskSession` has such clients. Nothing is assumed of what a token means.

The argument. `WholeFilesOnDisk` is not inductive: that a file is renamed as a
whole rests on what happened long before it was written. `IInv` follows the data
through the program:

* `ActionsInv`: `actions` is a prefix of the refactorings, all of them once the
  tool runs.
* `CollectInv`: as long as no unit failed, the groups hold exactly the
  replacements of the firings so far, those of the traversed units and those of
  the current one that are no longer pending.
* `SaveInv`: flattening, sorting and compacting keep the set of replacements;
  the sorted vector has equals next to each other, so that the compacted part
  has each once.
* `BufferInv`: the buffers hold one text for every token a replacement applied
  so far is about, the text it should have (`OneText`: two matched replacements
  at one token agree, which is where `NoConflictAssumption` comes in).
* `DiskInv`: a file that is no longer unwritten is renamed as a whole, or a write
  failed.

Two theorems go from the disk back to the nodes (`MatchedOrigin`).
`RenamesTogether`: a rewritten token comes from a matched node; if the token means
one function, that is the old name of a refactoring, whose matchers take every
other declaration and ordinary reference too, and after exit code 0 all that was
matched is on disk. `DependentNamesAreKept`: a rewritten token has a node that a
matcher takes. Neither says that every mention of a function is renamed, because
that is not so: see `dependent_call`.

The refinement. `ImplementsRename` maps `tree` to old and new by whether a file
is still unwritten, `plan` to the files with replacements and `result` to the
exit. `RefactoringTaskProofs` shows for each action, under `IInv`, which step of
`AtomicRename` it is: firings extend the plan (`PlanGrows`), a written file is
published, the end of `main` is success or failure by what `ExitSet` says, and
everything `save()` does in memory is a stutter because it leaves the set of
files with replacements as it is.

### The session

Assumptions: files hold sequences of numbers; paths are numbers and each leads to
a file; there is a unit, and a unit is a sequence of paths; a refactoring replaces
one nonempty name by another. Nothing bounds files, names, runs or saves.

`SessionInv` is about types. `PlacesInv` adds what the properties rest on:

* `FitsInv`: a file that is not in `changed` has the length it was first read
  with, and each replacement collected for it lies where the file holds the old
  name of an action, or already the new one.
* `CoveredInv`: for a pair in `covered`, each place of the old name in the file
  has its replacement in the context.
* `RunInv`: the same for the units a run has done without a failure.
* `FilesInv`: every file known is one of a unit.

The heart is `RewritingIsRenaming`, about one text: replacements that are sorted
and do not overlap, applied one after the other at offsets moved by what was
replaced before, make of the text what the property defines from left to right,
as if nothing moved. Its loop invariant `IsDone` says what the rewriter has done:
the text in front of the place it is at is the renamed one, the text behind it is
untouched, and every offset behind it is moved by what the text in front has
grown. That `save()` applies all replacements of a file, and in that order, is
`OrderedFor`: sorted by path first, and a file has one path where order matters.
Where it has several, names keep their length and nothing moves at all.

An attempt to prove an earlier form of `RetryIsComplete` failed, because that form
was false: it took a whole run to cover all refactorings for good. Let a client
rename, save, drop the groups, rename back in a second run and save twice. The
last `save()` finds the file as it first was, with names that the second run never
saw, since they were not there then. The property now speaks of the refactorings
whose places were collected in the text that is saved, and the instance has a
renaming that takes another back.

### The driver

Assumptions: option values are sequences of tokens, and some module of the
registry has the factory of `rename-function`. `ProgramInv` ties the results, the
collected factories, the created refactoring and the state of the files to where
`main` is; it is inductive as it stands.

For the option's value there is more to say, since the code finds the fields one
after the other and the property defines them by counting commas. `ArgsAreFields`
is the loop's invariant: what is left of the value is a suffix behind a comma (or
all of it, or nothing), the arguments so far are its first fields, and there are
as many as commas in front of it, one more if the value is consumed and does not
end in a comma. `CutIsField` is the heart of the step: the first comma of the rest
is the comma with that many in front of it, and no other place is
(`EndOfFieldIsUnique`).

### The installation

`InstallationInv` says that what was run last is what the adjuster of its task
made of what was given; `AdjustKeeps` is about that adjuster. `NumbersCompare` is
arithmetic, from the assumption that the parts of a version have two digits.

### Hooks

Assumption: `MaxMoves` is a natural number. Hooks are any number, and notifications
nest as deep as there are moves. `AudienceHears` says nothing of the loops that
are running; `HooksInv` does. `LoopInv` ties a loop to the histories: the hooks of
the audience in front of its position were told of its move, each once, the one
at its position too while it is called, and nobody else was. `MoveInv` keeps what
is left of that when the loop has ended. A step of the innermost loop leaves the
others alone because loops on the stack are those of different moves (`StackInv`:
the innermost is that of the latest), which is what `OuterLoopsStay` and
`OtherMovesStay` use. That the hook told next was not told before follows from
`CallbacksInv`: no hook is registered twice, and an audience stays the beginning
of the vector whatever is registered later.

`OrderInvertedByNesting` compares the order of moves with the order in which a
hook hears of them, and needs to know who made which move. `NestingInv` adds three
parts: `NestInv`, running moves are nested, and each was made by the hook the loop
around it is calling; `RunningInv`, every move made since a running one began is
inside it, and began while one of the hooks it has called was called; `OrderInv`,
the property over the positions in what a hook heard. `CallNests` is the step
that matters: a call of a hook is later than all the hook heard, unless a move
inside the present one was told to it before.

### Naming styles

No assumption but that the length of identifiers is bounded by a number, any
number. `NameInv`: the style is a known one, `split` is the splitting of the name, and
as long as the style has no affix, the name is the typed identifier but for case
and separators. The grammar is a table of positions, one function per rule, each
computed from the right. The proofs follow it: what a rule matches is a stretch of
characters of its kind and cannot be longer; the words of a splitting lie next to
each other and are the letters and digits of the name
(`PartsCover`, `WordBoundaries`). What `joinIdentifier` writes has a splitting
again, because a word that was split is never empty, and it has the same letters
and digits: `Caseless` of the joined words is that of the name.

### Parsers

No assumption but a bound on the length, any number. Each rule is shown to stop
where the property says, from the end of the text to its beginning: one round of
the repetition is one part of the decomposition the property asks for
(`PartIsRound`, `RoundIsPart`), so a text the rules take can be divided
(`TakenIsDivided`) and one that can be divided is taken (`DividedIsTaken`).

### Induction over data

The induction theorems of the library take an operator as a parameter, which the
provers cannot instantiate. `DataInduction` gets by without: a recursive function
over an interval exists (`IterationExists`), and a claim about all positions is
proved by taking the least, or the greatest, position at which it fails and
showing that it does not fail there. The set of such positions is an ordinary set,
so this is first-order reasoning.

### Only model-checked

* `Termination` and `ProgramEnds` are liveness under fairness.
* `SnakeIsStable` and `CamelIsReadBack`: that a joined name is split into the very
  words it was joined from needs, on top of `NameInv`, where each rule of the
  grammar stops inside a word that another style has written. TLC checks it for
  all identifiers of up to five characters.

## 5. Not modelled

* Clang itself: parsing, matching, the compilation database, how buffers and
  files are written. What the program sees of these are the parts marked external.
* Messages, help texts, `-verbose`, the listing of replacements.
* `printRenaming`: it has no caller and only writes a message.
* Flat map, character classes, type aliases: plain data.
* The style registry: registering a further style is an insertion into a map,
  asking for an unknown one throws.
* Lifetimes: an action keeps a reference to the refactoring that made it.

Two observations without a run. `toCamelCase` writes a word in lower case but for
its first letter, so `myAPI` and `MyAPI`, which `namestyle.h` gives as examples of
the two camel cases, become `myApi` and `MyApi` when they are split and joined in
that style: the code contradicts its comment. `RefactoringFactories::size` is
declared to return `bool`, so it is 1 for any number of factories but none; no
document says otherwise.

## 6. Plan

Done: the core (`RefactoringTask`, `AtomicRename`) with its proofs and the
refinement; sessions (`TaskSession`), the driver and its composition with the
task, the naming styles, the installation and versions, hooks and parsers, all
with proofs of their type invariants and of their safety properties, except the
two above.

Next:

1. `CamelIsReadBack` and `SnakeIsStable` as theorems: the shape of a word that
   `toCamelCase` and `toSnakeCase` write, and that the rule for words takes it
   whole.
2. The style registry, if it gets a caller.
