-------------------------- MODULE RefactorProgram --------------------------
(***************************************************************************)
(* The whole program, from the command line to the files: the driver of    *)
(* RefactorMain on top of a task that does what AtomicRename promises.     *)
(* RefactoringTask is shown to keep that promise.                          *)
(*                                                                         *)
(* While the driver is in run(), the task finds out which files it has to  *)
(* change; while it is in save(), it publishes them; what these two return *)
(* is what the driver goes on with.                                        *)
(***************************************************************************)
EXTENDS RefactorMain

CONSTANT File

VARIABLES
  tree,   \* the files, each with its old or its new text
  plan,   \* the files the task has replacements for
  result  \* how the program ended

Task == INSTANCE AtomicRename

task == <<tree, plan, result>>
all == <<vars, task>>

Alive == result = "none"

ProgramInit == Init /\ Task!Init

(* What becomes of the task when main goes on or returns with an error.    *)
TaskFails == IF pc' = "returned" THEN Task!Fail ELSE UNCHANGED task

(* The driver up to the call of run(); the files are not looked at.        *)
Prepare ==
  /\ Alive
  /\ AddFactories \/ CheckOption \/ SplitArgument \/ Create \/ AddRefactoring
  /\ TaskFails

(* The tool calls back, the context gets replacements for more files.      *)
Collect == pc = "run" /\ Task!Extend /\ UNCHANGED vars

FinishRun == Alive /\ Run /\ TaskFails

WriteFile == pc = "save" /\ Task!Publish /\ UNCHANGED vars

(* save() fails exactly if a file with replacements could not be written.  *)
FinishSave ==
  /\ Save
  /\ IF saved' THEN Task!Succeed ELSE Task!Fail
  /\ saved' = (\A f \in plan : tree[f] = "new")

(* The process can die at any time.                                        *)
Kill == Task!Die /\ pc \notin {"returned", "crashed"} /\ UNCHANGED vars

ProgramStep == Prepare \/ Collect \/ FinishRun \/ WriteFile \/ FinishSave

ProgramNext == ProgramStep \/ Kill

ProgramSpec == ProgramInit /\ [][ProgramNext]_all

(* One thread that waits for nothing, and a tool that comes to an end.     *)
FairProgramSpec == ProgramSpec /\ WF_all(ProgramStep)
-----------------------------------------------------------------------------
(* A file only ever changes if the user gave a value with two fields, the  *)
(* run found no error, and the text it changes to bears the name the user  *)
(* gave: nothing reaches the files by another way (main, from              *)
(* RefactoringArgs::fromString to save).                                   *)
FilesFollowRequest ==
  (\E f \in File : tree[f] = "new") =>
    /\ ran
    /\ Acceptable(option)
    /\ refactoring.new = Fields(option)[2]
    /\ Fields(option)[1] \in {refactoring.old, Tail(refactoring.old)}

(* The exit code tells what became of the files: 0 if there was a run and  *)
(* every file with a replacement has its new text; otherwise there was no  *)
(* good run, and no file is changed, or a file was not written (main).     *)
ExitTellsFiles ==
  pc = "returned" =>
    IF returncode = 0
    THEN ran /\ \A f \in plan : tree[f] = "new"
    ELSE IF ran THEN \E f \in plan : tree[f] = "old" ELSE Task!Untouched

(* Whatever the command line, the program returns unless it is killed: no  *)
(* option value keeps Support::split or main from coming to an end.        *)
ProgramEnds == <>(pc = "returned" \/ result = "died")
=============================================================================
