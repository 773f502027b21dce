---------------------------- MODULE TaskSession ----------------------------
(***************************************************************************)
(* RefactoringTask used as the library class it is: a client adds          *)
(* refactorings, runs and saves as often and in whatever order it likes,   *)
(* whether the last run failed or not, and changes the groups it gets from *)
(* getReplacementGroups().  Meanwhile others edit the files.  The context  *)
(* is never cleared, and save() reads the files again, so replacements     *)
(* outlive the text they were computed from.                               *)
(*                                                                         *)
(* RefactoringTask models one session of main step by step; here a unit of *)
(* run() and the whole of save() are one step each.  A file is a sequence  *)
(* of characters (numbers, in their order).  A replacement carries a path  *)
(* as a string: one of the names its file has.                             *)
(***************************************************************************)
EXTENDS Integers, FiniteSets, Subsequence

CONSTANTS
  Contents,     \* per file, what it holds in the beginning
  FileOf,       \* per path (a number, in string order), the file it leads to
  Units,        \* per unit, the paths it opens, in order
  Refactorings, \* what the client may add: [old, new] with character sequences
  MaxActions, MaxRuns, MaxSaves, MaxDisturbances, \* bounds on what is counted
  MaxEvents     \* bound on actions, runs and disturbances together

File == DOMAIN Contents
Path == DOMAIN FileOf

Refactoring == [old : Seq(Nat) \ {<< >>}, new : Seq(Nat)]

ASSUME ContentsAssumption == Contents \in [File -> Seq(Nat)]
ASSUME PathsAssumption == Path \subseteq Nat /\ \A p \in Path : FileOf[p] \in File
ASSUME UnitsAssumption == Units \in Seq(Seq(Path)) /\ Units # << >>
ASSUME RefactoringsAssumption == Refactorings \subseteq Refactoring
ASSUME BoundsAssumption == 
  {MaxActions, MaxRuns, MaxSaves, MaxDisturbances, MaxEvents} \subseteq Nat

VARIABLES
  disk,     \* what the files hold
  opened,   \* paths the tool's file manager knows, in order of first use
  first,    \* what a file held when the file manager first saw it
  actions,  \* actions_
  context,  \* bag of the replacements in the context's groups
  unit,     \* the unit run() is at, or 0
  whole,    \* no unit of this run was skipped or failed
  saved,    \* what the last save() returned
  covered,  \* history: files with refactorings whose places in them were collected
  changed,  \* history: files whose text is not where a run has read it
  runs, saves, disturbances

vars == <<disk, opened, first, actions, context, unit, whole, saved, covered,
          changed, runs, saves, disturbances>>

tool == <<opened, first>>

-----------------------------------------------------------------------------
(* The places of a name in a text.                                         *)
Places(text, name) ==
  {p \in 1..(Len(text) - Len(name) + 1) :
     SubSeq(text, p, p + Len(name) - 1) = name}

(* What may be read from a file: the file manager keeps the size it first  *)
(* saw, so a file that has another size by now may come out cut off or     *)
(* filled up.                                                              *)
Readings(f) ==
  IF f \notin DOMAIN first \/ Len(first[f]) = Len(disk[f])
  THEN {disk[f]}
  ELSE {disk[f], [i \in DOMAIN first[f] |->
                    IF i <= Len(disk[f]) THEN disk[f][i] ELSE 0]}

(* The file manager names a file by the last path it has come to know it   *)
(* by.                                                                     *)
NameOf(f, paths) == paths[Max({i \in DOMAIN paths : FileOf[paths[i]] = f})]

(* What an action finds in some files, given the names of those files.     *)
FoundBy(r, names, text) ==
  UNION {{[path |-> names[f], offset |-> p, length |-> Len(r.old), text |-> r.new] :
            p \in Places(text[f], r.old)} : f \in DOMAIN text}

(* What all actions find: a copy for every action that finds it.           *)
Found(names, text) ==
  LET by == [i \in DOMAIN actions |-> FoundBy(actions[i], names, text)]
  IN  [q \in UNION Range(by) |-> Cardinality({i \in DOMAIN by : q \in by[i]})]

(* operator< of Replacement: by offset, length, path and text.             *)
TextBefore(s, t) ==
  \E i \in 1..Len(t) :
    /\ \A j \in 1..(i - 1) : j <= Len(s) /\ s[j] = t[j]
    /\ Len(s) < i \/ s[i] < t[i]

Before(a, b) ==
  \/ a.offset < b.offset
  \/ a.offset = b.offset /\ a.length < b.length
  \/ a.offset = b.offset /\ a.length = b.length /\ a.path < b.path
  \/ /\ a.offset = b.offset /\ a.length = b.length /\ a.path = b.path
     /\ TextBefore(a.text, b.text)

(* std::sort: what comes before all others, and the rest behind it.        *)
Sorted(replacements) ==
  LET from[rest \in SUBSET replacements] ==
        IF rest = {} THEN << >>
        ELSE LET least == CHOOSE r \in rest : \A q \in rest \ {r} : Before(r, q)
             IN  <<least>> \o from[rest \ {least}]
  IN  from[replacements]

(* Faulty: every copy stays.                                               *)
KeepCopies(replacements) ==
  LET sorted == Sorted(BagToSet(replacements))
  IN  FlattenSeq([i \in DOMAIN sorted |->
        [copy \in 1..replacements[sorted[i]] |-> sorted[i]]])

(* Faulty: replacements are told apart by offset and text alone.           *)
DeduplicateWithoutPath(replacements) ==
  Sorted({r \in BagToSet(replacements) :
            ~\E q \in BagToSet(replacements) :
               Before(q, r) /\ q = [r EXCEPT !.path = q.path]})

(* Support::deduplicate.                                                   *)
Deduplicate(replacements) == Sorted(BagToSet(replacements))

(* Offsets are those of the text as read; earlier replacements in front of *)
(* it move a place, one at the same offset does not.                       *)
Moved(offset, deltas) ==
  LET after[n \in 0..Len(deltas)] ==
        IF n = 0 THEN offset
        ELSE after[n - 1] + (IF deltas[n][1] < offset THEN deltas[n][2] ELSE 0)
  IN  after[Len(deltas)]

(* Rewriter::ReplaceText.                                                  *)
ReplaceText(buffer, r) ==
  LET at == Max({1, Min({Moved(r.offset, buffer.deltas), Len(buffer.text) + 1})})
  IN  [text |-> SubSeq(buffer.text, 1, at - 1) \o r.text
                  \o SubSeq(buffer.text, at + r.length, Len(buffer.text)),
       deltas |-> Append(buffer.deltas, <<r.offset, Len(r.text) - r.length>>)]

(* applyAllReplacements for one file.                                      *)
Rewritten(text, replacements) ==
  LET buffer[n \in 0..Len(replacements)] ==
        IF n = 0 THEN [text |-> text, deltas |-> << >>]
        ELSE ReplaceText(buffer[n - 1], replacements[n])
  IN  buffer[Len(replacements)].text

-----------------------------------------------------------------------------
(* What the properties say of a file and the replacements collected for it.*)
For(f) == {r \in BagToSet(context) : FileOf[r.path] = f}

Agree(f) ==
  \A a, b \in For(f) :
    \/ <<a.offset, a.length, a.text>> = <<b.offset, b.length, b.text>>
    \/ a.offset + a.length <= b.offset
    \/ b.offset + b.length <= a.offset

OneName(f) == \A a, b \in For(f) : a.path = b.path

KeepsLength(f) == \A r \in For(f) : Len(r.text) = r.length

(* A file save() deals with correctly: its text is where it was when it    *)
(* was read, no two replacements want one place, and if names change their *)
(* length there is one path to the file.                                   *)
Sound(f) == f \notin changed /\ Agree(f) /\ (OneName(f) \/ KeepsLength(f))
-----------------------------------------------------------------------------
Init ==
  /\ disk = Contents
  /\ opened = << >>
  /\ first = << >>
  /\ actions = << >>
  /\ context = EmptyBag
  /\ unit = 0
  /\ whole = TRUE
  /\ saved = TRUE
  /\ covered = {}
  /\ changed = {}
  /\ runs = 0 /\ saves = 0 /\ disturbances = 0

(* The session may still grow.                                             *)
Room == Len(actions) + runs + disturbances < MaxEvents

(* Whatever does not go as planned is counted.                             *)
Disturb ==
  /\ Room /\ disturbances < MaxDisturbances
  /\ disturbances' = disturbances + 1

(* addRefactoring(); to add one twice would only give more copies.         *)
AddRefactoring ==
  /\ unit = 0
  /\ Room /\ Len(actions) < MaxActions
  /\ \E r \in Refactorings \ Range(actions) : actions' = Append(actions, r)
  /\ UNCHANGED <<disk, tool, context, unit, whole, saved, covered, changed,
                 runs, saves, disturbances>>

StartRun ==
  /\ unit = 0
  /\ Room /\ runs < MaxRuns
  /\ unit' = 1
  /\ whole' = TRUE
  /\ runs' = runs + 1
  /\ UNCHANGED <<disk, tool, actions, context, saved, covered, changed,
                 saves, disturbances>>

(* Faulty: run() does not stop at its last unit.                           *)
NextUnitPastLast ==
  /\ unit' = IF unit > Len(Units) THEN 0 ELSE unit + 1
  /\ covered' = IF unit = Len(Units) /\ whole'
                THEN covered \cup (DOMAIN first') \X Range(actions) ELSE covered

(* run() comes to its next unit, or returns.                               *)
NextUnit ==
  /\ unit' = IF unit = Len(Units) THEN 0 ELSE unit + 1
  /\ covered' = IF unit = Len(Units) /\ whole'
                THEN covered \cup (DOMAIN first') \X Range(actions) ELSE covered

(* A unit without compile command.                                         *)
SkipUnit ==
  /\ unit # 0
  /\ Disturb
  /\ whole' = FALSE
  /\ NextUnit
  /\ UNCHANGED <<disk, tool, actions, context, saved, changed, runs, saves>>

(* The callbacks put what they find into the context.  In a unit that      *)
(* fails, only some of them are made.  Of these, the model has those that  *)
(* stop at some place in each of the unit's files.                         *)
ParseUnit ==
  /\ unit # 0
  /\ LET paths == Units[unit]
         files == {FileOf[p] : p \in Range(paths)}
     IN  /\ opened' = opened \o Kept(paths, Path \ Range(opened))
         /\ first' = [f \in DOMAIN first \cup files |->
                        IF f \in DOMAIN first THEN first[f] ELSE disk[f]]
         /\ \E text \in [files -> UNION {Readings(f) : f \in files}] :
              /\ \A f \in files : text[f] \in Readings(f)
              /\ LET found == Found([f \in files |-> NameOf(f, opened')], text)
                 IN  \/ context' = context (+) found /\ UNCHANGED <<whole, disturbances>>
                     \/ \E seen \in [files -> 0..Max({Len(text[f]) : f \in files})] :
                          /\ context' = context (+)
                               [r \in {r \in BagToSet(found) :
                                         r.offset <= seen[FileOf[r.path]]} |-> found[r]]
                          /\ whole' = FALSE
                          /\ Disturb
  /\ NextUnit
  /\ UNCHANGED <<disk, actions, saved, changed, runs, saves>>

(* save(): every file with a replacement is written, unless that fails.    *)
Save ==
  /\ unit = 0
  /\ saves < MaxSaves
  /\ LET replacements == Deduplicate(context)
         rewritten == {f \in File : For(f) # {}}
     IN  \E text \in [rewritten -> UNION {Readings(f) : f \in rewritten}],
            unwritten \in SUBSET rewritten :
           /\ \A f \in rewritten : text[f] \in Readings(f)
           /\ disk' = [f \in File |->
                IF f \in rewritten \ unwritten
                THEN Rewritten(text[f], Kept(replacements, For(f)))
                ELSE disk[f]]
           /\ saved' = (unwritten = {})
           /\ changed' = changed \cup
                {f \in rewritten \ unwritten : ~Sound(f) \/ ~KeepsLength(f)}
           /\ IF saved' THEN UNCHANGED disturbances ELSE Disturb
  /\ covered' = {c \in covered : disk'[c[1]] = disk[c[1]]}
  /\ saves' = saves + 1
  /\ UNCHANGED <<tool, actions, context, unit, whole, runs>>

(* The client erases a group.                                              *)
DropGroup ==
  /\ unit = 0
  /\ Disturb
  /\ \E r \in BagToSet(context) : context' = context (-) SetToBag({r})
  /\ covered' = {}
  /\ UNCHANGED <<disk, tool, actions, unit, whole, saved, changed, runs, saves>>

(* Somebody edits a file: text moves, goes, or makes way for other text.   *)
Edit ==
  /\ Disturb
  /\ \E f \in File :
       /\ disk[f] # << >>
       /\ \E text \in {<<0>> \o disk[f], Tail(disk[f]), Append(Tail(disk[f]), 0)} :
            disk' = [disk EXCEPT ![f] = text]
       /\ changed' = changed \cup ({f} \cap DOMAIN first)
  /\ UNCHANGED <<tool, actions, context, unit, whole, saved, covered, runs, saves>>

Next ==
  \/ AddRefactoring \/ StartRun \/ SkipUnit \/ ParseUnit
  \/ Save \/ DropGroup \/ Edit

Spec == Init /\ [][Next]_vars
-----------------------------------------------------------------------------
(* Where a text bears the old name of one of the given refactorings.       *)
Renamings(text, refactorings) ==
  UNION {{[offset |-> p, length |-> Len(r.old), text |-> r.new] :
            p \in Places(text, r.old)} : r \in refactorings}

(* A text with all of the given places renamed at once.                    *)
Renamed(text, places) ==
  LET From[p \in 1..(Len(text) + 1)] ==
        IF p > Len(text) THEN << >>
        ELSE IF \E r \in places : r.offset = p
             THEN LET r == CHOOSE r \in places : r.offset = p
                  IN  r.text \o From[p + r.length]
             ELSE <<text[p]>> \o From[p + 1]
  IN  From[1]

IsRenaming(f, places) ==
  \E more \in SUBSET Renamings(disk[f], Range(actions)) :
    disk'[f] = Renamed(disk[f], places \cup more)

TypeOK ==
  /\ DOMAIN disk = File /\ \A f \in File : disk[f] \in Seq(Nat)
  /\ opened \in Seq(Path)
  /\ DOMAIN first = {FileOf[p] : p \in Range(opened)}
  /\ actions \in Seq(Refactorings)
  /\ \A r \in BagToSet(context) : FileOf[r.path] \in DOMAIN first /\ context[r] > 0
  /\ unit \in 0..Len(Units)
  /\ whole \in BOOLEAN /\ saved \in BOOLEAN
  /\ covered \subseteq (DOMAIN first) \X Range(actions)
  /\ changed \subseteq DOMAIN first
  /\ runs \in 0..MaxRuns /\ saves \in 0..MaxSaves /\ disturbances \in 0..MaxDisturbances

(* However often a task was run and saved, with failing and repeated runs, *)
(* groups dropped by the client and files edited by others: save() does to *)
(* a file nothing but rename occurrences of old names, unless the file was *)
(* changed since it was read, two refactorings want one place, or it has   *)
(* two names and a new name of another length.  Damage to one file does    *)
(* not spread to another.                                                  *)
SaveIsExact ==
  [][saves' # saves => \A f \in File : Sound(f) => IsRenaming(f, {})]_vars

(* A run in which nothing failed makes up for all runs before it: what is  *)
(* saved then has every occurrence renamed that the run was to find, and   *)
(* each only once; a save() that could not write a file can be repeated.   *)
RetryIsComplete ==
  [][saves' # saves /\ saved' =>
       \A f \in DOMAIN first :
         Sound(f) =>
           IsRenaming(f, Renamings(disk[f], {x \in Range(actions) : <<f, x>> \in covered}))]_vars
=============================================================================
