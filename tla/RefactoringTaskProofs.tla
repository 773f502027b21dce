----------------------- MODULE RefactoringTaskProofs -----------------------
(***************************************************************************)
(* Proofs about RefactoringTask, for every value of its constants.         *)
(***************************************************************************)
EXTENDS RefactoringTask, FiniteSetTheorems, SequenceTheorems, TLAPS

(* What one firing leaves behind is a sequence of groups.                  *)
LEMMA GroupsOfType ==
  ASSUME TypeOK, NEW m \in Node \X (1..Len(actions))
  PROVE  /\ ReplacementOf(m) \in Replacement
         /\ GroupsOf(m) \in Seq(Seq(Replacement))
<1>1. m[1] \in Node /\ m[2] \in 1..Len(actions)
  OBVIOUS
<1>2. actions[m[2]] \in Refactoring
  BY <1>1 DEF TypeOK
<1>3. ReplacementOf(m) \in Replacement
  BY <1>1, <1>2 DEF ReplacementOf, Replacement, Node, Refactoring
<1>4. <<ReplacementOf(m)>> \in Seq(Replacement) /\ << >> \in Seq(Replacement)
  BY <1>3
<1>5. GroupsOf(m) \in [1..(Temporaries + 1) -> Seq(Replacement)]
  BY <1>4 DEF GroupsOf
<1>6. Temporaries + 1 \in Nat
  BY TemporariesAssumption
<1> QED
  BY <1>3, <1>5, <1>6

(* The firings in a unit are pairs of a node and an action.                *)
LEMMA MatchesInType ==
  ASSUME TypeOK, NEW s \in Source
  PROVE  MatchesIn(s) \subseteq Node \X (1..Len(actions))
BY DEF TypeOK, MatchesIn

(* Rewriting a token of a file leaves file contents.                       *)
LEMMA RewriteType ==
  ASSUME NEW content \in FileContents, NEW r \in Replacement, IsApplicable(r)
  PROVE  Rewrite(content, r) \in FileContents
<1>1. r.path \in Path /\ r.offset \in Offset /\ r.text \in Text
  BY DEF Replacement, IsApplicable
<1>2. content[r.path] \in [Offset -> Seq(Text)]
  BY <1>1 DEF FileContents
<1>3. content[r.path][r.offset] \in Seq(Text)
  BY <1>1, <1>2
<1>4. Append(content[r.path][r.offset], r.text) \in Seq(Text)
  BY <1>1, <1>3
<1>5. [content[r.path] EXCEPT ![r.offset] =
         Append(content[r.path][r.offset], r.text)] \in [Offset -> Seq(Text)]
  BY <1>1, <1>2, <1>4
<1> QED
  BY <1>1, <1>5 DEF Rewrite, FileContents

(* Every variable keeps its type: the sequences save() works on hold       *)
(* replacements only, and the loop indexes stay positive.                  *)
THEOREM TypeCorrect == Spec => []TypeOK
<1>1. Init => TypeOK
  <2> SUFFICES ASSUME Init PROVE TypeOK
    OBVIOUS
  <2>1. program \in [Source -> SUBSET Node]
    BY ProgramsAssumption DEF Init
  <2>2. source \in 1..(NSources + 1)
    BY NSourcesAssumption DEF Init
  <2>3. buffers \in FileContents /\ disk \in FileContents
    BY DEF Init, FileContents, Pristine
  <2>4. /\ actions \in Seq(Refactoring) /\ groups \in Seq(Seq(Replacement))
        /\ replacements \in Seq(Replacement) /\ unique \in Seq(Replacement)
    BY DEF Init
  <2>5. /\ pending \subseteq Node \X (1..Len(actions)) /\ parsed \subseteq Source
        /\ unwritten \subseteq Path
    BY DEF Init
  <2>6. /\ phase = "setup" /\ failed = FALSE /\ next = 1 /\ allWritten = TRUE
        /\ exit = "none"
    BY DEF Init
  <2>7. source \in IF phase = "match" THEN Source ELSE 1..(NSources + 1)
    BY <2>2, <2>6
  <2>8. /\ phase \in {"setup", "run", "match", "flatten", "unique", "apply",
                     "write", "exited", "killed"}
        /\ next \in Nat \ {0}
        /\ exit \in {"none", "success", "failure"}
    BY <2>6
  <2>9. failed \in BOOLEAN /\ allWritten \in BOOLEAN
    BY <2>6, Zenon
  <2> QED
    BY <2>1, <2>3, <2>4, <2>5, <2>7, <2>8, <2>9 DEF TypeOK
<1>2. TypeOK /\ [Next]_vars => TypeOK'
  <2> SUFFICES ASSUME TypeOK, [Next]_vars PROVE TypeOK'
    OBVIOUS
  <2> USE DEF inputVars, toolVars, saveVars, fileVars
  <2>1. CASE AddRefactoring
    <3>1. Refactorings[Len(actions) + 1] \in Refactoring
      BY <2>1, RefactoringsAssumption DEF AddRefactoring, TypeOK
    <3>2. actions' \in Seq(Refactoring) /\ Len(actions') = Len(actions) + 1
      BY <2>1, <3>1 DEF AddRefactoring, TypeOK
    <3>3. pending' \subseteq Node \X (1..Len(actions'))
      BY <2>1, <3>2 DEF AddRefactoring, TypeOK
    <3> QED
      BY <2>1, <3>2, <3>3 DEF AddRefactoring, TypeOK
  <2>2. CASE StartRun
    BY <2>2 DEF StartRun, TypeOK
  <2>3. CASE SkipSource
    <3>1. source' \in 1..(NSources + 1)
      BY <2>3, NSourcesAssumption DEF SkipSource, Source
    <3> QED
      BY <2>3, <3>1 DEF SkipSource, TypeOK
  <2>4. CASE ParseSource
    <3>1. pending' \subseteq Node \X (1..Len(actions))
      BY <2>4, MatchesInType DEF ParseSource
    <3> QED
      BY <2>4, <3>1 DEF ParseSource, TypeOK
  <2>5. CASE MatchNode
    <3>1. PICK m \in pending : /\ pending' = pending \ {m}
                               /\ groups' = groups \o GroupsOf(m)
      BY <2>5 DEF MatchNode
    <3>2. m \in Node \X (1..Len(actions))
      BY <3>1 DEF TypeOK
    <3>3. GroupsOf(m) \in Seq(Seq(Replacement))
      BY <3>2, GroupsOfType
    <3>4. groups' \in Seq(Seq(Replacement))
      BY <3>1, <3>3 DEF TypeOK
    <3> QED
      BY <2>5, <3>1, <3>4 DEF MatchNode, TypeOK
  <2>6. CASE FinishSource
    BY <2>6, NSourcesAssumption DEF FinishSource, TypeOK, Source
  <2>7. CASE FailSource
    BY <2>7, NSourcesAssumption DEF FailSource, TypeOK, Source
  <2>8. CASE EndRun
    BY <2>8 DEF EndRun, TypeOK
  <2>9. CASE FlattenGroup
    BY <2>9 DEF FlattenGroup, TypeOK
  <2>10. CASE SortReplacements
    <3>1. replacements' \in [1..Len(replacements) -> Range(replacements)]
      BY <2>10 DEF SortReplacements, SortedVersions, TypeOK
    <3>2. Range(replacements) \subseteq Replacement
      BY DEF TypeOK, Range
    <3>3. Len(replacements) \in Nat
      BY DEF TypeOK
    <3>4. replacements' \in [1..Len(replacements) -> Replacement]
      BY <3>1, <3>2
    <3>5. replacements' \in Seq(Replacement)
      BY <3>3, <3>4
    <3> QED
      BY <2>10, <3>5 DEF SortReplacements, TypeOK
  <2>11. CASE KeepIfNew
    BY <2>11 DEF KeepIfNew, TypeOK
  <2>12. CASE EraseRest
    BY <2>12 DEF EraseRest, TypeOK
  <2>13. CASE ApplyReplacement
    BY <2>13, RewriteType DEF ApplyReplacement, TypeOK
  <2>14. CASE StartWriting
    BY <2>14 DEF StartWriting, ChangedFiles, TypeOK
  <2>15. CASE WriteFile
    BY <2>15 DEF WriteFile, TypeOK, FileContents
  <2>16. CASE FailWrite
    BY <2>16 DEF FailWrite, TypeOK
  <2>17. CASE Finish
    BY <2>17 DEF Finish, TypeOK
  <2>18. CASE Kill
    BY <2>18, NSourcesAssumption DEF Kill, TypeOK, Source
  <2>19. CASE UNCHANGED vars
    BY <2>19 DEF vars, TypeOK
  <2> QED
    BY <2>1, <2>2, <2>3, <2>4, <2>5, <2>6, <2>7, <2>8, <2>9, <2>10, <2>11,
       <2>12, <2>13, <2>14, <2>15, <2>16, <2>17, <2>18, <2>19 DEF Next, Step
<1> QED
  BY <1>1, <1>2, PTL DEF Spec
-----------------------------------------------------------------------------
(***************************************************************************)
(* The inductive invariant.  Its parts follow a replacement from the AST   *)
(* to the disk: the actions are main's refactorings; what the callbacks    *)
(* left in the groups is what the traversed units match; the loops of      *)
(* save() keep the set of replacements while they sort and deduplicate it; *)
(* the buffers hold each applied replacement once; a published file equals *)
(* its buffer.                                                             *)
(***************************************************************************)
Emitted(k) ==
  {r \in Replacement : \E i \in 1..k : \E j \in 1..Len(groups[i]) :
                          groups[i][j] = r}

ReplacementsOf(firings) == {ReplacementOf(m) : m \in firings}

Collecting == phase \in {"setup", "run", "match"}
Saving == phase \in {"flatten", "unique", "apply", "write"}

ActionsInv ==
  /\ program \in Programs
  /\ Len(actions) <= Len(Refactorings)
  /\ \A k \in 1..Len(actions) : actions[k] = Refactorings[k]
  /\ phase \notin {"setup", "killed"} => Len(actions) = Len(Refactorings)
  /\ phase = "setup" => parsed = {} /\ groups = << >> /\ ~failed

CollectInv ==
  /\ phase \in {"run", "flatten"} /\ ~failed => Emitted(Len(groups)) = Matched
  /\ phase = "match" => pending \subseteq MatchesIn(source)
  /\ phase = "match" /\ ~failed =>
       Emitted(Len(groups)) \cup ReplacementsOf(pending)
         = Matched \cup ReplacementsOf(MatchesIn(source))
  /\ Saving => ~failed

SaveInv ==
  /\ Collecting => replacements = << >> /\ unique = << >> /\ next = 1
  /\ phase = "flatten" =>
       /\ unique = << >>
       /\ next <= Len(groups) + 1
       /\ Range(replacements) = Emitted(next - 1)
  /\ phase = "unique" =>
       /\ Range(replacements) = Matched
       /\ Sorted(replacements)
       /\ next <= Len(replacements) + 1
       /\ Range(unique) = {replacements[i] : i \in 1..(next - 1)}
       /\ IsInjective(unique)
       /\ next > 1 =>
            Len(unique) > 0 /\ unique[Len(unique)] = replacements[next - 1]
  /\ phase = "apply" =>
       /\ Range(replacements) = Matched
       /\ IsInjective(replacements)
       /\ next <= Len(replacements) + 1

BufferInv ==
  /\ Collecting \/ phase \in {"flatten", "unique"} =>
       buffers = [f \in Path |-> Pristine]
  /\ phase = "apply" =>
       \A f \in Path, o \in Offset :
         buffers[f][o] = IF \E i \in 1..(next - 1) : At(replacements[i], f, o)
                         THEN Renamed(f)[o]
                         ELSE << >>
  /\ phase = "write" => \A f \in Path : buffers[f] = Renamed(f)

DiskInv ==
  /\ Collecting \/ phase \in {"flatten", "unique", "apply"} =>
       allWritten /\ disk = [f \in Path |-> Pristine]
  /\ phase = "write" =>
       /\ \A f \in unwritten : disk[f] = Pristine /\ Renamed(f) # Pristine
       /\ allWritten <=> \A f \in Path \ unwritten : disk[f] = Renamed(f)
  /\ WholeFilesOnDisk
  /\ FailureLeavesFilesAlone
  /\ ExitTellsTruth

IInv == TypeOK /\ ActionsInv /\ CollectInv /\ SaveInv /\ BufferInv /\ DiskInv
-----------------------------------------------------------------------------
(* A matched replacement comes from a node of a traversed unit that the    *)
(* matchers of one of main's refactorings take.                            *)
LEMMA MatchedOrigin ==
  ASSUME TypeOK, ActionsInv, NEW r \in Matched
  PROVE  \E s \in parsed : \E n \in program[s], k \in 1..Len(Refactorings) :
           /\ r = [path |-> n.path, offset |-> n.offset,
                   text |-> Refactorings[k].new]
           /\ Matches(n, Refactorings[k])
<1>0. PICK s \in parsed : \E m \in MatchesIn(s) : r = ReplacementOf(m)
  BY DEF Matched
<1>1. PICK m \in MatchesIn(s) : r = ReplacementOf(m)
  BY <1>0
<1>2. /\ m[1] \in program[s] /\ m[2] \in 1..Len(actions)
      /\ Matches(m[1], actions[m[2]])
  BY <1>1 DEF MatchesIn
<1>3. m[2] \in 1..Len(Refactorings) /\ actions[m[2]] = Refactorings[m[2]]
  BY <1>2, RefactoringsAssumption DEF ActionsInv, TypeOK
<1> QED
  BY <1>1, <1>2, <1>3 DEF ReplacementOf

(* At most one replacement is matched at a token, however many units and   *)
(* instantiations show it.                                                 *)
LEMMA OneText ==
  ASSUME TypeOK, ActionsInv, NEW r1 \in Matched, NEW r2 \in Matched,
         r1.path = r2.path, r1.offset = r2.offset, r1.path # NoPath
  PROVE  r1 = r2
<1> DEFINE Origin(r, n, k) ==
             /\ r = [path |-> n.path, offset |-> n.offset,
                     text |-> Refactorings[k].new]
             /\ Matches(n, Refactorings[k])
<1>0. \A r \in Matched : \E s \in parsed : \E n \in program[s] :
        \E k \in 1..Len(Refactorings) : Origin(r, n, k)
  BY MatchedOrigin
<1>s1. PICK s1 \in parsed : \E n \in program[s1] :
         \E k \in 1..Len(Refactorings) : Origin(r1, n, k)
  BY <1>0
<1>s2. PICK s2 \in parsed : \E n \in program[s2] :
         \E k \in 1..Len(Refactorings) : Origin(r2, n, k)
  BY <1>0
<1>1. PICK n1 \in program[s1], k1 \in 1..Len(Refactorings) : Origin(r1, n1, k1)
  BY <1>s1
<1>2. PICK n2 \in program[s2], k2 \in 1..Len(Refactorings) : Origin(r2, n2, k2)
  BY <1>s2
<1>3. s1 \in Source /\ s2 \in Source /\ program \in Programs
  BY DEF TypeOK, ActionsInv
<1>4. SamePlace(n1, n2) /\ n1.path # NoPath
  BY <1>1, <1>2 DEF SamePlace
<1>5. k1 = k2
  BY <1>1, <1>2, <1>3, <1>4, NoConflictAssumption
<1> QED
  BY <1>1, <1>2, <1>4, <1>5 DEF SamePlace

(* Whatever leaves the program, the actions and the traversed units alone  *)
(* changes neither what is matched nor what the renamed files look like.   *)
LEMMA MatchedStable ==
  ASSUME UNCHANGED <<program, actions, parsed>>
  PROVE  /\ Matched' = Matched
         /\ \A f : Renamed(f)' = Renamed(f)
         /\ \A s : MatchesIn(s)' = MatchesIn(s)
<1>1. \A s : MatchesIn(s)' = MatchesIn(s)
  BY DEF MatchesIn
<1>2. \A m : ReplacementOf(m)' = ReplacementOf(m)
  BY DEF ReplacementOf
<1>3. Matched' = Matched
  BY <1>1, <1>2 DEF Matched
<1> QED
  BY <1>1, <1>3 DEF Renamed

(* While the refactorings are still being added nothing is matched.        *)
LEMMA NothingMatched ==
  ASSUME parsed = {}
  PROVE  Matched = {}
BY DEF Matched

(* No step takes an action away or adds one out of turn.                   *)
LEMMA ActionsStep ==
  ASSUME TypeOK, ActionsInv, [Next]_vars
  PROVE  ActionsInv'
<1> USE DEF inputVars, toolVars, saveVars, fileVars
<1>1. CASE AddRefactoring
  <2>1. /\ Len(actions') = Len(actions) + 1
        /\ \A k \in 1..Len(actions') : actions'[k] = Refactorings[k]
    BY <1>1, RefactoringsAssumption DEF AddRefactoring, TypeOK, ActionsInv
  <2> QED
    BY <1>1, <2>1, RefactoringsAssumption DEF AddRefactoring, ActionsInv, TypeOK
<1>2. CASE StartRun \/ SkipSource \/ ParseSource \/ MatchNode
           \/ FinishSource \/ FailSource \/ EndRun
  BY <1>2 DEF StartRun, SkipSource, ParseSource, MatchNode, FinishSource,
              FailSource, EndRun, ActionsInv
<1>3. CASE FlattenGroup \/ SortReplacements \/ KeepIfNew \/ EraseRest
           \/ ApplyReplacement \/ StartWriting \/ WriteFile \/ FailWrite
           \/ Finish
  BY <1>3 DEF FlattenGroup, SortReplacements, KeepIfNew, EraseRest,
              ApplyReplacement, StartWriting, WriteFile, FailWrite, Finish,
              ActionsInv
<1>4. CASE Kill
  BY <1>4 DEF Kill, ActionsInv
<1>5. CASE UNCHANGED vars
  BY <1>5 DEF vars, ActionsInv
<1> QED
  BY <1>1, <1>2, <1>3, <1>4, <1>5 DEF Next, Step

(* The two parts of a concatenation.                                       *)
LEMMA ConcatHead ==
  ASSUME NEW S, NEW a \in Seq(S), NEW b \in Seq(S), NEW i \in 1..Len(a)
  PROVE  (a \o b)[i] = a[i]
OBVIOUS

(* The length of a concatenation.                                          *)
LEMMA ConcatLen ==
  ASSUME NEW S, NEW a \in Seq(S), NEW b \in Seq(S)
  PROVE  a \o b \in Seq(S) /\ Len(a \o b) = Len(a) + Len(b)
OBVIOUS

(* What stands behind the first part of a concatenation.                   *)
LEMMA ConcatTail ==
  ASSUME NEW S, NEW a \in Seq(S), NEW b \in Seq(S),
         NEW i \in (Len(a) + 1)..(Len(a) + Len(b))
  PROVE  (a \o b)[i] = b[i - Len(a)]
OBVIOUS

(* One callback adds its replacement to what is emitted, and nothing else. *)
LEMMA EmittedByMatch ==
  ASSUME TypeOK, NEW m \in Node \X (1..Len(actions)),
         groups' = groups \o GroupsOf(m)
  PROVE  Emitted(Len(groups))' = Emitted(Len(groups)) \cup {ReplacementOf(m)}
<1> DEFINE n == Len(groups)
           t == Temporaries
<1>1. /\ GroupsOf(m) \in Seq(Seq(Replacement))
      /\ ReplacementOf(m) \in Replacement
  BY GroupsOfType
<1>2. t \in Nat /\ n \in Nat /\ Len(GroupsOf(m)) = t + 1
  BY TemporariesAssumption DEF GroupsOf, TypeOK
<1>3. Len(groups') = n + t + 1
  <2>1. Len(groups') = n + Len(GroupsOf(m))
    BY <1>1, ConcatLen DEF TypeOK
  <2> QED
    BY <1>2, <2>1
<1>4. \A i \in 1..n : groups'[i] = groups[i]
  BY <1>1, ConcatHead DEF TypeOK
<1>5. \A i \in (n + 1)..(n + t + 1) : groups'[i] = GroupsOf(m)[i - n]
  <2>1. groups \in Seq(Seq(Replacement)) /\ n + t + 1 = n + Len(GroupsOf(m))
    BY <1>2 DEF TypeOK
  <2> QED
    BY <1>1, <2>1, ConcatTail
<1>6. \A i \in (n + 1)..(n + t) : groups'[i] = << >>
  BY <1>2, <1>5 DEF GroupsOf
<1>7. groups'[n + t + 1] = <<ReplacementOf(m)>>
  BY <1>2, <1>5 DEF GroupsOf
<1>8. \A r \in Replacement :
        (\E i \in 1..Len(groups') : \E j \in 1..Len(groups'[i]) :
           groups'[i][j] = r)
        <=> \/ \E i \in 1..n : \E j \in 1..Len(groups[i]) : groups[i][j] = r
            \/ r = ReplacementOf(m)
  <2> SUFFICES ASSUME NEW r \in Replacement
               PROVE  (\E i \in 1..Len(groups') : \E j \in 1..Len(groups'[i]) :
                         groups'[i][j] = r)
                      <=> \/ \E i \in 1..n : \E j \in 1..Len(groups[i]) :
                               groups[i][j] = r
                          \/ r = ReplacementOf(m)
    OBVIOUS
  <2>1. ASSUME NEW i \in 1..Len(groups'), NEW j \in 1..Len(groups'[i]),
               groups'[i][j] = r
        PROVE  \/ \E i1 \in 1..n : \E j1 \in 1..Len(groups[i1]) :
                    groups[i1][j1] = r
               \/ r = ReplacementOf(m)
    <3>1. CASE i \in 1..n
      BY <2>1, <3>1, <1>4
    <3>2. CASE i \in (n + 1)..(n + t)
      BY <2>1, <3>2, <1>6
    <3>3. CASE i = n + t + 1
      BY <2>1, <3>3, <1>7
    <3> QED
      BY <1>2, <1>3, <3>1, <3>2, <3>3
  <2>2. ASSUME NEW i \in 1..n, NEW j \in 1..Len(groups[i]), groups[i][j] = r
        PROVE  \E i1 \in 1..Len(groups') : \E j1 \in 1..Len(groups'[i1]) :
                 groups'[i1][j1] = r
    <3>1. i \in 1..Len(groups') /\ groups'[i] = groups[i]
      BY <1>2, <1>3, <1>4
    <3> QED
      BY <2>2, <3>1
  <2>3. ASSUME r = ReplacementOf(m)
        PROVE  \E i1 \in 1..Len(groups') : \E j1 \in 1..Len(groups'[i1]) :
                 groups'[i1][j1] = r
    <3>1. n + t + 1 \in 1..Len(groups') /\ 1 \in 1..Len(groups'[n + t + 1])
      BY <1>2, <1>3, <1>7
    <3>2. groups'[n + t + 1][1] = r
      BY <1>7, <2>3
    <3> QED
      BY <3>1, <3>2
  <2> QED
    BY <2>1, <2>2, <2>3
<1> QED
  BY <1>1, <1>8 DEF Emitted

(* What is emitted depends on the groups alone.                            *)
LEMMA EmittedStable ==
  ASSUME UNCHANGED groups
  PROVE  /\ \A k : Emitted(k)' = Emitted(k)
         /\ Emitted(Len(groups))' = Emitted(Len(groups))
BY DEF Emitted

(* The groups hold what the traversed units match, and while a unit is     *)
(* being traversed what is missing is still pending.                       *)
LEMMA CollectStep ==
  ASSUME TypeOK, ActionsInv, CollectInv, [Next]_vars
  PROVE  CollectInv'
<1> USE DEF inputVars, toolVars, saveVars, fileVars, Saving
<1>1. CASE AddRefactoring
  BY <1>1 DEF AddRefactoring, CollectInv
<1>2. CASE StartRun
  <2>1. parsed' = {} /\ groups' = << >> /\ phase' = "run"
    BY <1>2 DEF StartRun, ActionsInv
  <2>2. Emitted(Len(groups))' = {}
    BY <2>1 DEF Emitted
  <2>3. Matched' = {}
    BY <2>1 DEF Matched
  <2> QED
    BY <2>1, <2>2, <2>3 DEF CollectInv
<1>3. CASE SkipSource
  <2>1. Matched' = Matched /\ Emitted(Len(groups))' = Emitted(Len(groups))
    BY <1>3, MatchedStable, EmittedStable DEF SkipSource
  <2> QED
    BY <1>3, <2>1 DEF SkipSource, CollectInv
<1>4. CASE ParseSource
  <2>1. /\ Matched' = Matched /\ Emitted(Len(groups))' = Emitted(Len(groups))
        /\ MatchesIn(source)' = MatchesIn(source)
    BY <1>4, MatchedStable, EmittedStable DEF ParseSource, MatchesIn
  <2>2. ReplacementsOf(pending)' = ReplacementsOf(MatchesIn(source))'
    BY <1>4, <2>1 DEF ParseSource, ReplacementsOf
  <2>3. phase = "run" /\ phase' = "match" /\ failed' = failed
        /\ pending' = MatchesIn(source)
    BY <1>4 DEF ParseSource
  <2> QED
    BY <2>1, <2>2, <2>3 DEF CollectInv
<1>5. CASE MatchNode
  <2>1. PICK m \in pending : /\ pending' = pending \ {m}
                             /\ groups' = groups \o GroupsOf(m)
    BY <1>5 DEF MatchNode
  <2>2. /\ phase = "match" /\ phase' = "match" /\ failed' = failed
        /\ source' = source /\ UNCHANGED <<program, actions, parsed>>
    BY <1>5 DEF MatchNode
  <2>3. m \in Node \X (1..Len(actions))
    BY DEF TypeOK
  <2>4. Emitted(Len(groups))' = Emitted(Len(groups)) \cup {ReplacementOf(m)}
    BY <2>1, <2>3, EmittedByMatch
  <2>5. /\ Matched' = Matched
        /\ MatchesIn(source)' = MatchesIn(source)
        /\ \A x : ReplacementOf(x)' = ReplacementOf(x)
    BY <2>2, MatchedStable DEF MatchesIn, ReplacementOf
  <2>6. ReplacementsOf(pending) = ReplacementsOf(pending)' \cup {ReplacementOf(m)}
    BY <2>1, <2>5 DEF ReplacementsOf
  <2>7. ReplacementsOf(MatchesIn(source))' = ReplacementsOf(MatchesIn(source))
    BY <2>5 DEF ReplacementsOf
  <2> QED
    BY <2>1, <2>2, <2>4, <2>5, <2>6, <2>7 DEF CollectInv
<1>6. CASE FinishSource
  <2>1. /\ phase = "match" /\ phase' = "run" /\ failed' = failed
        /\ pending = {} /\ parsed' = parsed \cup {source}
        /\ UNCHANGED <<program, actions, groups>>
    BY <1>6 DEF FinishSource
  <2>2. Matched' = Matched \cup ReplacementsOf(MatchesIn(source))
    BY <2>1 DEF Matched, ReplacementsOf, MatchesIn, ReplacementOf
  <2>3. Emitted(Len(groups))' = Emitted(Len(groups))
    BY <2>1, EmittedStable
  <2>4. ReplacementsOf(pending) = {}
    BY <2>1 DEF ReplacementsOf
  <2> QED
    BY <2>1, <2>2, <2>3, <2>4 DEF CollectInv
<1>7. CASE FailSource
  BY <1>7 DEF FailSource, CollectInv
<1>8. CASE EndRun
  <2>1. Matched' = Matched /\ Emitted(Len(groups))' = Emitted(Len(groups))
    BY <1>8, MatchedStable, EmittedStable DEF EndRun
  <2> QED
    BY <1>8, <2>1 DEF EndRun, CollectInv
<1>9. CASE FlattenGroup
  <2>1. Matched' = Matched /\ Emitted(Len(groups))' = Emitted(Len(groups))
    BY <1>9, MatchedStable, EmittedStable DEF FlattenGroup
  <2> QED
    BY <1>9, <2>1 DEF FlattenGroup, CollectInv
<1>10. CASE SortReplacements \/ KeepIfNew \/ EraseRest \/ ApplyReplacement
            \/ StartWriting \/ WriteFile \/ FailWrite \/ Finish
  BY <1>10 DEF SortReplacements, KeepIfNew, EraseRest, ApplyReplacement,
               StartWriting, WriteFile, FailWrite, Finish, CollectInv
<1>11. CASE Kill
  BY <1>11 DEF Kill, CollectInv
<1>12. CASE UNCHANGED vars
  <2>1. /\ Matched' = Matched /\ Emitted(Len(groups))' = Emitted(Len(groups))
        /\ MatchesIn(source)' = MatchesIn(source)
    BY <1>12, MatchedStable, EmittedStable DEF vars, MatchesIn
  <2>2. /\ ReplacementsOf(pending)' = ReplacementsOf(pending)
        /\ ReplacementsOf(MatchesIn(source))' = ReplacementsOf(MatchesIn(source))
    BY <1>12, <2>1 DEF vars, ReplacementsOf, ReplacementOf
  <2> QED
    BY <1>12, <2>1, <2>2 DEF vars, CollectInv
<1> QED
  BY <1>1, <1>2, <1>3, <1>4, <1>5, <1>6, <1>7, <1>8, <1>9, <1>10, <1>11,
     <1>12 DEF Next, Step

(* The range of a sequence, by its indexes.                                *)
LEMMA RangeByIndex ==
  ASSUME NEW s \in Seq(Replacement)
  PROVE  /\ Range(s) = {r \in Replacement : \E j \in 1..Len(s) : s[j] = r}
         /\ Range(s) = {s[j] : j \in 1..Len(s)}
<1>1. DOMAIN s = 1..Len(s) /\ \A j \in 1..Len(s) : s[j] \in Replacement
  OBVIOUS
<1> QED
  BY <1>1 DEF Range

(* A loop iteration of getReplacements appends one more group.             *)
LEMMA FlattenedByStep ==
  ASSUME TypeOK, next <= Len(groups), Range(replacements) = Emitted(next - 1),
         replacements' = replacements \o groups[next]
  PROVE  Range(replacements') = Emitted(next)
<1> DEFINE g == groups[next]
<1>1. /\ next \in 1..Len(groups) /\ g \in Seq(Replacement)
      /\ replacements \in Seq(Replacement)
  BY DEF TypeOK
<1>2. Range(replacements \o g) = Range(replacements) \cup Range(g)
  BY <1>1, RangeConcatenation
<1>3. Range(g) = {r \in Replacement : \E j \in 1..Len(g) : g[j] = r}
  BY <1>1, RangeByIndex
<1>4. next - 1 \in Nat /\ 1..next = (1..(next - 1)) \cup {next}
  BY <1>1
<1>5. Emitted(next) = Emitted(next - 1) \cup Range(g)
  BY <1>3, <1>4 DEF Emitted
<1> QED
  BY <1>2, <1>5

(* Sorting leaves the same replacements.                                   *)
LEMMA SortKeepsRange ==
  ASSUME NEW s, NEW t \in SortedVersions(s), s \in Seq(Replacement)
  PROVE  Range(t) = Range(s)
<1>1. t \in [DOMAIN s -> Range(s)] /\ \A r \in Range(s) : Count(t, r) = Count(s, r)
  BY DEF SortedVersions
<1>2. Range(t) \subseteq Range(s)
  BY <1>1 DEF Range
<1>3. ASSUME NEW r \in Range(s) PROVE r \in Range(t)
  <2>1. {i \in DOMAIN s : s[i] = r} # {} /\ IsFiniteSet(DOMAIN s)
    BY FS_Interval DEF Range
  <2>2. Count(s, r) # 0
    BY <2>1, FS_Subset, FS_EmptySet DEF Count
  <2>3. Count(t, r) # 0
    BY <1>1, <2>2
  <2>4. {i \in DOMAIN t : t[i] = r} # {}
    BY <2>3, FS_EmptySet DEF Count
  <2> QED
    BY <2>4 DEF Range
<1> QED
  BY <1>2, <1>3

(* An element equal to an earlier one of a sorted sequence follows an      *)
(* equal element: all equal elements are neighbours.                       *)
LEMMA EqualsAreNeighbours ==
  ASSUME NEW s \in Seq(Replacement), Sorted(s),
         NEW i \in 1..Len(s), NEW k \in 1..Len(s), i < k, s[i] = s[k]
  PROVE  s[k - 1] = s[k]
<1>1. CASE i = k - 1
  BY <1>1
<1>2. CASE i # k - 1
  <2>1. k - 1 \in 1..Len(s) /\ i < k - 1 /\ k - 1 < k
    BY <1>2
  <2>2. DOMAIN s = 1..Len(s)
    OBVIOUS
  <2>3. NotAfter(s[i], s[k - 1]) /\ NotAfter(s[k - 1], s[k])
    BY <2>1, <2>2 DEF Sorted
  <2>4. s[i] \in Replacement /\ s[k - 1] \in Replacement
    BY <2>1
  <2>5. ASSUME NEW a \in Replacement, NEW b \in Replacement,
               NotAfter(a, b), NotAfter(b, a)
        PROVE  a = b
    <3>0. Path \cup {NoPath} \subseteq Nat
      BY PathAssumption DEF NoPath
    <3>1. /\ a.path \in Nat /\ a.offset \in Nat /\ a.text \in Nat
          /\ b.path \in Nat /\ b.offset \in Nat /\ b.text \in Nat
      BY <3>0, OffsetAssumption, TextAssumption DEF Replacement
    <3>2. a.path = b.path /\ a.offset = b.offset /\ a.text = b.text
      BY <2>5, <3>1 DEF NotAfter
    <3> QED
      BY <3>2 DEF Replacement
  <2> QED
    BY <2>3, <2>4, <2>5
<1> QED
  BY <1>1, <1>2

(* Appending an element that is not there keeps a sequence injective.      *)
LEMMA AppendKeepsInjective ==
  ASSUME NEW s \in Seq(Replacement), NEW r \in Replacement,
         IsInjective(s), r \notin Range(s), NEW t, t = Append(s, r)
  PROVE  IsInjective(t) /\ Range(t) = Range(s) \cup {r}
<1>1. /\ DOMAIN s = 1..Len(s) /\ DOMAIN t = 1..(Len(s) + 1) /\ Len(s) \in Nat
      /\ \A j \in 1..Len(s) : t[j] = s[j]
      /\ t[Len(s) + 1] = r
  <2>1. /\ t \in Seq(Replacement) /\ Len(t) = Len(s) + 1
        /\ \A j \in 1..Len(s) : t[j] = s[j]
        /\ t[Len(s) + 1] = r
    BY AppendProperties
  <2>2. DOMAIN t = 1..Len(t) /\ DOMAIN s = 1..Len(s) /\ Len(s) \in Nat
    BY <2>1
  <2> QED
    BY <2>1, <2>2
<1>2. \A j \in 1..Len(s) : s[j] # r
  BY <1>1 DEF Range
<1>3. IsInjective(t)
  BY <1>1, <1>2 DEF IsInjective
<1>4. Range(t) = Range(s) \cup {r}
  <2>1. \A x \in Range(t) : x \in Range(s) \cup {r}
    BY <1>1 DEF Range
  <2>2. \A x \in Range(s) : x \in Range(t)
    BY <1>1 DEF Range
  <2>3. Len(s) + 1 \in DOMAIN t
    BY <1>1
  <2>4. r \in Range(t)
    BY <1>1, <2>3 DEF Range
  <2> QED
    BY <2>1, <2>2, <2>4
<1> QED
  BY <1>3, <1>4

(* One iteration of std::unique keeps the compacted prefix free of         *)
(* duplicates and complete.                                                *)
LEMMA UniqueByStep ==
  ASSUME TypeOK, SaveInv, KeepIfNew
  PROVE  /\ IsInjective(unique')
         /\ Range(unique') = {replacements[i] : i \in 1..next}
         /\ Len(unique') > 0 /\ unique'[Len(unique')] = replacements[next]
<1>1. /\ phase = "unique" /\ next \in 1..Len(replacements)
      /\ replacements \in Seq(Replacement) /\ unique \in Seq(Replacement)
      /\ replacements[next] \in Replacement
  BY DEF KeepIfNew, TypeOK
<1>2. /\ Sorted(replacements) /\ IsInjective(unique)
      /\ Range(unique) = {replacements[i] : i \in 1..(next - 1)}
      /\ next > 1 =>
           Len(unique) > 0 /\ unique[Len(unique)] = replacements[next - 1]
  BY <1>1 DEF SaveInv
<1>3. {replacements[i] : i \in 1..next} = Range(unique) \cup {replacements[next]}
  <2>1. 1..next = (1..(next - 1)) \cup {next}
    BY <1>1
  <2> QED
    BY <1>2, <2>1
<1>4. CASE unique # << >> /\ unique[Len(unique)] = replacements[next]
  <2>1. unique' = unique
    BY <1>4 DEF KeepIfNew
  <2>2. Len(unique) > 0 /\ Len(unique) \in DOMAIN unique
    BY <1>1, <1>4
  <2>3. replacements[next] \in Range(unique)
    BY <1>4, <2>2 DEF Range
  <2> QED
    BY <1>2, <1>3, <1>4, <2>1, <2>2, <2>3
<1>5. CASE ~(unique # << >> /\ unique[Len(unique)] = replacements[next])
  <2>1. unique' = Append(unique, replacements[next])
    BY <1>5 DEF KeepIfNew
  <2>2. replacements[next] \notin Range(unique)
    <3> SUFFICES ASSUME replacements[next] \in Range(unique) PROVE FALSE
      OBVIOUS
    <3>1. PICK i \in 1..(next - 1) : replacements[i] = replacements[next]
      BY <1>2
    <3>2. i \in 1..Len(replacements) /\ i < next /\ next > 1
      BY <1>1
    <3>3. replacements[next - 1] = replacements[next]
      BY <1>1, <1>2, <3>1, <3>2, EqualsAreNeighbours
    <3>4. unique # << >>
      BY <1>1, <1>2, <3>2
    <3> QED
      BY <1>2, <1>5, <3>2, <3>3, <3>4
  <2>3. /\ Len(unique') = Len(unique) + 1 /\ Len(unique) \in Nat
        /\ unique'[Len(unique')] = replacements[next]
    BY <1>1, <2>1
  <2>4. \A t : t = Append(unique, replacements[next]) =>
               IsInjective(t) /\ Range(t) = Range(unique) \cup {replacements[next]}
    BY <1>1, <1>2, <2>2, AppendKeepsInjective
  <2>5. /\ IsInjective(unique')
        /\ Range(unique') = Range(unique) \cup {replacements[next]}
    BY <2>1, <2>4
  <2> QED
    BY <1>1, <1>3, <2>3, <2>5
<1> QED
  BY <1>4, <1>5

(* The loops of save() work on exactly the matched replacements, and after *)
(* the deduplication each of them is there once.                           *)
LEMMA SaveStep ==
  ASSUME TypeOK, TypeOK', ActionsInv, CollectInv, SaveInv, [Next]_vars
  PROVE  SaveInv'
<1> USE DEF inputVars, toolVars, saveVars, fileVars
<1>e. /\ Range(<< >>) = {} /\ IsInjective(<< >>) /\ 1..(1 - 1) = {}
  BY DEF Range, IsInjective
<1>1. CASE AddRefactoring \/ StartRun \/ SkipSource \/ ParseSource
           \/ MatchNode \/ FinishSource \/ FailSource
  BY <1>1 DEF AddRefactoring, StartRun, SkipSource, ParseSource, MatchNode,
              FinishSource, FailSource, SaveInv, Collecting
<1>2. CASE EndRun
  <2>1. CASE failed
    BY <1>2, <2>1 DEF EndRun, SaveInv, Collecting
  <2>2. CASE ~failed
    <3>1. /\ phase' = "flatten" /\ replacements' = << >> /\ unique' = << >>
          /\ next' = 1
      BY <1>2, <2>2 DEF EndRun, SaveInv, Collecting
    <3>2. Emitted(next - 1)' = {}
      BY <3>1, <1>e DEF Emitted
    <3>3. Range(replacements)' = {}
      BY <3>1, <1>e
    <3>4. next' <= Len(groups') + 1
      BY <3>1 DEF TypeOK
    <3> QED
      BY <3>1, <3>2, <3>3, <3>4 DEF SaveInv, Collecting
  <2> QED
    BY <2>1, <2>2
<1>3. CASE FlattenGroup
  <2>1. /\ phase = "flatten" /\ phase' = "flatten" /\ next <= Len(groups)
        /\ replacements' = replacements \o groups[next] /\ next' = next + 1
        /\ groups' = groups /\ unique' = unique
    BY <1>3 DEF FlattenGroup
  <2>2. unique = << >> /\ Range(replacements) = Emitted(next - 1)
    BY <2>1 DEF SaveInv
  <2>3. Range(replacements') = Emitted(next)
    BY <2>1, <2>2, FlattenedByStep
  <2>4. next' - 1 = next /\ next' <= Len(groups') + 1
    BY <2>1 DEF TypeOK
  <2>5. Emitted(next - 1)' = Emitted(next)
    BY <2>1, <2>4 DEF Emitted
  <2> QED
    BY <2>1, <2>2, <2>3, <2>4, <2>5 DEF SaveInv, Collecting
<1>4. CASE SortReplacements
  <2>1. /\ phase = "flatten" /\ phase' = "unique" /\ next = Len(groups) + 1
        /\ replacements' \in SortedVersions(replacements) /\ next' = 1
        /\ unique' = unique /\ UNCHANGED <<program, actions, parsed>>
    BY <1>4 DEF SortReplacements
  <2>2. ~failed /\ unique = << >> /\ Range(replacements) = Emitted(next - 1)
    BY <2>1 DEF SaveInv, CollectInv, Saving
  <2>3. next - 1 = Len(groups)
    BY <2>1 DEF TypeOK
  <2>4. Range(replacements) = Matched
    BY <2>1, <2>2, <2>3 DEF CollectInv
  <2>5. Range(replacements') = Matched'
    BY <2>1, <2>4, MatchedStable, SortKeepsRange DEF TypeOK
  <2>6. Sorted(replacements')
    BY <2>1 DEF SortedVersions
  <2>7. Range(unique') = {replacements'[i] : i \in 1..(next' - 1)}
    BY <2>1, <2>2, <1>e
  <2>8. IsInjective(unique')
    BY <2>1, <2>2, <1>e
  <2>9. next' <= Len(replacements') + 1 /\ ~(next' > 1)
    BY <2>1 DEF TypeOK
  <2> QED
    BY <2>1, <2>5, <2>6, <2>7, <2>8, <2>9 DEF SaveInv, Collecting
<1>5. CASE KeepIfNew
  <2>1. /\ phase = "unique" /\ phase' = "unique" /\ next <= Len(replacements)
        /\ next' = next + 1 /\ replacements' = replacements
        /\ UNCHANGED <<program, actions, parsed>>
    BY <1>5 DEF KeepIfNew
  <2>2. Range(replacements) = Matched /\ Sorted(replacements)
    BY <2>1 DEF SaveInv
  <2>3. Range(replacements') = Matched' /\ Sorted(replacements')
    BY <2>1, <2>2, MatchedStable
  <2>4. /\ IsInjective(unique')
        /\ Range(unique') = {replacements[i] : i \in 1..next}
        /\ Len(unique') > 0 /\ unique'[Len(unique')] = replacements[next]
    BY <1>5, UniqueByStep
  <2>5. next' - 1 = next /\ next' <= Len(replacements') + 1
    BY <2>1 DEF TypeOK
  <2>6. Range(unique') = {replacements'[i] : i \in 1..(next' - 1)}
    BY <2>1, <2>4, <2>5
  <2> QED
    BY <2>1, <2>3, <2>4, <2>5, <2>6 DEF SaveInv, Collecting
<1>6. CASE EraseRest
  <2>1. /\ phase = "unique" /\ phase' = "apply" /\ next = Len(replacements) + 1
        /\ replacements' = unique /\ next' = 1
        /\ UNCHANGED <<program, actions, parsed>>
    BY <1>6 DEF EraseRest
  <2>2. /\ Range(replacements) = Matched /\ IsInjective(unique)
        /\ Range(unique) = {replacements[i] : i \in 1..(next - 1)}
    BY <2>1 DEF SaveInv
  <2>3. next - 1 = Len(replacements)
    BY <2>1 DEF TypeOK
  <2>4. Range(replacements) = {replacements[i] : i \in 1..Len(replacements)}
    BY RangeByIndex DEF TypeOK
  <2>5. Range(replacements') = Matched'
    BY <2>1, <2>2, <2>3, <2>4, MatchedStable
  <2>6. next' <= Len(replacements') + 1
    BY <2>1 DEF TypeOK
  <2> QED
    BY <2>1, <2>2, <2>5, <2>6 DEF SaveInv, Collecting
<1>7. CASE ApplyReplacement
  <2>1. /\ phase = "apply" /\ phase' = "apply" /\ next <= Len(replacements)
        /\ next' = next + 1 /\ replacements' = replacements
        /\ UNCHANGED <<program, actions, parsed>>
    BY <1>7 DEF ApplyReplacement
  <2>2. Matched' = Matched /\ next' <= Len(replacements') + 1
    BY <2>1, MatchedStable DEF TypeOK
  <2> QED
    BY <2>1, <2>2 DEF SaveInv, Collecting
<1>8. CASE StartWriting \/ WriteFile \/ FailWrite \/ Finish \/ Kill
  BY <1>8 DEF StartWriting, WriteFile, FailWrite, Finish, Kill, SaveInv,
              Collecting
<1>9. CASE UNCHANGED vars
  <2>1. Matched' = Matched /\ Emitted(next - 1)' = Emitted(next - 1)
    BY <1>9, MatchedStable, EmittedStable DEF vars, Emitted
  <2> QED
    BY <1>9, <2>1 DEF vars, SaveInv, Collecting
<1> QED
  BY <1>1, <1>2, <1>3, <1>4, <1>5, <1>6, <1>7, <1>8, <1>9 DEF Next, Step

(* What the renamed file has at a token.                                   *)
LEMMA RenamedToken ==
  ASSUME TypeOK, ActionsInv, NEW f \in Path, NEW o \in Offset
  PROVE  /\ \A r \in Matched : At(r, f, o) => Renamed(f)[o] = <<r.text>>
         /\ (\A r \in Matched : ~At(r, f, o)) => Renamed(f)[o] = << >>
<1>1. ASSUME NEW r \in Matched, At(r, f, o)
      PROVE  Renamed(f)[o] = <<r.text>>
  <2> DEFINE c == CHOOSE x \in Matched : At(x, f, o)
  <2>1. c \in Matched /\ At(c, f, o)
    BY <1>1
  <2>2. Renamed(f)[o] = <<c.text>>
    BY <1>1 DEF Renamed
  <2> HIDE DEF c
  <2>3. c.path = r.path /\ c.offset = r.offset /\ c.path # NoPath
    BY <1>1, <2>1, PathAssumption DEF At
  <2>4. c = r
    BY <2>1, <2>3, OneText
  <2> QED
    BY <2>2, <2>4
<1>2. ASSUME \A r \in Matched : ~At(r, f, o)
      PROVE  Renamed(f)[o] = << >>
  BY <1>2 DEF Renamed
<1> QED
  BY <1>1, <1>2

(* Applying the next replacement puts its text, and only its text, in the  *)
(* place of its token.                                                     *)
LEMMA AppliedByStep ==
  ASSUME TypeOK, ActionsInv, SaveInv, BufferInv, ApplyReplacement,
         NEW f \in Path, NEW o \in Offset
  PROVE  buffers'[f][o] = IF \E i \in 1..next : At(replacements[i], f, o)
                          THEN Renamed(f)[o]
                          ELSE << >>
<1> DEFINE r == replacements[next]
<1>1. /\ phase = "apply" /\ next \in 1..Len(replacements)
      /\ buffers' = IF IsApplicable(r) THEN Rewrite(buffers, r) ELSE buffers
      /\ r \in Replacement /\ DOMAIN replacements = 1..Len(replacements)
  BY DEF ApplyReplacement, TypeOK
<1>2. Range(replacements) = Matched /\ IsInjective(replacements)
  BY <1>1 DEF SaveInv
<1>3. /\ buffers[f][o] = IF \E i \in 1..(next - 1) : At(replacements[i], f, o)
                          THEN Renamed(f)[o]
                          ELSE << >>
      /\ buffers \in [Path -> [Offset -> Seq(Text)]]
  BY <1>1 DEF BufferInv, TypeOK, FileContents
<1>4. 1..next = (1..(next - 1)) \cup {next}
  BY <1>1
<1>5. \A i \in 1..next : replacements[i] \in Matched
  BY <1>1, <1>2 DEF Range
<1>6. CASE At(r, f, o)
  <2>1. /\ r.path = f /\ r.offset = o /\ IsApplicable(r) /\ r.text \in Text
    BY <1>1, <1>6, PathAssumption DEF At, IsApplicable, Replacement
  <2>2. ASSUME NEW i \in 1..(next - 1), At(replacements[i], f, o)
        PROVE  FALSE
    <3>1. i \in 1..next /\ next \in 1..next /\ i # next
      BY <1>1
    <3>2. replacements[i] = r
      BY <1>5, <2>1, <2>2, <3>1, OneText DEF At, IsApplicable
    <3> QED
      BY <1>1, <1>2, <3>1, <3>2 DEF IsInjective
  <2>3. buffers[f][o] = << >>
    BY <1>3, <2>2
  <2>4. buffers'[f][o] = Append(buffers[f][o], r.text)
    BY <1>1, <1>3, <2>1 DEF Rewrite
  <2>5. buffers'[f][o] = <<r.text>>
    BY <2>1, <2>3, <2>4
  <2>6. r \in Matched
    BY <1>1, <1>5
  <2>7. Renamed(f)[o] = <<r.text>>
    BY <1>6, <2>6, RenamedToken
  <2>8. next \in 1..next
    BY <1>1
  <2> QED
    BY <1>6, <2>5, <2>7, <2>8
<1>7. CASE ~At(r, f, o)
  <2>1. buffers'[f][o] = buffers[f][o]
    <3>1. CASE IsApplicable(r)
      <4>1. r.path \in Path /\ r.offset \in Offset
        BY <1>1, <3>1 DEF IsApplicable, Replacement
      <4> QED
        BY <1>1, <1>3, <1>7, <3>1, <4>1 DEF Rewrite, At
    <3>2. CASE ~IsApplicable(r)
      BY <1>1, <3>2
    <3> QED
      BY <3>1, <3>2
  <2> QED
    BY <1>3, <1>4, <1>7, <2>1
<1> QED
  BY <1>6, <1>7

(* Once every replacement is applied the buffers are the renamed files.    *)
LEMMA AllApplied ==
  ASSUME TypeOK, ActionsInv, SaveInv, BufferInv, phase = "apply",
         next = Len(replacements) + 1, NEW f \in Path
  PROVE  buffers[f] = Renamed(f)
<1>1. Range(replacements) = {replacements[i] : i \in 1..Len(replacements)}
  BY RangeByIndex DEF TypeOK
<1>2. next - 1 = Len(replacements) /\ Range(replacements) = Matched
  BY DEF TypeOK, SaveInv
<1>3. ASSUME NEW o \in Offset
      PROVE  buffers[f][o] = Renamed(f)[o]
  <2>1. buffers[f][o] = IF \E i \in 1..Len(replacements) :
                             At(replacements[i], f, o)
                        THEN Renamed(f)[o]
                        ELSE << >>
    BY <1>2 DEF BufferInv
  <2>2. CASE \E i \in 1..Len(replacements) : At(replacements[i], f, o)
    BY <2>1, <2>2
  <2>3. CASE ~\E i \in 1..Len(replacements) : At(replacements[i], f, o)
    <3>1. \A r \in Matched : ~At(r, f, o)
      BY <1>1, <1>2, <2>3
    <3> QED
      BY <2>1, <2>3, <3>1, RenamedToken
  <2> QED
    BY <2>2, <2>3
<1>4. buffers[f] \in [Offset -> Seq(Text)]
  BY DEF TypeOK, FileContents
<1>5. Renamed(f) = [o \in Offset |-> Renamed(f)[o]]
  BY DEF Renamed
<1> QED
  BY <1>3, <1>4, <1>5

(* Applying keeps the rewritten tokens those of the replacements applied.  *)
LEMMA BufferStep ==
  ASSUME TypeOK, ActionsInv, SaveInv, BufferInv, [Next]_vars
  PROVE  BufferInv'
<1> USE DEF inputVars, toolVars, saveVars, fileVars
<1>1. CASE AddRefactoring \/ StartRun \/ SkipSource \/ ParseSource
           \/ MatchNode \/ FinishSource \/ FailSource \/ EndRun
           \/ FlattenGroup \/ SortReplacements \/ KeepIfNew
  BY <1>1 DEF AddRefactoring, StartRun, SkipSource, ParseSource, MatchNode,
              FinishSource, FailSource, EndRun, FlattenGroup,
              SortReplacements, KeepIfNew, BufferInv, Collecting
<1>2. CASE EraseRest
  <2>1. /\ phase' = "apply" /\ next' = 1
        /\ buffers' = [f \in Path |-> Pristine]
    BY <1>2 DEF EraseRest, BufferInv
  <2>2. \A f \in Path, o \in Offset : buffers'[f][o] = << >>
    BY <2>1 DEF Pristine
  <2>3. 1..(next' - 1) = {}
    BY <2>1
  <2> QED
    BY <2>1, <2>2, <2>3 DEF BufferInv, Collecting
<1>3. CASE ApplyReplacement
  <2>1. /\ phase' = "apply" /\ next' = next + 1 /\ replacements' = replacements
        /\ UNCHANGED <<program, actions, parsed>>
    BY <1>3 DEF ApplyReplacement
  <2>2. next' - 1 = next /\ \A f : Renamed(f)' = Renamed(f)
    BY <2>1, MatchedStable DEF TypeOK
  <2>3. \A f \in Path, o \in Offset :
          buffers'[f][o] = IF \E i \in 1..next : At(replacements[i], f, o)
                           THEN Renamed(f)[o]
                           ELSE << >>
    BY <1>3, AppliedByStep
  <2> QED
    BY <2>1, <2>2, <2>3 DEF BufferInv, Collecting, At
<1>4. CASE StartWriting
  <2>1. /\ phase = "apply" /\ phase' = "write" /\ buffers' = buffers
        /\ next = Len(replacements) + 1 /\ UNCHANGED <<program, actions, parsed>>
    BY <1>4 DEF StartWriting
  <2>2. \A f : Renamed(f)' = Renamed(f)
    BY <2>1, MatchedStable
  <2>3. \A f \in Path : buffers[f] = Renamed(f)
    BY <2>1, AllApplied
  <2> QED
    BY <2>1, <2>2, <2>3 DEF BufferInv, Collecting
<1>5. CASE WriteFile \/ FailWrite
  <2>1. /\ phase = "write" /\ phase' = "write" /\ buffers' = buffers
        /\ UNCHANGED <<program, actions, parsed>>
    BY <1>5 DEF WriteFile, FailWrite
  <2>2. \A f : Renamed(f)' = Renamed(f)
    BY <2>1, MatchedStable
  <2> QED
    BY <2>1, <2>2 DEF BufferInv, Collecting
<1>6. CASE Finish \/ Kill
  BY <1>6 DEF Finish, Kill, BufferInv, Collecting
<1>7. CASE UNCHANGED vars
  <2>1. \A f : Renamed(f)' = Renamed(f)
    BY <1>7, MatchedStable DEF vars
  <2> QED
    BY <1>7, <2>1 DEF vars, BufferInv, Collecting, At
<1> QED
  BY <1>1, <1>2, <1>3, <1>4, <1>5, <1>6, <1>7 DEF Next, Step

(* Writing keeps every file either as it was or rewritten as a whole.      *)
LEMMA DiskStep ==
  ASSUME TypeOK, ActionsInv, CollectInv, SaveInv, BufferInv, DiskInv,
         [Next]_vars
  PROVE  DiskInv'
<1> USE DEF inputVars, toolVars, saveVars, fileVars
<1>p. ASSUME disk' = [f \in Path |-> Pristine]
      PROVE  WholeFilesOnDisk' /\ FailureLeavesFilesAlone'
  BY <1>p DEF WholeFilesOnDisk, FailureLeavesFilesAlone, Pristine
<1>1. CASE AddRefactoring \/ StartRun \/ SkipSource \/ ParseSource
           \/ MatchNode \/ FinishSource \/ FailSource
           \/ FlattenGroup \/ SortReplacements \/ KeepIfNew \/ EraseRest
           \/ ApplyReplacement
  <2>1. /\ disk' = [f \in Path |-> Pristine] /\ allWritten'
        /\ phase' \notin {"write", "exited"}
    BY <1>1 DEF AddRefactoring, StartRun, SkipSource, ParseSource, MatchNode,
                FinishSource, FailSource, FlattenGroup, SortReplacements,
                KeepIfNew, EraseRest, ApplyReplacement, DiskInv, Collecting
  <2> QED
    BY <2>1, <1>p DEF DiskInv, ExitTellsTruth
<1>2. CASE EndRun
  <2>1. /\ disk' = [f \in Path |-> Pristine] /\ allWritten'
        /\ phase' # "write"
        /\ phase' = "exited" => exit' = "failure" /\ failed'
    BY <1>2 DEF EndRun, DiskInv, Collecting
  <2> QED
    BY <2>1, <1>p DEF DiskInv, ExitTellsTruth
<1>3. CASE StartWriting
  <2>1. /\ phase = "apply" /\ phase' = "write" /\ unwritten' = ChangedFiles
        /\ next = Len(replacements) + 1 /\ UNCHANGED <<program, actions, parsed>>
        /\ disk' = [f \in Path |-> Pristine] /\ allWritten'
    BY <1>3 DEF StartWriting, DiskInv
  <2>2. \A f : Renamed(f)' = Renamed(f)
    BY <2>1, MatchedStable
  <2>3. \A f \in Path : buffers[f] = Renamed(f)
    BY <2>1, AllApplied
  <2>4. Pristine' = Pristine
    BY DEF Pristine
  <2>5. \A f \in unwritten' : disk'[f] = Pristine /\ Renamed(f) # Pristine
    BY <2>1, <2>3 DEF ChangedFiles
  <2>6. \A f \in Path \ unwritten' : disk'[f] = Renamed(f)
    BY <2>1, <2>3 DEF ChangedFiles
  <2> QED
    BY <2>1, <2>2, <2>4, <2>5, <2>6, <1>p DEF DiskInv, ExitTellsTruth, Collecting
<1>4. CASE WriteFile
  <2>1. PICK f \in unwritten : /\ unwritten' = unwritten \ {f}
                               /\ disk' = [disk EXCEPT ![f] = buffers[f]]
    BY <1>4 DEF WriteFile
  <2>2. /\ phase = "write" /\ phase' = "write" /\ allWritten' = allWritten
        /\ failed' = failed /\ UNCHANGED <<program, actions, parsed>>
    BY <1>4 DEF WriteFile
  <2>3. /\ ~failed /\ buffers[f] = Renamed(f) /\ f \in Path
        /\ DOMAIN disk = Path /\ unwritten \subseteq Path
    BY <2>1, <2>2 DEF CollectInv, Saving, BufferInv, TypeOK, FileContents
  <2>4. /\ \A g \in unwritten : disk[g] = Pristine /\ Renamed(g) # Pristine
        /\ allWritten <=> \A g \in Path \ unwritten : disk[g] = Renamed(g)
        /\ WholeFilesOnDisk
    BY <2>2 DEF DiskInv
  <2>5. /\ disk'[f] = Renamed(f)
        /\ \A g \in Path : g # f => disk'[g] = disk[g]
    BY <2>1, <2>3
  <2>6. \A g : Renamed(g)' = Renamed(g)
    BY <2>2, MatchedStable
  <2>7. WholeFilesOnDisk'
    BY <2>4, <2>5, <2>6 DEF WholeFilesOnDisk, Pristine
  <2>8. \A g \in unwritten' : disk'[g] = Pristine /\ Renamed(g) # Pristine
    BY <2>1, <2>3, <2>4, <2>5
  <2>9. allWritten <=> \A g \in Path \ unwritten' : disk'[g] = Renamed(g)
    BY <2>1, <2>3, <2>4, <2>5
  <2> QED
    BY <2>2, <2>3, <2>6, <2>7, <2>8, <2>9
       DEF DiskInv, ExitTellsTruth, Collecting, FailureLeavesFilesAlone, Pristine
<1>5. CASE FailWrite
  <2>1. PICK f \in unwritten : unwritten' = unwritten \ {f}
    BY <1>5 DEF FailWrite
  <2>2. /\ phase = "write" /\ phase' = "write" /\ allWritten' = FALSE
        /\ disk' = disk /\ failed' = failed
        /\ UNCHANGED <<program, actions, parsed>>
    BY <1>5 DEF FailWrite
  <2>3. ~failed /\ f \in Path
    BY <2>1, <2>2 DEF CollectInv, Saving, TypeOK
  <2>4. /\ \A g \in unwritten : disk[g] = Pristine /\ Renamed(g) # Pristine
        /\ WholeFilesOnDisk
    BY <2>2 DEF DiskInv
  <2>5. \A g : Renamed(g)' = Renamed(g)
    BY <2>2, MatchedStable
  <2>6. WholeFilesOnDisk'
    BY <2>2, <2>4, <2>5 DEF WholeFilesOnDisk, Pristine
  <2>7. f \in Path \ unwritten' /\ disk'[f] # Renamed(f)
    BY <2>1, <2>2, <2>3, <2>4
  <2>8. \A g \in unwritten' : disk'[g] = Pristine /\ Renamed(g) # Pristine
    BY <2>1, <2>2, <2>4
  <2> QED
    BY <2>2, <2>3, <2>5, <2>6, <2>7, <2>8
       DEF DiskInv, ExitTellsTruth, Collecting, FailureLeavesFilesAlone, Pristine
<1>6. CASE Finish
  <2>1. /\ phase = "write" /\ phase' = "exited" /\ unwritten = {}
        /\ exit' = IF allWritten THEN "success" ELSE "failure"
        /\ disk' = disk /\ failed' = failed
        /\ UNCHANGED <<program, actions, parsed>>
    BY <1>6 DEF Finish
  <2>2. ~failed
    BY <2>1 DEF CollectInv, Saving
  <2>3. /\ allWritten <=> \A g \in Path : disk[g] = Renamed(g)
        /\ WholeFilesOnDisk
    BY <2>1 DEF DiskInv
  <2>4. \A g : Renamed(g)' = Renamed(g)
    BY <2>1, MatchedStable
  <2>5. WholeFilesOnDisk'
    BY <2>1, <2>3, <2>4 DEF WholeFilesOnDisk, Pristine
  <2>6. exit' = "success" <=> \A g \in Path : disk'[g] = Renamed(g)'
    BY <2>1, <2>3, <2>4
  <2> QED
    BY <2>1, <2>2, <2>5, <2>6
       DEF DiskInv, ExitTellsTruth, Collecting, FailureLeavesFilesAlone
<1>7. CASE Kill
  <2>1. /\ phase' = "killed" /\ disk' = disk /\ failed' = failed
        /\ UNCHANGED <<program, actions, parsed>>
    BY <1>7 DEF Kill
  <2>2. \A g : Renamed(g)' = Renamed(g)
    BY <2>1, MatchedStable
  <2> QED
    BY <2>1, <2>2 DEF DiskInv, ExitTellsTruth, Collecting,
                      FailureLeavesFilesAlone, WholeFilesOnDisk, Pristine
<1>8. CASE UNCHANGED vars
  <2>1. \A g : Renamed(g)' = Renamed(g)
    BY <1>8, MatchedStable DEF vars
  <2> QED
    BY <1>8, <2>1 DEF vars, DiskInv, ExitTellsTruth, Collecting,
                      FailureLeavesFilesAlone, WholeFilesOnDisk, Pristine
<1> QED
  BY <1>1, <1>2, <1>3, <1>4, <1>5, <1>6, <1>7, <1>8 DEF Next, Step
-----------------------------------------------------------------------------
(* The invariant is inductive.                                             *)
THEOREM Inductive == Spec => []IInv
<1>1. Init => ActionsInv /\ CollectInv /\ SaveInv /\ BufferInv /\ DiskInv
  <2> SUFFICES ASSUME Init
               PROVE  ActionsInv /\ CollectInv /\ SaveInv /\ BufferInv /\ DiskInv
    OBVIOUS
  <2>1. ActionsInv
    BY RefactoringsAssumption DEF Init, ActionsInv
  <2>2. CollectInv /\ SaveInv /\ BufferInv
    BY DEF Init, CollectInv, SaveInv, BufferInv, Collecting, Saving
  <2>3. DiskInv
    BY DEF Init, DiskInv, WholeFilesOnDisk, FailureLeavesFilesAlone,
           ExitTellsTruth, Collecting
  <2> QED
    BY <2>1, <2>2, <2>3
<1>2. TypeOK /\ TypeOK' /\ ActionsInv /\ CollectInv /\ SaveInv /\ BufferInv
        /\ DiskInv /\ [Next]_vars
      => ActionsInv' /\ CollectInv' /\ SaveInv' /\ BufferInv' /\ DiskInv'
  BY ActionsStep, CollectStep, SaveStep, BufferStep, DiskStep
<1> QED
  BY <1>1, <1>2, TypeCorrect, PTL DEF Spec, IInv

(* No file is ever seen half renamed or with a token renamed twice.        *)
THEOREM FilesStayWhole == Spec => []WholeFilesOnDisk
<1>1. IInv => WholeFilesOnDisk
  BY DEF IInv, DiskInv
<1> QED
  BY <1>1, Inductive, PTL

(* The exit code says whether everything that was matched is renamed.      *)
THEOREM ExitIsTruthful == Spec => []ExitTellsTruth
<1>1. IInv => ExitTellsTruth
  BY DEF IInv, DiskInv
<1> QED
  BY <1>1, Inductive, PTL

(* A unit with errors keeps every file of the run untouched.               *)
THEOREM NoSaveAfterFailure == Spec => []FailureLeavesFilesAlone
<1>1. IInv => FailureLeavesFilesAlone
  BY DEF IInv, DiskInv
<1> QED
  BY <1>1, Inductive, PTL

(* After success the declarations and the ordinary references of a         *)
(* function have the new name of any of them, in every file and unit.      *)
THEOREM RenamesTogether == Spec => []RenameIsConsistent
<1>1. IInv => RenameIsConsistent
  <2> SUFFICES ASSUME IInv, phase = "exited", exit = "success",
                      NEW f \in Path, NEW o \in Offset, NEW function \in Name,
                      disk[f][o] # << >>, MeansOnly(f, o, function),
                      NEW s \in parsed, NEW n \in program[s],
                      n.target = function, n.path # NoPath,
                      \/ n.form = "FunctionDecl"
                      \/ n.form = "DeclRefExpr" /\ n.inside = {}
               PROVE  disk[n.path][n.offset] = disk[f][o]
    BY DEF RenameIsConsistent
  <2>1. TypeOK /\ ActionsInv /\ s \in Source /\ n \in Node
    BY DEF IInv, TypeOK
  <2>2. \A g \in Path : disk[g] = Renamed(g)
    BY DEF IInv, DiskInv, ExitTellsTruth
  <2>3. PICK r \in Matched : At(r, f, o)
    BY <2>1, <2>2, RenamedToken
  <2>4. PICK s1 \in parsed : \E n1 \in program[s1], k \in 1..Len(Refactorings) :
          /\ r = [path |-> n1.path, offset |-> n1.offset,
                  text |-> Refactorings[k].new]
          /\ Matches(n1, Refactorings[k])
    BY <2>1, MatchedOrigin
  <2>5. PICK n1 \in program[s1], k \in 1..Len(Refactorings) :
          /\ r = [path |-> n1.path, offset |-> n1.offset,
                  text |-> Refactorings[k].new]
          /\ Matches(n1, Refactorings[k])
    BY <2>4
  <2>6. s1 \in Source /\ n1.path = f /\ n1.offset = o
    BY <2>1, <2>3, <2>5 DEF TypeOK, At
  <2>7. function = Refactorings[k].old
    BY <2>5, <2>6 DEF MeansOnly, Matches
  <2>8. Matches(n, Refactorings[k])
    BY <2>7 DEF Matches
  <2> DEFINE q == ReplacementOf(<<n, k>>)
  <2>9. Len(actions) = Len(Refactorings) /\ actions[k] = Refactorings[k]
    BY <2>1 DEF ActionsInv
  <2>10. <<n, k>> \in MatchesIn(s)
    BY <2>8, <2>9 DEF MatchesIn
  <2>11. q \in Matched
    BY <2>10 DEF Matched
  <2>12. /\ n.path \in Path /\ n.offset \in Offset
         /\ At(q, n.path, n.offset) /\ q.text = Refactorings[k].new
    BY <2>1, <2>9 DEF Node, ReplacementOf, At
  <2>13. disk[n.path][n.offset] = <<Refactorings[k].new>>
    BY <2>1, <2>2, <2>11, <2>12, RenamedToken
  <2>14. disk[f][o] = <<r.text>>
    BY <2>1, <2>2, <2>3, RenamedToken
  <2> QED
    BY <2>5, <2>13, <2>14
<1> QED
  BY <1>1, Inductive, PTL

(* A name that is resolved in instantiations only, or in nodes that no     *)
(* matcher sees, is never rewritten.                                       *)
THEOREM DependentNamesAreKept == Spec => []DependentNamesStay
<1>1. IInv => DependentNamesStay
  <2> SUFFICES ASSUME IInv, NEW f \in Path, NEW o \in Offset, disk[f][o] # << >>
               PROVE  \E s \in Source : \E n \in program[s] :
                        /\ n.path = f /\ n.offset = o
                        /\ \/ n.form = "FunctionDecl"
                           \/ /\ n.form = "DeclRefExpr"
                              /\ "instantiation" \notin n.inside
    BY DEF DependentNamesStay
  <2>1. TypeOK /\ ActionsInv
    BY DEF IInv
  <2>2. disk[f] = Renamed(f)
    BY DEF IInv, DiskInv, WholeFilesOnDisk, Pristine
  <2>3. PICK r \in Matched : At(r, f, o)
    BY <2>1, <2>2, RenamedToken
  <2>4. PICK s \in parsed : \E n \in program[s], k \in 1..Len(Refactorings) :
          /\ r = [path |-> n.path, offset |-> n.offset,
                  text |-> Refactorings[k].new]
          /\ Matches(n, Refactorings[k])
    BY <2>1, MatchedOrigin
  <2>5. PICK n \in program[s], k \in 1..Len(Refactorings) :
          /\ r = [path |-> n.path, offset |-> n.offset,
                  text |-> Refactorings[k].new]
          /\ Matches(n, Refactorings[k])
    BY <2>4
  <2>6. s \in Source /\ n.path = f /\ n.offset = o
    BY <2>1, <2>3, <2>5 DEF TypeOK, At
  <2> QED
    BY <2>5, <2>6 DEF Matches, Unless, AllowUnsafe
<1> QED
  BY <1>1, Inductive, PTL
-----------------------------------------------------------------------------
(* RefactoringTask implements AtomicRename, for every value of its         *)
(* constants: each step of the run is a step of the renaming of files that *)
(* a user sees, or one that a user does not see.                           *)

(* The variables of AtomicRename as RefactoringTask has them.              *)
Tree == [f \in Path |-> IF disk[f] = Pristine THEN "old"
                        ELSE IF disk[f] = Renamed(f) THEN "new"
                        ELSE "torn"]
Plan == {f \in Path : Renamed(f) # Pristine}
Result == IF phase = "killed" THEN "died" ELSE exit

(* There is an exit code exactly when main has returned.                   *)
ExitInv == phase = "exited" <=> exit # "none"

(* Only the two returns of main set the exit code.                         *)
LEMMA ExitSet == Spec => []ExitInv
<1>1. Init => ExitInv
  BY DEF Init, ExitInv
<1>2. ExitInv /\ [Next]_vars => ExitInv'
  <2> SUFFICES ASSUME ExitInv, [Next]_vars PROVE ExitInv'
    OBVIOUS
  <2> USE DEF ExitInv
  <2>1. CASE AddRefactoring \/ StartRun \/ SkipSource \/ ParseSource
             \/ MatchNode \/ FinishSource \/ FailSource
             \/ FlattenGroup \/ SortReplacements \/ KeepIfNew \/ EraseRest
             \/ ApplyReplacement \/ StartWriting \/ WriteFile \/ FailWrite
    BY <2>1 DEF AddRefactoring, StartRun, SkipSource, ParseSource, MatchNode,
                FinishSource, FailSource, FlattenGroup, SortReplacements,
                KeepIfNew, EraseRest, ApplyReplacement, StartWriting,
                WriteFile, FailWrite
  <2>2. CASE EndRun
    BY <2>2 DEF EndRun
  <2>3. CASE Finish
    BY <2>3 DEF Finish
  <2>4. CASE Kill
    BY <2>4 DEF Kill, Stopped
  <2>5. CASE UNCHANGED vars
    BY <2>5 DEF vars
  <2> QED
    BY <2>1, <2>2, <2>3, <2>4, <2>5 DEF Next, Step
<1> QED
  BY <1>1, <1>2, PTL DEF Spec

(* A file on disk is old or new, and new only if it is planned.            *)
LEMMA TreeValues ==
  ASSUME WholeFilesOnDisk, NEW f \in Path
  PROVE  /\ Tree[f] = IF disk[f] = Pristine THEN "old" ELSE "new"
         /\ disk[f] # Pristine => disk[f] = Renamed(f) /\ f \in Plan
BY DEF WholeFilesOnDisk, Tree, Plan

(* What leaves disk, program, actions and traversed units alone changes    *)
(* nothing in the tree and the plan.                                       *)
LEMMA TreeStable ==
  ASSUME UNCHANGED <<disk, program, actions, parsed>>
  PROVE  Tree' = Tree /\ Plan' = Plan
<1>1. \A f : Renamed(f)' = Renamed(f)
  BY MatchedStable
<1> QED
  BY <1>1 DEF Tree, Plan, Pristine

(* While the units are still traversed, the plan can only grow.            *)
LEMMA PlanGrows ==
  ASSUME UNCHANGED <<program, actions>>, parsed \subseteq parsed'
  PROVE  Plan \subseteq Plan'
<1>1. \A s : MatchesIn(s)' = MatchesIn(s)
  BY DEF MatchesIn
<1>2. \A m : ReplacementOf(m)' = ReplacementOf(m)
  BY DEF ReplacementOf
<1>3. Matched \subseteq Matched'
  BY <1>1, <1>2 DEF Matched
<1>4. SUFFICES ASSUME NEW f \in Path, Renamed(f) # Pristine
               PROVE  Renamed(f)' # Pristine
  BY DEF Plan, Pristine
<1>5. PICK o \in Offset : \E r \in Matched : At(r, f, o)
  BY <1>4 DEF Renamed, Pristine
<1>6. \E r \in Matched' : At(r, f, o)
  BY <1>3, <1>5
<1>7. Renamed(f)'[o] # << >>
  BY <1>6 DEF Renamed, At
<1> QED
  BY <1>7 DEF Pristine

(* The initial state of the run is one of the renaming.                    *)
LEMMA RefinesInit == Init => Rename!Init
<1> SUFFICES ASSUME Init PROVE Rename!Init
  OBVIOUS
<1>1. \A f \in Path : disk[f] = Pristine /\ Renamed(f) = Pristine
  BY NothingMatched DEF Init, Renamed, Pristine
<1>2. Tree = [f \in Path |-> "old"]
  BY <1>1 DEF Tree
<1>3. Plan = {}
  BY <1>1 DEF Plan
<1>4. Result = "none"
  BY DEF Init, Result
<1> QED
  BY <1>2, <1>3, <1>4 DEF Rename!Init, Tree, Plan, Result

(* Every step of the run is one of the renaming, or none.                  *)
LEMMA RefinesStep ==
  ASSUME IInv, ExitInv, ExitInv', [Next]_vars
  PROVE  [Rename!Next]_(Rename!vars)
<1> DEFINE Stutter == Tree' = Tree /\ Plan' = Plan /\ Result' = Result
<1>s. ASSUME Stutter PROVE [Rename!Next]_(Rename!vars)
  BY <1>s DEF Rename!vars, Tree, Plan, Result
<1>i. TypeOK /\ ActionsInv /\ DiskInv /\ WholeFilesOnDisk /\ CollectInv
  BY DEF IInv, DiskInv
<1> USE DEF inputVars, toolVars, saveVars, fileVars
<1>1. CASE AddRefactoring
  <2>1. /\ phase = "setup" /\ phase' = phase /\ exit' = exit /\ disk' = disk
        /\ parsed = {} /\ parsed' = {}
    BY <1>1, <1>i DEF AddRefactoring, ActionsInv
  <2>2. Matched = {} /\ Matched' = {}
    BY <2>1 DEF Matched
  <2>3. \A f : Renamed(f) = Pristine /\ Renamed(f)' = Pristine
    BY <2>2 DEF Renamed, Pristine
  <2>4. Stutter
    BY <2>1, <2>3 DEF Tree, Plan, Result, Pristine
  <2> QED
    BY <2>4, <1>s
<1>2. CASE StartRun \/ SkipSource \/ ParseSource \/ MatchNode \/ FailSource
           \/ FlattenGroup \/ SortReplacements \/ KeepIfNew \/ EraseRest
           \/ ApplyReplacement \/ StartWriting \/ FailWrite
  <2>1. /\ UNCHANGED <<disk, program, actions, parsed, exit>>
        /\ phase # "killed" /\ phase' # "killed"
    BY <1>2 DEF StartRun, SkipSource, ParseSource, MatchNode, FailSource,
                FlattenGroup, SortReplacements, KeepIfNew, EraseRest,
                ApplyReplacement, StartWriting, FailWrite
  <2>2. Stutter
    BY <2>1, TreeStable DEF Result
  <2> QED
    BY <2>2, <1>s
<1>3. CASE FinishSource
  <2>1. /\ phase = "match" /\ phase' = "run" /\ UNCHANGED <<disk, program, actions, exit>>
        /\ parsed \subseteq parsed'
    BY <1>3 DEF FinishSource
  <2>2. Plan \subseteq Plan' /\ Plan' \subseteq Path
    BY <2>1, PlanGrows DEF Plan
  <2>3. \A f \in Path : disk[f] = Pristine /\ disk'[f] = Pristine'
    BY <2>1, <1>i DEF DiskInv, Collecting, Pristine
  <2>4. Tree = [f \in Path |-> "old"] /\ Tree' = Tree
    BY <2>3 DEF Tree
  <2>5. Result = "none" /\ Result' = "none"
    BY <2>1 DEF Result, ExitInv
  <2>6. Rename!Extend
    BY <2>2, <2>4, <2>5
       DEF Rename!Extend, Rename!Running, Rename!Untouched, Tree, Plan, Result
  <2> QED
    BY <2>6 DEF Rename!Next
<1>4. CASE EndRun
  <2>1. /\ phase = "run" /\ UNCHANGED <<disk, program, actions, parsed>>
        /\ \/ phase' = "exited" /\ exit' = "failure"
           \/ phase' = "flatten" /\ exit' = exit
    BY <1>4 DEF EndRun
  <2>2. Tree' = Tree /\ Plan' = Plan
    BY <2>1, TreeStable
  <2>3. CASE phase' = "flatten" /\ exit' = exit
    BY <2>1, <2>2, <2>3, <1>s DEF Result
  <2>4. CASE phase' = "exited" /\ exit' = "failure"
    <3>1. \A f \in Path : Tree[f] = "old"
      BY <2>1, <1>i DEF DiskInv, Collecting, Tree
    <3>2. Result = "none" /\ Result' = "failure"
      BY <2>1, <2>4 DEF Result, ExitInv
    <3>3. Rename!Fail
      BY <2>2, <3>1, <3>2
         DEF Rename!Fail, Rename!Running, Rename!Untouched, Tree, Plan, Result
    <3> QED
      BY <3>3 DEF Rename!Next
  <2> QED
    BY <2>1, <2>3, <2>4
<1>5. CASE WriteFile
  <2>1. PICK f \in unwritten : disk' = [disk EXCEPT ![f] = buffers[f]]
    BY <1>5 DEF WriteFile
  <2>2. /\ phase = "write" /\ phase' = "write"
        /\ UNCHANGED <<program, actions, parsed, exit>>
    BY <1>5 DEF WriteFile
  <2>3. /\ f \in Path /\ DOMAIN disk = Path
        /\ disk[f] = Pristine /\ Renamed(f) # Pristine /\ buffers[f] = Renamed(f)
    BY <2>2, <1>i DEF TypeOK, FileContents, DiskInv, BufferInv, IInv
  <2>4. \A g : Renamed(g)' = Renamed(g)
    BY <2>2, MatchedStable
  <2>5. /\ disk'[f] = Renamed(f)
        /\ \A g \in Path : g # f => disk'[g] = disk[g]
    BY <2>1, <2>3
  <2>6. Plan' = Plan /\ f \in Plan
    BY <2>3, <2>4 DEF Plan, Pristine
  <2>7. Tree[f] = "old" /\ Tree'[f] = "new"
    BY <2>3, <2>4, <2>5 DEF Tree, Pristine
  <2>8. \A g \in Path : g # f => Tree'[g] = Tree[g]
    BY <2>4, <2>5 DEF Tree, Pristine
  <2>9. Tree' = [Tree EXCEPT ![f] = "new"]
    BY <2>7, <2>8 DEF Tree
  <2>10. Result = "none" /\ Result' = "none"
    BY <2>2 DEF Result, ExitInv
  <2>11. Rename!Publish
    BY <2>6, <2>7, <2>9, <2>10
       DEF Rename!Publish, Rename!Running, Tree, Plan, Result
  <2> QED
    BY <2>11 DEF Rename!Next
<1>6. CASE Finish
  <2>1. /\ phase = "write" /\ phase' = "exited" /\ unwritten = {}
        /\ exit' = IF allWritten THEN "success" ELSE "failure"
        /\ UNCHANGED <<disk, program, actions, parsed>>
    BY <1>6 DEF Finish
  <2>2. Tree' = Tree /\ Plan' = Plan
    BY <2>1, TreeStable
  <2>3. Result = "none" /\ Result' = exit'
    BY <2>1 DEF Result, ExitInv
  <2>4. allWritten <=> \A f \in Path : disk[f] = Renamed(f)
    BY <2>1, <1>i DEF DiskInv
  <2>5. CASE allWritten
    <3>1. \A f \in Plan : Tree[f] = "new"
      BY <2>4, <2>5 DEF Plan, Tree
    <3>2. Rename!Succeed
      BY <2>1, <2>2, <2>3, <2>5, <3>1
         DEF Rename!Succeed, Rename!Running, Tree, Plan, Result
    <3> QED
      BY <3>2 DEF Rename!Next
  <2>6. CASE ~allWritten
    <3>1. PICK f \in Path : disk[f] # Renamed(f)
      BY <2>4, <2>6
    <3>2. disk[f] = Pristine
      BY <3>1, <1>i DEF WholeFilesOnDisk
    <3>3. f \in Plan /\ Tree[f] = "old"
      BY <3>1, <3>2 DEF Plan, Tree
    <3>4. Rename!Fail
      BY <2>1, <2>2, <2>3, <2>6, <3>3
         DEF Rename!Fail, Rename!Running, Tree, Plan, Result
    <3> QED
      BY <3>4 DEF Rename!Next
  <2> QED
    BY <2>5, <2>6
<1>7. CASE Kill
  <2>1. /\ phase \notin {"exited", "killed"} /\ phase' = "killed"
        /\ UNCHANGED <<disk, program, actions, parsed, exit>>
    BY <1>7 DEF Kill, Stopped
  <2>2. Tree' = Tree /\ Plan' = Plan
    BY <2>1, TreeStable
  <2>3. Result = "none" /\ Result' = "died"
    BY <2>1 DEF Result, ExitInv
  <2>4. Rename!Die
    BY <2>2, <2>3 DEF Rename!Die, Rename!Running, Tree, Plan, Result
  <2> QED
    BY <2>4 DEF Rename!Next
<1>8. CASE UNCHANGED vars
  <2>1. UNCHANGED <<disk, program, actions, parsed, phase, exit>>
    BY <1>8 DEF vars
  <2>2. Stutter
    BY <2>1, TreeStable DEF Result
  <2> QED
    BY <2>2, <1>s
<1> QED
  BY <1>1, <1>2, <1>3, <1>4, <1>5, <1>6, <1>7, <1>8 DEF Next, Step

(* A run renames files one at a time and as a whole, only files it had     *)
(* settled on before the first one, and its exit code tells whether all of *)
(* them were renamed, whatever fails or is killed on the way.              *)
THEOREM RunImplementsRename == Spec => ImplementsRename
<1>1. IInv /\ ExitInv /\ ExitInv' /\ [Next]_vars => [Rename!Next]_(Rename!vars)
  BY RefinesStep
<1> QED
  BY <1>1, RefinesInit, Inductive, ExitSet, PTL
     DEF Spec, ImplementsRename, Rename!Spec
=============================================================================
