------------------------------- MODULE Hooks -------------------------------
(***************************************************************************)
(* HookRegistry (lib/hook.h, lib/hook.cpp): hooks are registered and told  *)
(* of moved files.  What a hook does when it is told is up to it: nothing, *)
(* throw, register another hook, or move another file itself, which starts *)
(* a notification inside the one it is called from.                        *)
(*                                                                         *)
(* The loop over the vector holds two iterators, of which a growing vector *)
(* makes dangling ones.  Registering nullptr throws and changes nothing:   *)
(* for a hook that does it, that is to throw.                              *)
(***************************************************************************)
EXTENDS Naturals, FiniteSets, SequencesExt

CONSTANTS
  Hook,
  MaxMoves  \* bound on the calls of onFileMoved

ASSUME MaxMovesAssumption == MaxMoves \in Nat

None == "none"
ASSUME NoneAssumption == None \notin Hook

VARIABLES
  callbacks, \* callbacks_
  capacity,  \* of the vector
  stack,     \* the running calls of onFileMoved, outermost first
  heard,     \* history: per hook, the moves it was told of
  moves,     \* history: per move, who made it, in front of whom, inside what
  broken     \* a dangling iterator was used

vars == <<callbacks, capacity, stack, heard, moves, broken>>

vector == <<callbacks, capacity>>

Frame == [move : 1..MaxMoves, next : Nat, end : Nat,
          calling : BOOLEAN, dangling : BOOLEAN]

Move == [by : Hook \cup {None}, inside : SUBSET (1..MaxMoves),
         audience : Seq(Hook), state : {"running", "returned", "threw"}]

Top == Last(stack)
SetTop(frame) == stack' = Append(Front(stack), frame)

(* The hook that the innermost loop is calling, if any.                    *)
Caller == IF stack = << >> THEN None ELSE callbacks[Top.next]

(* Code outside of the registry has control: its client, or a hook.        *)
InClient == ~broken /\ (stack # << >> => Top.calling)

Init ==
  /\ callbacks = << >>
  /\ capacity = 0
  /\ stack = << >>
  /\ heard = [h \in Hook |-> << >>]
  /\ moves = << >>
  /\ broken = FALSE

(* std::vector doubles its capacity when it is full.                       *)
Grown(size) == IF size = 0 THEN 1 ELSE 2 * size

registerHook ==
  /\ InClient
  /\ \E h \in Hook \ Range(callbacks) : callbacks' = Append(callbacks, h)
  /\ IF Len(callbacks) = capacity
     THEN /\ capacity' = Grown(capacity)
          /\ stack' = [i \in DOMAIN stack |-> [stack[i] EXCEPT !.dangling = TRUE]]
     ELSE UNCHANGED <<capacity, stack>>
  /\ UNCHANGED <<heard, moves, broken>>

(* Faulty: the loop runs one past the last hook.                           *)
onFileMovedInclusive ==
  /\ InClient
  /\ Len(moves) < MaxMoves
  /\ moves' = Append(moves, [by |-> Caller, inside |-> {f.move : f \in Range(stack)},
                             audience |-> callbacks, state |-> "running"])
  /\ stack' = Append(stack, [move |-> Len(moves) + 1, next |-> 1,
                             end |-> Len(callbacks) + 1,
                             calling |-> FALSE, dangling |-> FALSE])
  /\ UNCHANGED <<vector, heard, broken>>

onFileMoved ==
  /\ InClient
  /\ Len(moves) < MaxMoves
  /\ moves' = Append(moves, [by |-> Caller, inside |-> {f.move : f \in Range(stack)},
                             audience |-> callbacks, state |-> "running"])
  /\ stack' = Append(stack, [move |-> Len(moves) + 1, next |-> 1,
                             end |-> Len(callbacks),
                             calling |-> FALSE, dangling |-> FALSE])
  /\ UNCHANGED <<vector, heard, broken>>

(* Faulty: the loop looks at the size of the vector each time.             *)
CallUpToSize ==
  /\ stack # << >> /\ ~Top.calling
  /\ Top.next <= Len(callbacks)
  /\ heard' = [heard EXCEPT ![callbacks[Top.next]] = Append(@, Top.move)]
  /\ SetTop([Top EXCEPT !.calling = TRUE])
  /\ UNCHANGED <<vector, moves, broken>>

(* Faulty: the hook that was registered last is told first.                *)
CallNewestFirst ==
  /\ stack # << >> /\ ~Top.calling
  /\ Top.next <= Top.end
  /\ heard' = [heard EXCEPT ![callbacks[Top.end + 1 - Top.next]] = Append(@, Top.move)]
  /\ SetTop([Top EXCEPT !.calling = TRUE])
  /\ UNCHANGED <<vector, moves, broken>>

(* One iteration of the loop in onFileMoved: the hook is told.             *)
CallHook ==
  /\ stack # << >> /\ ~Top.calling
  /\ Top.next <= Top.end
  /\ heard' = [heard EXCEPT ![callbacks[Top.next]] = Append(@, Top.move)]
  /\ SetTop([Top EXCEPT !.calling = TRUE])
  /\ UNCHANGED <<vector, moves, broken>>

(* The hook returns, and the loop goes on with its iterators, whatever     *)
(* they point to.                                                          *)
HookReturns ==
  /\ stack # << >> /\ InClient
  /\ IF Top.dangling
     THEN broken' = TRUE /\ UNCHANGED stack
     ELSE /\ SetTop([Top EXCEPT !.calling = FALSE, !.next = @ + 1])
          /\ UNCHANGED broken
  /\ UNCHANGED <<vector, heard, moves>>

(* The hook throws: the loop is left.  A hook it was called from may catch *)
(* the exception or let it pass.                                           *)
HookThrows ==
  /\ stack # << >> /\ InClient
  /\ stack' = Front(stack)
  /\ moves' = [moves EXCEPT ![Top.move].state = "threw"]
  /\ UNCHANGED <<vector, heard, broken>>

LoopEnds ==
  /\ stack # << >> /\ ~Top.calling
  /\ Top.next > Top.end
  /\ stack' = Front(stack)
  /\ moves' = [moves EXCEPT ![Top.move].state = "returned"]
  /\ UNCHANGED <<vector, heard, broken>>

Next ==
  \/ registerHook \/ onFileMoved \/ CallHook
  \/ HookReturns \/ HookThrows \/ LoopEnds

Spec == Init /\ [][Next]_vars
-----------------------------------------------------------------------------
TypeOK ==
  /\ callbacks \in Seq(Hook)
  /\ capacity \in Nat /\ Len(callbacks) <= capacity
  /\ stack \in Seq(Frame)
  /\ \A f \in Range(stack) : f.next <= f.end + 1 /\ f.end <= Len(callbacks)
  /\ heard \in [Hook -> Seq(1..MaxMoves)]
  /\ moves \in Seq(Move)
  /\ broken \in BOOLEAN

(* Until a dangling iterator is used, hooks are told of a move in the      *)
(* order they were registered in, each once: all that were registered when *)
(* the move began if the notification returns, the first of them if a hook *)
(* throws, and none that was registered since (HookRegistry::onFileMoved). *)
AudienceHears ==
  \A m \in DOMAIN moves :
    LET audience == moves[m].audience
        told == {h \in Hook : Contains(heard[h], m)}
    IN  /\ \E n \in 0..Len(audience) :
             /\ told = Range(SubSeq(audience, 1, n))
             /\ moves[m].state = "returned" => n = Len(audience)
        /\ \A h \in told : Cardinality({i \in DOMAIN heard[h] : heard[h][i] = m}) = 1

Earlier(sequence, x, y) ==
  \E i, j \in DOMAIN sequence : i < j /\ sequence[i] = x /\ sequence[j] = y

(* The hook that was being told of m when n was made inside of that.       *)
ToldOf(m, n) == moves[Min({k \in moves[n].inside \cup {n} : k > m})].by

(* A hook is told of a later move before an earlier one exactly if a hook  *)
(* in front of it made the later move when it was told of the earlier one: *)
(* a hook that follows files from name to name can lose track, and only    *)
(* then (HookRegistry::onFileMoved).                                       *)
OrderInvertedByNesting ==
  \A h \in Hook : \A m, n \in Range(heard[h]) :
    m < n =>
      (Earlier(heard[h], n, m) <=>
         m \in moves[n].inside /\ Earlier(callbacks, ToldOf(m, n), h))
=============================================================================
