---------------------------- MODULE HooksProofs ----------------------------
(***************************************************************************)
(* Proofs about Hooks, for any number of hooks and moves: the type         *)
(* invariant, and that hooks hear of every move in order and once.         *)
(***************************************************************************)
EXTENDS Hooks, SequenceTheorems, FiniteSetTheorems, DataInduction, TLAPS

HeardOnce(h, m) ==
  \E k \in DOMAIN heard[h] :
    heard[h][k] = m /\ \A j \in DOMAIN heard[h] : heard[h][j] = m => j = k

HeardNever(h, m) == \A j \in DOMAIN heard[h] : heard[h][j] # m

(* The first n hooks of a move's audience were told of it, each once, and  *)
(* nobody else.                                                            *)
ToldFirst(m, n) ==
  \A h \in Hook :
    IF \E i \in 1..n : moves[m].audience[i] = h
    THEN HeardOnce(h, m) ELSE HeardNever(h, m)

(* No hook is registered twice, and audiences are what was registered.     *)
CallbacksInv ==
  /\ \A i, j \in DOMAIN callbacks : callbacks[i] = callbacks[j] => i = j
  /\ \A m \in DOMAIN moves :
       /\ Len(moves[m].audience) <= Len(callbacks)
       /\ \A i \in 1..Len(moves[m].audience) : moves[m].audience[i] = callbacks[i]

(* A move was told to a part of its audience, if its loop has ended then   *)
(* to all.                                                                 *)
MoveInv(m) ==
  \E n \in 0..Len(moves[m].audience) :
    ToldFirst(m, n) /\ (moves[m].state = "returned" => n = Len(moves[m].audience))

MovesInv ==
  /\ Len(moves) <= MaxMoves
  /\ \A m \in DOMAIN moves : MoveInv(m)
  /\ \A h \in Hook : \A j \in DOMAIN heard[h] : heard[h][j] \in DOMAIN moves

(* A running loop is behind the hooks it has told of its move.             *)
LoopInv(f) ==
  /\ f.move \in DOMAIN moves
  /\ moves[f.move].state = "running"
  /\ f.end = Len(moves[f.move].audience)
  /\ f.next \in 1..(f.end + 1)
  /\ f.calling => f.next <= f.end
  /\ ToldFirst(f.move, IF f.calling THEN f.next ELSE f.next - 1)

(* The loops are those of different moves, the innermost of the last.      *)
StackInv ==
  /\ \A i \in DOMAIN stack : LoopInv(stack[i])
  /\ \A i, j \in DOMAIN stack : i < j => stack[i].move < stack[j].move

Typed ==
  /\ callbacks \in Seq(Hook)
  /\ capacity \in Nat /\ Len(callbacks) <= capacity
  /\ stack \in Seq(Frame)
  /\ heard \in [Hook -> Seq(1..MaxMoves)]
  /\ moves \in Seq(Move)
  /\ broken \in BOOLEAN

HooksInv == Typed /\ CallbacksInv /\ MovesInv /\ StackInv
-----------------------------------------------------------------------------
(* What was told stays told when nobody hears of the move.                 *)
LEMMA ToldStays ==
  ASSUME Typed, NEW m \in DOMAIN moves, NEW n \in Nat, ToldFirst(m, n),
         moves'[m].audience = moves[m].audience,
         \A h \in Hook : \/ heard'[h] = heard[h]
                         \/ \E k \in 1..MaxMoves :
                              k # m /\ heard'[h] = Append(heard[h], k)
  PROVE  ToldFirst(m, n)'
<1> SUFFICES ASSUME NEW h \in Hook
             PROVE  /\ HeardOnce(h, m) => HeardOnce(h, m)'
                    /\ HeardNever(h, m) => HeardNever(h, m)'
  BY DEF ToldFirst
<1>1. CASE heard'[h] = heard[h]
  BY <1>1 DEF HeardOnce, HeardNever
<1>2. ASSUME NEW k \in 1..MaxMoves, k # m, heard'[h] = Append(heard[h], k)
      PROVE  /\ HeardOnce(h, m) => HeardOnce(h, m)'
             /\ HeardNever(h, m) => HeardNever(h, m)'
  <2>1. heard[h] \in Seq(1..MaxMoves)
    BY DEF Typed
  <2>2. /\ Len(heard'[h]) = Len(heard[h]) + 1 /\ Len(heard[h]) \in Nat
        /\ DOMAIN heard[h] = 1..Len(heard[h])
        /\ DOMAIN heard'[h] = 1..Len(heard'[h])
        /\ heard'[h][Len(heard'[h])] # m
        /\ \A j \in 1..Len(heard[h]) : heard'[h][j] = heard[h][j]
    BY <1>2, <2>1
  <2>3. \A j \in DOMAIN heard'[h] : j \in DOMAIN heard[h] \/ heard'[h][j] # m
    BY <2>2
  <2>4. \A j \in DOMAIN heard[h] :
          j \in DOMAIN heard'[h] /\ heard'[h][j] = heard[h][j]
    BY <2>2
  <2> QED
    BY <2>3, <2>4 DEF HeardOnce, HeardNever
<1> QED
  BY <1>1, <1>2

(* HookRegistry begins without hooks, and nothing was moved.               *)
LEMMA HooksInit == Init => HooksInv
<1> SUFFICES ASSUME Init PROVE HooksInv
  OBVIOUS
<1> USE DEF Init
<1>1. Typed
  <2>1. /\ << >> \in Seq(Hook) /\ << >> \in Seq(Frame) /\ << >> \in Seq(Move)
        /\ << >> \in Seq(1..MaxMoves)
    OBVIOUS
  <2>2. heard \in [Hook -> Seq(1..MaxMoves)]
    BY <2>1
  <2>3. capacity \in Nat /\ Len(callbacks) <= capacity
    OBVIOUS
  <2> QED
    BY <2>1, <2>2, <2>3 DEF Typed
<1>2. DOMAIN callbacks = {} /\ DOMAIN moves = {} /\ DOMAIN stack = {}
  OBVIOUS
<1>3. \A h \in Hook : DOMAIN heard[h] = {}
  OBVIOUS
<1>4. Len(moves) <= MaxMoves
  BY MaxMovesAssumption
<1> QED
  BY <1>1, <1>2, <1>3, <1>4 DEF HooksInv, CallbacksInv, MovesInv, StackInv

(* The innermost loop, and what is left when it is replaced or ended.      *)
LEMMA TopOfStack ==
  ASSUME Typed, stack # << >>
  PROVE  /\ Len(stack) \in Nat \ {0} /\ DOMAIN stack = 1..Len(stack)
         /\ Len(stack) \in DOMAIN stack
         /\ Top = stack[Len(stack)] /\ Top \in Frame
BY DEF Typed, Top, Last

(* SetTop leaves the loops below the innermost one as they were.           *)
LEMMA ReplacedTop ==
  ASSUME Typed, stack # << >>, NEW f \in Frame, SetTop(f)
  PROVE  /\ stack' \in Seq(Frame) /\ DOMAIN stack' = DOMAIN stack
         /\ stack'[Len(stack)] = f
         /\ \A i \in DOMAIN stack : i # Len(stack) => stack'[i] = stack[i]
<1>1. stack \in Seq(Frame) /\ Len(stack) \in Nat \ {0} /\ DOMAIN stack = 1..Len(stack)
  BY TopOfStack DEF Typed
<1> DEFINE front == SubSeq(stack, 1, Len(stack) - 1)
<1>2. /\ front \in Seq(Frame) /\ Len(front) = Len(stack) - 1
      /\ \A i \in 1..(Len(stack) - 1) : front[i] = stack[i]
  BY <1>1
<1>3. stack' = Append(front, f)
  BY DEF SetTop, Front
<1> HIDE DEF front
<1>4. /\ stack' \in Seq(Frame) /\ Len(stack') = Len(stack)
      /\ stack'[Len(stack)] = f
      /\ \A i \in 1..(Len(stack) - 1) : stack'[i] = front[i]
  <2>1. /\ stack' \in Seq(Frame) /\ Len(stack') = Len(front) + 1
        /\ stack'[Len(front) + 1] = f
        /\ \A i \in 1..Len(front) : stack'[i] = front[i]
    BY <1>2, <1>3, AppendProperties
  <2>2. Len(front) = Len(stack) - 1 /\ Len(front) + 1 = Len(stack)
    BY <1>1, <1>2
  <2> QED
    BY <2>1, <2>2
<1> QED
  BY <1>1, <1>2, <1>4

(* So does the end of the innermost loop.                                  *)
LEMMA EndedTop ==
  ASSUME Typed, stack # << >>, stack' = Front(stack)
  PROVE  /\ stack' \in Seq(Frame) /\ DOMAIN stack' = 1..(Len(stack) - 1)
         /\ \A i \in DOMAIN stack' :
              i \in DOMAIN stack /\ i < Len(stack) /\ stack'[i] = stack[i]
BY TopOfStack DEF Typed, Front

(* A loop that a step does not take part in goes on as it was.             *)
LEMMA LoopStays ==
  ASSUME Typed, StackInv, NEW i \in DOMAIN stack,
         /\ stack'[i].move = stack[i].move /\ stack'[i].next = stack[i].next
         /\ stack'[i].end = stack[i].end /\ stack'[i].calling = stack[i].calling,
         stack[i].move \in DOMAIN moves',
         /\ moves'[stack[i].move].audience = moves[stack[i].move].audience
         /\ moves'[stack[i].move].state = moves[stack[i].move].state,
         \A h \in Hook : \/ heard'[h] = heard[h]
                         \/ \E k \in 1..MaxMoves :
                              k # stack[i].move /\ heard'[h] = Append(heard[h], k)
  PROVE  LoopInv(stack[i])'
<1>1. LoopInv(stack[i])
  BY DEF StackInv
<1>2. PICK m \in DOMAIN moves, n \in Nat :
        /\ m = stack[i].move
        /\ n = IF stack[i].calling THEN stack[i].next ELSE stack[i].next - 1
        /\ ToldFirst(m, n)
  <2>1. stack[i] \in Frame
    BY DEF Typed
  <2>2. stack[i].next \in Nat /\ stack[i].end \in Nat
    BY <2>1 DEF Frame
  <2> QED
    BY <1>1, <2>2 DEF LoopInv
<1>3. ToldFirst(m, n)'
  BY <1>2, ToldStays
<1>4. ToldFirst(stack[i].move, IF stack[i].calling THEN stack[i].next ELSE stack[i].next - 1)'
  BY <1>2, <1>3 DEF ToldFirst, HeardOnce, HeardNever
<1> QED
  BY <1>1, <1>4 DEF LoopInv

(* What is known of a move's data.                                         *)
LEMMA MoveTyped ==
  ASSUME Typed, NEW m \in DOMAIN moves
  PROVE  /\ moves[m] \in Move /\ moves[m].audience \in Seq(Hook)
         /\ Len(moves[m].audience) \in Nat
         /\ Len(moves) \in Nat /\ m \in 1..Len(moves)
<1>1. moves[m] \in Move /\ Len(moves) \in Nat /\ m \in 1..Len(moves)
  BY DEF Typed
<1>2. moves[m].audience \in Seq(Hook)
  BY <1>1 DEF Move
<1> QED
  BY <1>1, <1>2

(* So does what is known of a move that nobody hears of in a step.         *)
LEMMA MoveStays ==
  ASSUME Typed, NEW m \in DOMAIN moves, MoveInv(m),
         moves'[m].audience = moves[m].audience,
         moves'[m].state = "returned" => moves[m].state = "returned",
         \A h \in Hook : \/ heard'[h] = heard[h]
                         \/ \E k \in 1..MaxMoves :
                              k # m /\ heard'[h] = Append(heard[h], k)
  PROVE  MoveInv(m)'
<1>1. moves[m] \in Move /\ moves[m].audience \in Seq(Hook)
  BY MoveTyped
<1>2. PICK n \in 0..Len(moves[m].audience) :
        ToldFirst(m, n) /\ (moves[m].state = "returned" => n = Len(moves[m].audience))
  BY DEF MoveInv
<1>3. ToldFirst(m, n)'
  BY <1>1, <1>2, ToldStays
<1> QED
  BY <1>2, <1>3 DEF MoveInv
-----------------------------------------------------------------------------
(* A hook that is registered joins no audience that there is already.      *)
LEMMA RegisterStep == HooksInv /\ registerHook => HooksInv'
<1> SUFFICES ASSUME HooksInv, registerHook PROVE HooksInv'
  OBVIOUS
<1>1. Typed /\ CallbacksInv /\ MovesInv /\ StackInv
  BY DEF HooksInv
<1>2. PICK h \in Hook \ Range(callbacks) : callbacks' = Append(callbacks, h)
  BY DEF registerHook
<1>3. /\ callbacks' \in Seq(Hook) /\ Len(callbacks') = Len(callbacks) + 1
      /\ Len(callbacks) \in Nat
      /\ DOMAIN callbacks = 1..Len(callbacks)
      /\ DOMAIN callbacks' = 1..Len(callbacks')
      /\ callbacks'[Len(callbacks')] = h
      /\ \A i \in 1..Len(callbacks) : callbacks'[i] = callbacks[i]
  BY <1>1, <1>2 DEF Typed
<1>4. UNCHANGED <<heard, moves, broken>>
  BY DEF registerHook
<1>5. /\ stack' \in Seq(Frame) /\ DOMAIN stack' = DOMAIN stack
      /\ \A i \in DOMAIN stack :
           /\ stack'[i].move = stack[i].move /\ stack'[i].next = stack[i].next
           /\ stack'[i].end = stack[i].end /\ stack'[i].calling = stack[i].calling
  <2>1. CASE stack' = stack
    BY <1>1, <2>1 DEF Typed
  <2>2. CASE stack' = [i \in DOMAIN stack |-> [stack[i] EXCEPT !.dangling = TRUE]]
    <3>1. Len(stack) \in Nat /\ DOMAIN stack = 1..Len(stack)
      BY <1>1 DEF Typed
    <3>2. \A i \in DOMAIN stack : stack[i] \in Frame
      BY <1>1 DEF Typed
    <3>3. \A i \in DOMAIN stack :
            /\ stack'[i] \in Frame
            /\ stack'[i].move = stack[i].move /\ stack'[i].next = stack[i].next
            /\ stack'[i].end = stack[i].end /\ stack'[i].calling = stack[i].calling
      BY <2>2, <3>2 DEF Frame
    <3>4. stack' \in [1..Len(stack) -> Frame]
      BY <2>2, <3>1, <3>3
    <3>5. stack' \in Seq(Frame)
      BY <3>1, <3>4, SeqDef
    <3> QED
      BY <2>2, <3>3, <3>5
  <2> QED
    BY <2>1, <2>2 DEF registerHook
<1>6. capacity' \in Nat /\ Len(callbacks') <= capacity'
  <2>1. CASE Len(callbacks) = capacity
    BY <1>1, <1>3, <2>1 DEF registerHook, Grown, Typed
  <2>2. CASE Len(callbacks) # capacity
    BY <1>1, <1>3, <2>2 DEF registerHook, Typed
  <2> QED
    BY <2>1, <2>2
<1>7. Typed'
  BY <1>1, <1>3, <1>4, <1>5, <1>6 DEF Typed
<1>8. CallbacksInv'
  <2>1. \A i \in 1..Len(callbacks) : callbacks[i] # h
    BY <1>2, <1>3 DEF Range
  <2>2. \A i, j \in DOMAIN callbacks' : callbacks'[i] = callbacks'[j] => i = j
    BY <1>1, <1>3, <2>1 DEF CallbacksInv
  <2>3. ASSUME NEW m \in DOMAIN moves
        PROVE  /\ Len(moves[m].audience) <= Len(callbacks')
               /\ \A i \in 1..Len(moves[m].audience) :
                    moves[m].audience[i] = callbacks'[i]
    <3>1. Len(moves[m].audience) \in Nat
      BY <1>1, MoveTyped
    <3> QED
      BY <1>1, <1>3, <3>1 DEF CallbacksInv
  <2> QED
    BY <1>4, <2>2, <2>3 DEF CallbacksInv
<1>9. MovesInv'
  <2>1. \A m \in DOMAIN moves : MoveInv(m)'
    BY <1>1, <1>4, MoveStays DEF MovesInv
  <2> QED
    BY <1>1, <1>4, <2>1 DEF MovesInv
<1>10. StackInv'
  <2>1. \A i \in DOMAIN stack : stack[i].move \in DOMAIN moves
    BY <1>1 DEF StackInv, LoopInv
  <2>2. \A i \in DOMAIN stack : LoopInv(stack[i])'
    BY <1>1, <1>4, <1>5, <2>1, LoopStays
  <2> QED
    BY <1>1, <1>5, <2>2 DEF StackInv
<1> QED
  BY <1>7, <1>8, <1>9, <1>10 DEF HooksInv

(* The loop that the client or a hook starts a notification from is in the *)
(* call of a hook.                                                         *)
LEMMA CallerTyped == ASSUME HooksInv, InClient PROVE Caller \in Hook \cup {None}
<1>1. Typed /\ CallbacksInv /\ StackInv
  BY DEF HooksInv
<1>2. CASE stack = << >>
  BY <1>2 DEF Caller
<1>3. CASE stack # << >>
  <2>1. Top = stack[Len(stack)] /\ Len(stack) \in DOMAIN stack /\ Top \in Frame
    BY <1>1, <1>3, TopOfStack
  <2>2. LoopInv(Top) /\ Top.calling
    BY <1>1, <1>3, <2>1 DEF StackInv, InClient
  <2>3. Top.move \in DOMAIN moves
    BY <2>2 DEF LoopInv
  <2>4. /\ Len(moves[Top.move].audience) \in Nat
        /\ Len(moves[Top.move].audience) <= Len(callbacks)
    BY <1>1, <2>3, MoveTyped DEF CallbacksInv
  <2>5. Top.next \in 1..Len(callbacks)
    <3>1. Len(callbacks) \in Nat /\ Top.next \in Nat
      BY <1>1, <2>1 DEF Typed, Frame
    <3> QED
      BY <2>2, <2>4, <3>1 DEF LoopInv
  <2>6. callbacks[Top.next] \in Hook
    BY <1>1, <2>5 DEF Typed
  <2> QED
    BY <1>3, <2>6 DEF Caller
<1> QED
  BY <1>2, <1>3

(* A move begins with all hooks for its audience, and none of them told.   *)
LEMMA MovedStep == HooksInv /\ onFileMoved => HooksInv'
<1> SUFFICES ASSUME HooksInv, onFileMoved PROVE HooksInv'
  OBVIOUS
<1>1. Typed /\ CallbacksInv /\ MovesInv /\ StackInv
  BY DEF HooksInv
<1>2. /\ callbacks' = callbacks /\ capacity' = capacity /\ heard' = heard
      /\ broken' = broken
  BY DEF onFileMoved, vector
<1>3. PICK new, move, frame :
        /\ new = Len(moves) + 1
        /\ move = [by |-> Caller, inside |-> {f.move : f \in Range(stack)},
                   audience |-> callbacks, state |-> "running"]
        /\ frame = [move |-> new, next |-> 1, end |-> Len(callbacks),
                    calling |-> FALSE, dangling |-> FALSE]
        /\ moves' = Append(moves, move) /\ stack' = Append(stack, frame)
  BY DEF onFileMoved
<1>4. /\ Len(moves) \in Nat /\ Len(moves) < MaxMoves /\ new \in 1..MaxMoves
      /\ new = Len(moves) + 1
  BY <1>1, <1>3, MaxMovesAssumption DEF Typed, onFileMoved
<1>5. Len(callbacks) \in Nat /\ callbacks \in Seq(Hook)
  BY <1>1 DEF Typed
<1>6. move \in Move
  <2>1. \A f \in Range(stack) : f \in Frame
    BY <1>1 DEF Typed, Range
  <2>2. {f.move : f \in Range(stack)} \in SUBSET (1..MaxMoves)
    BY <2>1 DEF Frame
  <2>3. Caller \in Hook \cup {None}
    BY CallerTyped DEF onFileMoved
  <2> QED
    BY <1>3, <1>5, <2>2, <2>3 DEF Move
<1>7. frame \in Frame
  BY <1>3, <1>4, <1>5 DEF Frame
<1>8. /\ moves' \in Seq(Move) /\ Len(moves') = new /\ moves'[new] = move
      /\ DOMAIN moves = 1..Len(moves) /\ DOMAIN moves' = 1..new
      /\ \A m \in 1..Len(moves) : moves'[m] = moves[m]
  BY <1>1, <1>3, <1>4, <1>6 DEF Typed
<1>9. /\ stack' \in Seq(Frame) /\ Len(stack) \in Nat
      /\ DOMAIN stack = 1..Len(stack) /\ DOMAIN stack' = 1..(Len(stack) + 1)
      /\ stack'[Len(stack) + 1] = frame
      /\ \A i \in 1..Len(stack) : stack'[i] = stack[i]
  BY <1>1, <1>3, <1>7 DEF Typed
<1>10. Typed'
  BY <1>1, <1>2, <1>8, <1>9 DEF Typed
<1>11. CallbacksInv'
  <2>1. move.audience = callbacks
    BY <1>3
  <2> QED
    BY <1>1, <1>2, <1>4, <1>5, <1>8, <2>1 DEF CallbacksInv
<1>12. \A h \in Hook : \A j \in DOMAIN heard[h] :
         heard[h][j] \in DOMAIN moves /\ heard[h][j] # new
  BY <1>1, <1>4, <1>8 DEF MovesInv
<1>13. ToldFirst(new, 0)'
  <2>1. \A h \in Hook : HeardNever(h, new)'
    BY <1>2, <1>12 DEF HeardNever
  <2>2. 1..0 = {}
    OBVIOUS
  <2> QED
    BY <2>1, <2>2, Zenon DEF ToldFirst
<1>14. MovesInv'
  <2>1. \A m \in DOMAIN moves : MoveInv(m)'
    BY <1>1, <1>2, <1>8, MoveStays DEF MovesInv
  <2>2. MoveInv(new)'
    <3>1. move.audience = callbacks /\ move.state = "running"
      BY <1>3
    <3>2. moves'[new].audience = callbacks /\ moves'[new].state # "returned"
      BY <1>8, <3>1
    <3>3. 0 \in 0..Len(callbacks)
      BY <1>5
    <3> QED
      BY <1>13, <3>2, <3>3 DEF MoveInv
  <2>3. \A m \in DOMAIN moves' : m \in DOMAIN moves \/ m = new
    BY <1>4, <1>8
  <2>4. \A h \in Hook : \A j \in DOMAIN heard'[h] : heard'[h][j] \in DOMAIN moves'
    BY <1>2, <1>4, <1>8, <1>12
  <2> QED
    BY <1>4, <1>8, <2>1, <2>2, <2>3, <2>4 DEF MovesInv
<1>15. StackInv'
  <2>1. \A i \in DOMAIN stack : stack[i].move \in DOMAIN moves
    BY <1>1 DEF StackInv, LoopInv
  <2>2. \A i \in DOMAIN stack : LoopInv(stack[i])'
    <3> SUFFICES ASSUME NEW i \in DOMAIN stack PROVE LoopInv(stack[i])'
      OBVIOUS
    <3>1. stack[i].move \in DOMAIN moves' /\ moves'[stack[i].move] = moves[stack[i].move]
      BY <1>4, <1>8, <2>1
    <3> QED
      BY <1>1, <1>2, <1>9, <3>1, LoopStays
  <2>3. /\ frame.move = new /\ frame.next = 1 /\ frame.end = Len(callbacks)
        /\ ~frame.calling
        /\ move.audience = callbacks /\ move.state = "running"
    BY <1>3
  <2>4. ASSUME NEW i, i = Len(stack) + 1
        PROVE  LoopInv(stack[i])'
    <3>1. stack'[i] = frame
      BY <1>9, <2>4
    <3>2. (IF frame.calling THEN frame.next ELSE frame.next - 1) = 0
      BY <2>3
    <3>3. ToldFirst(stack[i].move,
                    IF stack[i].calling THEN stack[i].next ELSE stack[i].next - 1)'
      BY <1>13, <2>3, <3>1, <3>2 DEF ToldFirst, HeardOnce, HeardNever
    <3> QED
      BY <1>4, <1>5, <1>8, <2>3, <3>1, <3>3 DEF LoopInv
  <2>5. \A i \in DOMAIN stack' : i \in DOMAIN stack \/ i = Len(stack) + 1
    BY <1>9
  <2>6. \A i \in DOMAIN stack' : LoopInv(stack[i])'
    BY <2>2, <2>4, <2>5
  <2>7. \A i, j \in DOMAIN stack' : i < j => stack'[i].move < stack'[j].move
    BY <1>1, <1>4, <1>8, <1>9, <2>1, <2>3, <2>5 DEF StackInv
  <2> QED
    BY <2>6, <2>7 DEF StackInv
<1> QED
  BY <1>10, <1>11, <1>14, <1>15 DEF HooksInv

(* What is known of the innermost loop.                                    *)
LEMMA TopLoop ==
  ASSUME HooksInv, stack # << >>
  PROVE  /\ LoopInv(Top) /\ Top \in Frame /\ Top.next \in Nat
         /\ Top.move \in DOMAIN moves /\ Top.move \in 1..MaxMoves
         /\ Len(moves[Top.move].audience) \in Nat
         /\ Len(moves[Top.move].audience) <= Len(callbacks)
         /\ Len(callbacks) \in Nat
         /\ \A i \in DOMAIN stack : i # Len(stack) => stack[i].move # Top.move
<1>1. Typed /\ CallbacksInv /\ StackInv
  BY DEF HooksInv
<1>2. /\ Top = stack[Len(stack)] /\ Len(stack) \in DOMAIN stack /\ Top \in Frame
      /\ DOMAIN stack = 1..Len(stack) /\ Len(stack) \in Nat
  BY <1>1, TopOfStack
<1>3. LoopInv(Top)
  BY <1>1, <1>2 DEF StackInv
<1>4. Top.move \in DOMAIN moves
  BY <1>3 DEF LoopInv
<1>5. Top.next \in Nat /\ Top.move \in 1..MaxMoves
  BY <1>2 DEF Frame
<1>6. /\ Len(moves[Top.move].audience) \in Nat
      /\ Len(moves[Top.move].audience) <= Len(callbacks)
  BY <1>1, <1>4, MoveTyped DEF CallbacksInv
<1>7. Len(callbacks) \in Nat
  BY <1>1 DEF Typed
<1>8. \A i \in DOMAIN stack : i # Len(stack) => stack[i].move # Top.move
  <2> SUFFICES ASSUME NEW i \in DOMAIN stack, i # Len(stack)
               PROVE  stack[i].move # Top.move
    OBVIOUS
  <2>1. i < Len(stack)
    BY <1>2
  <2>2. stack[i].move < Top.move
    BY <1>1, <1>2, <2>1 DEF StackInv
  <2>3. stack[i] \in Frame
    BY <1>1 DEF Typed
  <2>4. stack[i].move \in Nat /\ Top.move \in Nat
    BY <1>2, <2>3, MaxMovesAssumption DEF Frame
  <2> QED
    BY <2>2, <2>4
<1> QED
  BY <1>2, <1>3, <1>4, <1>5, <1>6, <1>7, <1>8

(* The loops around the innermost one stay when a step is its own.         *)
LEMMA OuterLoopsStay ==
  ASSUME HooksInv, stack # << >>,
         Len(moves') = Len(moves), DOMAIN moves' = DOMAIN moves,
         \A m \in DOMAIN moves : m # Top.move => moves'[m] = moves[m],
         \A h \in Hook : \/ heard'[h] = heard[h]
                         \/ heard'[h] = Append(heard[h], Top.move),
         NEW i \in DOMAIN stack, i # Len(stack), stack'[i] = stack[i]
  PROVE  LoopInv(stack[i])'
<1>1. stack[i].move # Top.move /\ Top.move \in 1..MaxMoves
  BY TopLoop
<1>2. Typed /\ StackInv
  BY DEF HooksInv
<1>3. stack[i].move \in DOMAIN moves
  BY <1>2 DEF StackInv, LoopInv
<1> QED
  BY <1>1, <1>2, <1>3, LoopStays

(* And the moves of these loops and of those that have ended.              *)
LEMMA OtherMovesStay ==
  ASSUME HooksInv, stack # << >>,
         DOMAIN moves' = DOMAIN moves,
         \A h \in Hook : \/ heard'[h] = heard[h]
                         \/ heard'[h] = Append(heard[h], Top.move),
         NEW m \in DOMAIN moves, m # Top.move, moves'[m] = moves[m]
  PROVE  MoveInv(m)'
<1>1. Typed /\ MovesInv /\ Top.move \in 1..MaxMoves
  BY TopLoop DEF HooksInv
<1>2. MoveInv(m)
  BY <1>1 DEF MovesInv
<1> QED
  BY <1>1, <1>2, MoveStays

(* The hook that is told is the next of the audience and was not told yet. *)
LEMMA CallStep == HooksInv /\ CallHook => HooksInv'
<1> SUFFICES ASSUME HooksInv, CallHook PROVE HooksInv'
  OBVIOUS
<1>1. Typed /\ CallbacksInv /\ MovesInv /\ StackInv
  BY DEF HooksInv
<1>2. stack # << >> /\ ~Top.calling /\ Top.next <= Top.end
  BY DEF CallHook
<1>3. UNCHANGED <<callbacks, capacity, moves, broken>>
  BY DEF CallHook, vector
<1>4. PICK top, m, n : top = Top /\ m = Top.move /\ n = Top.next
  OBVIOUS
<1>5. /\ LoopInv(Top) /\ top \in Frame /\ n \in Nat /\ m \in DOMAIN moves
      /\ m \in 1..MaxMoves /\ Len(callbacks) \in Nat
      /\ Len(moves[m].audience) \in Nat
      /\ Len(moves[m].audience) <= Len(callbacks)
      /\ \A i \in DOMAIN stack : i # Len(stack) => stack[i].move # m
  BY <1>2, <1>4, TopLoop
<1>6. /\ moves[m].state = "running" /\ top.end = Len(moves[m].audience)
      /\ n \in 1..Len(moves[m].audience) /\ ToldFirst(m, n - 1)
  BY <1>2, <1>4, <1>5 DEF LoopInv
<1>7. PICK who \in Hook : who = callbacks[n] /\ who = moves[m].audience[n]
  BY <1>1, <1>5, <1>6 DEF Typed, CallbacksInv
<1>8. /\ heard' = [heard EXCEPT ![who] = Append(@, m)]
      /\ SetTop([top EXCEPT !.calling = TRUE])
  BY <1>4, <1>7 DEF CallHook
<1>9. /\ \A h \in Hook : heard[h] \in Seq(1..MaxMoves)
      /\ DOMAIN heard = Hook
      /\ heard'[who] = Append(heard[who], m)
      /\ \A h \in Hook : h # who => heard'[h] = heard[h]
  BY <1>1, <1>8 DEF Typed
<1>10. PICK frame \in Frame :
         /\ SetTop(frame) /\ frame.move = m /\ frame.next = n
         /\ frame.end = top.end /\ frame.calling
  <2>1. [top EXCEPT !.calling = TRUE] \in Frame
    BY <1>5 DEF Frame
  <2> QED
    BY <1>4, <1>5, <1>8, <2>1 DEF Frame
<1>11. /\ stack' \in Seq(Frame) /\ DOMAIN stack' = DOMAIN stack
       /\ stack'[Len(stack)] = frame
       /\ \A i \in DOMAIN stack : i # Len(stack) => stack'[i] = stack[i]
  BY <1>1, <1>2, <1>10, ReplacedTop
<1>12. /\ Len(heard'[who]) = Len(heard[who]) + 1 /\ Len(heard[who]) \in Nat
       /\ DOMAIN heard[who] = 1..Len(heard[who])
       /\ DOMAIN heard'[who] = 1..Len(heard'[who])
       /\ heard'[who][Len(heard'[who])] = m
       /\ \A j \in 1..Len(heard[who]) : heard'[who][j] = heard[who][j]
       /\ heard'[who] \in Seq(1..MaxMoves)
  BY <1>5, <1>9
<1>13. Typed'
  <2>1. heard' \in [Hook -> Seq(1..MaxMoves)]
    BY <1>8, <1>9, <1>12
  <2> QED
    BY <1>1, <1>3, <1>11, <2>1 DEF Typed
<1>14. ToldFirst(m, n)'
  <2>1. ASSUME NEW i \in 1..(n - 1) PROVE moves[m].audience[i] # who
    <3>1. /\ i \in 1..Len(moves[m].audience) /\ i # n
          /\ i \in 1..Len(callbacks) /\ n \in 1..Len(callbacks)
      BY <1>5, <1>6
    <3>2. DOMAIN callbacks = 1..Len(callbacks)
      BY <1>1 DEF Typed
    <3>3. moves[m].audience[i] = callbacks[i] /\ callbacks[i] # callbacks[n]
      BY <1>1, <1>5, <3>1, <3>2 DEF CallbacksInv
    <3> QED
      BY <1>7, <3>3
  <2>2. HeardNever(who, m)
    BY <1>6, <2>1 DEF ToldFirst
  <2>3. HeardOnce(who, m)'
    <3>1. Len(heard'[who]) \in DOMAIN heard'[who]
      BY <1>12
    <3>2. \A j \in DOMAIN heard'[who] :
            heard'[who][j] = m => j = Len(heard'[who])
      BY <1>12, <2>2 DEF HeardNever
    <3> QED
      BY <1>12, <3>1, <3>2 DEF HeardOnce
  <2>4. \A h \in Hook : (\E i \in 1..n : moves[m].audience[i] = h)
                          <=> h = who \/ \E i \in 1..(n - 1) : moves[m].audience[i] = h
    BY <1>6, <1>7
  <2>5. \A h \in Hook : h # who =>
          IF \E i \in 1..(n - 1) : moves[m].audience[i] = h
          THEN HeardOnce(h, m)' ELSE HeardNever(h, m)'
    BY <1>6, <1>9 DEF ToldFirst, HeardOnce, HeardNever
  <2> QED
    BY <1>3, <2>3, <2>4, <2>5 DEF ToldFirst
<1>15. \A h \in Hook : heard'[h] = heard[h] \/ heard'[h] = Append(heard[h], Top.move)
  BY <1>4, <1>9
<1>16. CallbacksInv'
  BY <1>1, <1>3 DEF CallbacksInv
<1>17. MovesInv'
  <2>1. \A k \in DOMAIN moves : k # m => MoveInv(k)'
    BY <1>2, <1>3, <1>4, <1>15, OtherMovesStay
  <2>2. MoveInv(m)'
    BY <1>3, <1>5, <1>6, <1>14 DEF MoveInv
  <2>3. \A h \in Hook : \A j \in DOMAIN heard'[h] : heard'[h][j] \in DOMAIN moves
    <3>1. \A j \in DOMAIN heard'[who] : heard'[who][j] \in DOMAIN moves
      BY <1>1, <1>5, <1>12 DEF MovesInv
    <3> QED
      BY <1>1, <1>9, <3>1 DEF MovesInv
  <2> QED
    BY <1>1, <1>3, <2>1, <2>2, <2>3 DEF MovesInv
<1>18. StackInv'
  <2>1. \A i \in DOMAIN stack : i # Len(stack) => LoopInv(stack[i])'
    BY <1>2, <1>3, <1>4, <1>11, <1>15, OuterLoopsStay
  <2>2. ASSUME NEW i, i = Len(stack)
        PROVE  LoopInv(stack[i])'
    <3>1. stack'[i] = frame
      BY <1>11, <2>2
    <3>2. ToldFirst(stack[i].move,
                    IF stack[i].calling THEN stack[i].next ELSE stack[i].next - 1)'
      BY <1>10, <1>14, <3>1 DEF ToldFirst, HeardOnce, HeardNever
    <3> QED
      BY <1>3, <1>5, <1>6, <1>10, <3>1, <3>2 DEF LoopInv
  <2>3. \A i \in DOMAIN stack : stack'[i].move = stack[i].move
    BY <1>1, <1>2, <1>4, <1>10, <1>11, TopOfStack
  <2>4. \A i \in DOMAIN stack' : LoopInv(stack[i])'
    BY <1>11, <2>1, <2>2
  <2> QED
    BY <1>1, <1>11, <2>3, <2>4 DEF StackInv
<1> QED
  BY <1>13, <1>16, <1>17, <1>18 DEF HooksInv

(* When it returns, the loop is behind it.                                 *)
LEMMA ReturnStep == HooksInv /\ HookReturns => HooksInv'
<1> SUFFICES ASSUME HooksInv, HookReturns PROVE HooksInv'
  OBVIOUS
<1>1. Typed /\ CallbacksInv /\ MovesInv /\ StackInv
  BY DEF HooksInv
<1>2. stack # << >> /\ Top.calling
  BY DEF HookReturns, InClient
<1>3. UNCHANGED <<callbacks, capacity, heard, moves>>
  BY DEF HookReturns, vector
<1>4. Typed' /\ StackInv'
  <2>1. CASE Top.dangling
    <3>1. broken' = TRUE /\ stack' = stack
      BY <2>1 DEF HookReturns
    <3>2. \A i \in DOMAIN stack : stack[i].move \in DOMAIN moves
      BY <1>1 DEF StackInv, LoopInv
    <3>3. \A i \in DOMAIN stack : LoopInv(stack[i])'
      BY <1>1, <1>3, <3>1, <3>2, LoopStays
    <3> QED
      BY <1>1, <1>3, <3>1, <3>3 DEF Typed, StackInv
  <2>2. CASE ~Top.dangling
    <3>1. PICK top, m, n : top = Top /\ m = Top.move /\ n = Top.next
      OBVIOUS
    <3>2. /\ LoopInv(Top) /\ top \in Frame /\ n \in Nat /\ m \in DOMAIN moves
          /\ Len(moves[m].audience) \in Nat
      BY <1>2, <3>1, TopLoop
    <3>3. /\ moves[m].state = "running" /\ top.end = Len(moves[m].audience)
          /\ n \in 1..Len(moves[m].audience) /\ ToldFirst(m, n)
      BY <1>2, <3>1, <3>2 DEF LoopInv
    <3>4. PICK frame \in Frame :
            /\ SetTop(frame) /\ frame.move = m /\ frame.next = n + 1
            /\ frame.end = top.end /\ ~frame.calling
      <4>1. PICK called : called = [top EXCEPT !.calling = FALSE]
        OBVIOUS
      <4>2. /\ called \in Frame /\ called.move = m /\ called.next = n
            /\ called.end = top.end /\ ~called.calling
        BY <3>1, <3>2, <4>1 DEF Frame
      <4>3. PICK frame : frame = [called EXCEPT !.next = n + 1]
        OBVIOUS
      <4>4. /\ frame \in Frame /\ frame.move = m /\ frame.next = n + 1
            /\ frame.end = top.end /\ ~frame.calling
        BY <3>2, <4>2, <4>3 DEF Frame
      <4>5. SetTop(frame)
        BY <2>2, <3>1, <4>1, <4>3 DEF HookReturns
      <4> QED
        BY <4>4, <4>5
    <3>5. broken' = broken
      BY <2>2 DEF HookReturns
    <3>6. /\ stack' \in Seq(Frame) /\ DOMAIN stack' = DOMAIN stack
          /\ stack'[Len(stack)] = frame
          /\ \A i \in DOMAIN stack : i # Len(stack) => stack'[i] = stack[i]
      BY <1>1, <1>2, <3>4, ReplacedTop
    <3>7. ToldFirst(m, n)'
      BY <1>1, <1>3, <3>2, <3>3, ToldStays
    <3>8. \A i \in DOMAIN stack : i # Len(stack) => LoopInv(stack[i])'
      BY <1>2, <1>3, <3>6, OuterLoopsStay
    <3>9. ASSUME NEW i, i = Len(stack)
          PROVE  LoopInv(stack[i])'
      <4>1. stack'[i] = frame
        BY <3>6, <3>9
      <4>2. (IF frame.calling THEN frame.next ELSE frame.next - 1) = n
        BY <3>2, <3>4
      <4>3. ToldFirst(stack[i].move,
                      IF stack[i].calling THEN stack[i].next ELSE stack[i].next - 1)'
        BY <3>4, <3>7, <4>1, <4>2 DEF ToldFirst, HeardOnce, HeardNever
      <4> QED
        BY <1>3, <3>2, <3>3, <3>4, <4>1, <4>3 DEF LoopInv
    <3>10. \A i \in DOMAIN stack : stack'[i].move = stack[i].move
      BY <1>1, <1>2, <3>1, <3>4, <3>6, TopOfStack
    <3>11. StackInv'
      BY <1>1, <3>6, <3>8, <3>9, <3>10 DEF StackInv
    <3> QED
      BY <1>1, <1>3, <3>5, <3>6, <3>11 DEF Typed
  <2> QED
    BY <2>1, <2>2
<1>5. CallbacksInv'
  BY <1>1, <1>3 DEF CallbacksInv
<1>6. MovesInv'
  <2>1. \A m \in DOMAIN moves : MoveInv(m)'
    BY <1>1, <1>3, MoveStays DEF MovesInv
  <2> QED
    BY <1>1, <1>3, <2>1 DEF MovesInv
<1> QED
  BY <1>4, <1>5, <1>6 DEF HooksInv

(* The innermost loop is left: by an exception, or behind its last hook.   *)
LEMMA LoopLeft ==
  ASSUME HooksInv, stack # << >>, stack' = Front(stack),
         UNCHANGED <<callbacks, capacity, heard, broken>>,
         NEW end \in {"returned", "threw"},
         moves' = [moves EXCEPT ![Top.move].state = end],
         end = "returned" => ~Top.calling /\ Top.next > Top.end
  PROVE  HooksInv'
<1>1. Typed /\ CallbacksInv /\ MovesInv /\ StackInv
  BY DEF HooksInv
<1>2. PICK m, n : m = Top.move /\ n = Top.next
  OBVIOUS
<1>3. /\ LoopInv(Top) /\ Top \in Frame /\ n \in Nat /\ m \in DOMAIN moves
      /\ Len(moves[m].audience) \in Nat
      /\ \A i \in DOMAIN stack : i # Len(stack) => stack[i].move # m
  BY <1>2, TopLoop
<1>4. moves[m] \in Move /\ moves \in Seq(Move) /\ m \in 1..Len(moves)
  BY <1>1, <1>3, MoveTyped DEF Typed
<1>5. /\ moves' \in Seq(Move) /\ DOMAIN moves' = DOMAIN moves
      /\ Len(moves') = Len(moves)
      /\ \A k \in DOMAIN moves : k # m => moves'[k] = moves[k]
      /\ moves'[m].audience = moves[m].audience /\ moves'[m].state = end
  <2>1. PICK ended : ended = [moves[m] EXCEPT !.state = end]
    OBVIOUS
  <2>2. ended \in Move /\ ended.audience = moves[m].audience /\ ended.state = end
    BY <1>4, <2>1 DEF Move
  <2>3. moves' = [moves EXCEPT ![m] = ended]
    BY <1>2, <2>1
  <2>4. moves' \in Seq(Move) /\ Len(moves') = Len(moves)
    <3>1. moves \in Seq(Move) /\ m \in 1..Len(moves) /\ ended \in Move
      BY <1>4, <2>2
    <3>2. /\ [moves EXCEPT ![m] = ended] \in Seq(Move)
          /\ Len([moves EXCEPT ![m] = ended]) = Len(moves)
      BY <3>1, ExceptSeq
    <3> QED
      BY <2>3, <3>2
  <2> QED
    BY <1>3, <1>4, <2>2, <2>3, <2>4
<1>6. /\ stack' \in Seq(Frame) /\ DOMAIN stack' = 1..(Len(stack) - 1)
      /\ \A i \in DOMAIN stack' :
           i \in DOMAIN stack /\ i # Len(stack) /\ stack'[i] = stack[i]
  BY <1>1, EndedTop, TopOfStack
<1>7. Typed'
  BY <1>1, <1>5, <1>6 DEF Typed
<1>8. CallbacksInv'
  <2>1. \A k \in DOMAIN moves : moves'[k].audience = moves[k].audience
    BY <1>5
  <2> QED
    BY <1>1, <1>5, <2>1 DEF CallbacksInv
<1>9. MovesInv'
  <2>1. \A k \in DOMAIN moves : k # m => MoveInv(k)'
    BY <1>2, <1>5, OtherMovesStay
  <2>2. MoveInv(m)'
    <3>1. PICK told \in 0..Len(moves[m].audience) :
            /\ ToldFirst(m, told)
            /\ end = "returned" => told = Len(moves[m].audience)
      <4>1. /\ Top.end = Len(moves[m].audience) /\ n \in 1..(Top.end + 1)
            /\ Top.calling => n <= Top.end
            /\ ToldFirst(m, IF Top.calling THEN n ELSE n - 1)
        BY <1>2, <1>3 DEF LoopInv
      <4>2. CASE Top.calling
        BY <1>3, <4>1, <4>2
      <4>3. CASE ~Top.calling
        <5>1. /\ n - 1 \in 0..Len(moves[m].audience)
              /\ end = "returned" => n - 1 = Len(moves[m].audience)
          BY <1>2, <1>3, <4>1
        <5> QED
          BY <4>1, <4>3, <5>1
      <4> QED
        BY <4>2, <4>3
    <3>2. ToldFirst(m, told)'
      BY <1>1, <1>3, <1>5, <3>1, ToldStays
    <3> QED
      BY <1>5, <3>1, <3>2 DEF MoveInv
  <2> QED
    BY <1>1, <1>5, <2>1, <2>2 DEF MovesInv
<1>10. StackInv'
  <2>1. \A i \in DOMAIN stack' : LoopInv(stack[i])'
    BY <1>2, <1>5, <1>6, OuterLoopsStay
  <2> QED
    BY <1>1, <1>6, <2>1 DEF StackInv
<1> QED
  BY <1>7, <1>8, <1>9, <1>10 DEF HooksInv

(* A stuttering step changes nothing the invariant is about.               *)
LEMMA StutterStep == HooksInv /\ UNCHANGED vars => HooksInv'
BY DEF HooksInv, Typed, CallbacksInv, MovesInv, MoveInv, StackInv, LoopInv,
       ToldFirst, HeardOnce, HeardNever, vars

(* No step breaks the invariant.                                           *)
LEMMA HooksStep == HooksInv /\ [Next]_vars => HooksInv'
<1> SUFFICES ASSUME HooksInv, [Next]_vars PROVE HooksInv'
  OBVIOUS
<1>1. CASE registerHook
  BY <1>1, RegisterStep
<1>2. CASE onFileMoved
  BY <1>2, MovedStep
<1>3. CASE CallHook
  BY <1>3, CallStep
<1>4. CASE HookReturns
  BY <1>4, ReturnStep
<1>5. CASE HookThrows
  BY <1>5, LoopLeft DEF HookThrows, vector
<1>6. CASE LoopEnds
  BY <1>6, LoopLeft DEF LoopEnds, vector
<1>7. CASE UNCHANGED vars
  BY <1>7, StutterStep
<1> QED
  BY <1>1, <1>2, <1>3, <1>4, <1>5, <1>6, <1>7 DEF Next

(* HooksInv holds of every state of HookRegistry.                          *)
THEOREM HooksInductive == Spec => []HooksInv
BY HooksInit, HooksStep, PTL DEF Spec

(* Until a dangling iterator is used, exactly the first hooks registered   *)
(* hear of a move, each once, and all of them if the notification returns. *)
THEOREM EveryHookHears == Spec => []AudienceHears
<1>1. HooksInv => AudienceHears
  <2> SUFFICES ASSUME HooksInv, NEW m \in DOMAIN moves
               PROVE
    LET audience == moves[m].audience
        told == {h \in Hook : Contains(heard[h], m)}
    IN  /\ \E n \in 0..Len(audience) :
             /\ told = Range(SubSeq(audience, 1, n))
             /\ moves[m].state = "returned" => n = Len(audience)
        /\ \A h \in told : Cardinality({i \in DOMAIN heard[h] : heard[h][i] = m}) = 1
    BY DEF AudienceHears
  <2> DEFINE told == {h \in Hook : Contains(heard[h], m)}
  <2>1. Typed /\ MovesInv
    BY DEF HooksInv
  <2>2. PICK audience \in Seq(Hook) : audience = moves[m].audience
    BY <2>1, MoveTyped
  <2>3. PICK n \in 0..Len(audience) :
          /\ ToldFirst(m, n)
          /\ moves[m].state = "returned" => n = Len(audience)
    BY <2>1, <2>2 DEF MovesInv, MoveInv
  <2>4. \A h \in Hook : DOMAIN heard[h] = 1..Len(heard[h])
    BY <2>1 DEF Typed
  <2>5. \A h \in Hook : Contains(heard[h], m) => HeardOnce(h, m)
    BY <2>3, <2>4 DEF ToldFirst, HeardNever, Contains
  <2>6. \A h \in Hook : Contains(heard[h], m) <=> \E i \in 1..n : audience[i] = h
    BY <2>2, <2>3, <2>4 DEF ToldFirst, HeardOnce, HeardNever, Contains
  <2>7. told = Range(SubSeq(audience, 1, n))
    <3>1. Len(audience) \in Nat /\ n \in Nat /\ n <= Len(audience)
      BY <2>2, <2>3
    <3>2. /\ Len(SubSeq(audience, 1, n)) = n
          /\ DOMAIN SubSeq(audience, 1, n) = 1..n
          /\ \A i \in 1..n : SubSeq(audience, 1, n)[i] = audience[i]
      BY <2>2, <3>1
    <3>3. \A i \in 1..n : audience[i] \in Hook
      BY <2>2, <3>1
    <3> QED
      BY <2>6, <3>2, <3>3 DEF Range
  <2>8. ASSUME NEW h \in told
        PROVE  Cardinality({i \in DOMAIN heard[h] : heard[h][i] = m}) = 1
    <3>1. PICK k \in DOMAIN heard[h] :
            heard[h][k] = m /\ \A j \in DOMAIN heard[h] : heard[h][j] = m => j = k
      BY <2>5, <2>8 DEF HeardOnce
    <3>2. {i \in DOMAIN heard[h] : heard[h][i] = m} = {k}
      BY <3>1
    <3> QED
      BY <3>2, FS_Singleton
  <2> QED
    BY <2>2, <2>3, <2>7, <2>8
<1> QED
  BY <1>1, HooksInductive, PTL

(* The type invariant of HookRegistry: no loop runs past its end or past   *)
(* the vector it began with.                                               *)
THEOREM HooksTyped == Spec => []TypeOK
<1>1. HooksInv => TypeOK
  <2> SUFFICES ASSUME HooksInv PROVE TypeOK
    OBVIOUS
  <2>1. Typed /\ CallbacksInv /\ StackInv
    BY DEF HooksInv
  <2>2. ASSUME NEW f \in Range(stack)
        PROVE  f.next <= f.end + 1 /\ f.end <= Len(callbacks)
    <3>1. PICK i \in DOMAIN stack : f = stack[i]
      BY DEF Range
    <3>2. LoopInv(f) /\ f \in Frame
      BY <2>1, <3>1 DEF StackInv, Typed
    <3>3. Len(moves[f.move].audience) <= Len(callbacks)
      BY <2>1, <3>2 DEF LoopInv, CallbacksInv
    <3>4. f.end \in Nat /\ f.next \in Nat
      BY <3>2 DEF Frame
    <3> QED
      BY <3>2, <3>3, <3>4 DEF LoopInv
  <2> QED
    BY <2>1, <2>2 DEF TypeOK, Typed
<1> QED
  BY <1>1, HooksInductive, PTL
-----------------------------------------------------------------------------
(* The number of hooks a running loop has called.                          *)
Called(f) == IF f.calling THEN f.next ELSE f.next - 1

(* The running moves are nested one in the other, each made by the hook    *)
(* that the loop outside of it is calling.                                 *)
NestInv ==
  /\ \A n \in DOMAIN moves : moves[n].inside \subseteq 1..(n - 1)
  /\ \A j \in DOMAIN stack :
       moves[stack[j].move].inside = {stack[i].move : i \in 1..(j - 1)}
  /\ \A i \in DOMAIN stack : i < Len(stack) =>
       /\ stack[i].calling
       /\ moves[stack[i + 1].move].by = callbacks[stack[i].next]

(* All moves made since a running one are inside of it, and began while    *)
(* one of the hooks it has called so far was called.                       *)
RunningInv ==
  \A i \in DOMAIN stack : \A n \in DOMAIN moves :
    n > stack[i].move =>
      /\ stack[i].move \in moves[n].inside
      /\ \E p \in 1..Called(stack[i]) : ToldOf(stack[i].move, n) = callbacks[p]

(* OrderInvertedByNesting, said of what stands where in what was heard.    *)
OrderInv ==
  \A h \in Hook : \A i, j \in DOMAIN heard[h] :
    heard[h][i] < heard[h][j] =>
      (j < i <=> /\ heard[h][i] \in moves[heard[h][j]].inside
                 /\ Earlier(callbacks, ToldOf(heard[h][i], heard[h][j]), h))

NestingInv == HooksInv /\ NestInv /\ RunningInv /\ OrderInv

(* The outermost move that was made inside of m and n is part of: the one  *)
(* that ToldOf asks for who made it.                                       *)
LEMMA Outermost ==
  ASSUME NEW m \in Nat, NEW n \in Nat, m < n, NEW inside \in SUBSET (1..(n - 1))
  PROVE  LET S == {k \in inside \cup {n} : k > m}
         IN  Min(S) \in S /\ \A k \in S : Min(S) <= k
<1> DEFINE S == {k \in inside \cup {n} : k > m}
<1>1. S \in SUBSET Nat /\ n \in S
  <2>1. \A k \in inside : k \in Nat
    OBVIOUS
  <2> QED
    BY <2>1
<1>2. \E x \in S : \A y \in S : x <= y
  <2> HIDE DEF S
  <2> QED
    BY <1>1, LeastExists
<1> HIDE DEF S
<1>3. Min(S) \in S /\ \A k \in S : Min(S) <= k
  BY <1>2 DEF Min
<1> QED
  BY <1>3 DEF S

(* Who was told of m when n was made does not change.                      *)
LEMMA ToldOfStays ==
  ASSUME Typed, NestInv, NEW m \in Nat, NEW n \in DOMAIN moves, m < n,
         \A k \in DOMAIN moves :
           moves'[k].by = moves[k].by /\ moves'[k].inside = moves[k].inside
  PROVE  ToldOf(m, n)' = ToldOf(m, n)
<1> DEFINE S == {k \in moves[n].inside \cup {n} : k > m}
<1>1. Len(moves) \in Nat /\ DOMAIN moves = 1..Len(moves)
  BY DEF Typed
<1>2. moves[n].inside \in SUBSET (1..(n - 1)) /\ n \in Nat
  BY <1>1 DEF NestInv
<1>3. Min(S) \in S
  BY <1>2, Outermost
<1>4. Min(S) \in DOMAIN moves
  BY <1>1, <1>2, <1>3
<1>5. {k \in moves'[n].inside \cup {n} : k > m} = S
  OBVIOUS
<1> HIDE DEF S
<1>6. ToldOf(m, n) = moves[Min(S)].by
  BY DEF ToldOf, S
<1>7. ToldOf(m, n)' = moves'[Min(S)].by
  BY <1>5 DEF ToldOf
<1> QED
  BY <1>4, <1>6, <1>7

(* The stack of a state with the invariant.                                *)
LEMMA StackTyped ==
  ASSUME HooksInv
  PROVE  /\ Len(stack) \in Nat /\ DOMAIN stack = 1..Len(stack)
         /\ Len(moves) \in Nat /\ DOMAIN moves = 1..Len(moves)
         /\ Len(callbacks) \in Nat /\ DOMAIN callbacks = 1..Len(callbacks)
         /\ \A i \in DOMAIN stack :
              /\ stack[i].move \in DOMAIN moves /\ stack[i].next \in 1..(Len(callbacks) + 1)
              /\ stack[i].calling => stack[i].next \in 1..Len(callbacks)
              /\ stack[i].calling \in BOOLEAN
              /\ Called(stack[i]) \in 0..Len(callbacks)
              /\ ToldFirst(stack[i].move, Called(stack[i]))
              /\ Called(stack[i]) <= Len(moves[stack[i].move].audience)
         /\ \A i, j \in DOMAIN stack : i < j => stack[i].move < stack[j].move
<1>1. Typed /\ CallbacksInv /\ StackInv
  BY DEF HooksInv
<1>2. /\ Len(stack) \in Nat /\ DOMAIN stack = 1..Len(stack)
      /\ Len(moves) \in Nat /\ DOMAIN moves = 1..Len(moves)
      /\ Len(callbacks) \in Nat /\ DOMAIN callbacks = 1..Len(callbacks)
  BY <1>1 DEF Typed
<1>3. ASSUME NEW i \in DOMAIN stack
      PROVE  /\ stack[i].move \in DOMAIN moves
             /\ stack[i].next \in 1..(Len(callbacks) + 1)
             /\ stack[i].calling => stack[i].next \in 1..Len(callbacks)
             /\ stack[i].calling \in BOOLEAN
             /\ Called(stack[i]) \in 0..Len(callbacks)
             /\ ToldFirst(stack[i].move, Called(stack[i]))
             /\ Called(stack[i]) <= Len(moves[stack[i].move].audience)
  <2>1. stack[i] \in Frame
    BY <1>1 DEF Typed
  <2>2. LoopInv(stack[i])
    BY <1>1 DEF StackInv
  <2>3. stack[i].calling \in BOOLEAN /\ stack[i].next \in Nat
    BY <2>1 DEF Frame
  <2>4. /\ stack[i].move \in DOMAIN moves
        /\ ToldFirst(stack[i].move, Called(stack[i]))
    BY <2>2 DEF LoopInv, Called
  <2>5. /\ Len(moves[stack[i].move].audience) \in Nat
        /\ Len(moves[stack[i].move].audience) <= Len(callbacks)
    BY <1>1, <2>4, MoveTyped DEF CallbacksInv
  <2>6. /\ stack[i].next \in 1..(Len(moves[stack[i].move].audience) + 1)
        /\ stack[i].calling => stack[i].next <= Len(moves[stack[i].move].audience)
    BY <2>2 DEF LoopInv
  <2>7. /\ Called(stack[i]) \in 0..Len(callbacks)
        /\ Called(stack[i]) <= Len(moves[stack[i].move].audience)
    BY <1>2, <2>3, <2>5, <2>6 DEF Called
  <2> QED
    BY <1>2, <2>3, <2>4, <2>5, <2>6, <2>7
<1> QED
  BY <1>1, <1>2, <1>3 DEF StackInv

(* What of this the step lemmas need about the state a step leads to.      *)
StackShape ==
  /\ Len(stack) \in Nat /\ DOMAIN stack = 1..Len(stack)
  /\ \A i \in DOMAIN stack : Called(stack[i]) \in Nat

(* The invariant gives the stack that shape.                               *)
LEMMA StackShaped == HooksInv => StackShape
<1> SUFFICES ASSUME HooksInv PROVE StackShape
  OBVIOUS
<1>1. /\ Len(stack) \in Nat /\ DOMAIN stack = 1..Len(stack)
      /\ Len(callbacks) \in Nat
      /\ \A i \in DOMAIN stack : Called(stack[i]) \in 0..Len(callbacks)
  BY StackTyped
<1> QED
  BY <1>1 DEF StackShape

(* The same of the stack a step leads to.                                  *)
LEMMA NextStack ==
  ASSUME HooksInv'
  PROVE  /\ Len(stack') \in Nat /\ DOMAIN stack' = 1..Len(stack')
         /\ \A i \in DOMAIN stack' : Called(stack[i])' \in Nat
<1>1. StackShape'
  BY StackShaped, PTL
<1> QED
  BY <1>1 DEF StackShape

(* A hook that has heard of a running move is one the loop has called.     *)
LEMMA HeardIsCalled ==
  ASSUME HooksInv, NEW i \in DOMAIN stack, NEW h \in Hook,
         NEW k \in DOMAIN heard[h], heard[h][k] = stack[i].move
  PROVE  \E p \in 1..Called(stack[i]) : callbacks[p] = h
<1>1. /\ stack[i].move \in DOMAIN moves /\ ToldFirst(stack[i].move, Called(stack[i]))
      /\ Called(stack[i]) <= Len(moves[stack[i].move].audience)
      /\ Called(stack[i]) \in Nat
  BY StackTyped
<1>2. PICK p \in 1..Called(stack[i]) : moves[stack[i].move].audience[p] = h
  BY <1>1 DEF ToldFirst, HeardNever
<1>3. Typed /\ CallbacksInv /\ Len(moves[stack[i].move].audience) \in Nat
  BY <1>1, MoveTyped DEF HooksInv
<1>4. callbacks[p] = moves[stack[i].move].audience[p]
  BY <1>1, <1>3 DEF CallbacksInv
<1> QED
  BY <1>2, <1>4

(* Who hears of anything is registered.                                    *)
LEMMA HeardIsRegistered ==
  ASSUME HooksInv, NEW h \in Hook, NEW k \in DOMAIN heard[h]
  PROVE  \E p \in DOMAIN callbacks : callbacks[p] = h
<1>1. Typed /\ CallbacksInv /\ MovesInv
  BY DEF HooksInv
<1>2. PICK m \in DOMAIN moves : heard[h][k] = m
  BY <1>1 DEF MovesInv
<1>3. PICK n \in 0..Len(moves[m].audience) : ToldFirst(m, n)
  BY <1>1 DEF MovesInv, MoveInv
<1>4. PICK i \in 1..n : moves[m].audience[i] = h
  BY <1>2, <1>3 DEF ToldFirst, HeardNever
<1>5. Len(moves[m].audience) \in Nat
  BY <1>1, MoveTyped
<1>6. /\ Len(callbacks) \in Nat /\ DOMAIN callbacks = 1..Len(callbacks)
      /\ Len(moves[m].audience) <= Len(callbacks)
  BY <1>1 DEF Typed, CallbacksInv
<1>7. i \in DOMAIN callbacks /\ callbacks[i] = moves[m].audience[i]
  BY <1>1, <1>3, <1>5, <1>6 DEF CallbacksInv
<1> QED
  BY <1>4, <1>7

(* The running move inside of another was made by the hook that the outer  *)
(* loop is calling.                                                        *)
LEMMA ToldOfRunning ==
  ASSUME HooksInv, NestInv, NEW i \in DOMAIN stack, NEW n \in Nat,
         NEW inside \in SUBSET (1..(n - 1)), stack[i].move < n,
         \/ /\ inside = {stack[k].move : k \in DOMAIN stack}
            /\ i < Len(stack)
         \/ \E j \in DOMAIN stack :
              /\ i < j /\ n = stack[j].move
              /\ inside = {stack[k].move : k \in 1..(j - 1)}
  PROVE  /\ Min({k \in inside \cup {n} : k > stack[i].move}) = stack[i + 1].move
         /\ moves[stack[i + 1].move].by = callbacks[stack[i].next]
         /\ stack[i].calling
<1> DEFINE S == {k \in inside \cup {n} : k > stack[i].move}
<1>1. /\ Len(stack) \in Nat /\ DOMAIN stack = 1..Len(stack) /\ Len(moves) \in Nat
      /\ \A k \in DOMAIN stack : stack[k].move \in 1..Len(moves)
      /\ \A k, l \in DOMAIN stack : k < l => stack[k].move < stack[l].move
  BY StackTyped
<1>2. i < Len(stack) /\ i + 1 \in DOMAIN stack
  BY <1>1
<1>3. Min(S) \in S /\ \A k \in S : Min(S) <= k
  <2>1. stack[i].move \in Nat
    BY <1>1
  <2> QED
    BY <2>1, Outermost
<1>4. /\ \A k \in inside : k \in Nat /\ k < n
      /\ \A k \in S : k \in Nat
  <2>1. \A k \in inside : k \in Nat /\ k < n
    OBVIOUS
  <2> QED
    BY <2>1
<1>5. stack[i + 1].move \in S
  <2>1. stack[i].move < stack[i + 1].move
    BY <1>1, <1>2
  <2>2. stack[i + 1].move \in inside \cup {n}
    BY <1>1, <1>2
  <2> QED
    BY <2>1, <2>2
<1>6. \A k \in S : stack[i + 1].move <= k
  <2> SUFFICES ASSUME NEW k \in S PROVE stack[i + 1].move <= k
    OBVIOUS
  <2>1. CASE \E l \in DOMAIN stack : k = stack[l].move
    <3>1. PICK l \in DOMAIN stack : k = stack[l].move
      BY <2>1
    <3>2. l > i
      <4>1. ~(l < i) /\ l # i
        BY <1>1, <3>1
      <4> QED
        BY <1>1, <4>1
    <3>3. l = i + 1 \/ l > i + 1
      BY <1>1, <3>2
    <3>4. stack[l].move \in Nat /\ stack[i + 1].move \in Nat
      BY <1>1, <1>2
    <3>5. CASE l = i + 1
      BY <3>1, <3>4, <3>5
    <3>6. CASE l > i + 1
      <4>1. stack[i + 1].move < stack[l].move
        BY <1>1, <1>2, <3>6
      <4> QED
        BY <3>1, <3>4, <4>1
    <3> QED
      BY <3>3, <3>5, <3>6
  <2>2. CASE k = n /\ inside = {stack[l].move : l \in DOMAIN stack}
    <3>1. stack[i + 1].move \in inside
      BY <1>2, <2>2
    <3>2. stack[i + 1].move \in Nat /\ stack[i + 1].move < n
      BY <1>4, <3>1
    <3> QED
      BY <2>2, <3>2
  <2>3. k \in inside \/ k = n
    OBVIOUS
  <2>4. \A l \in inside : \E x \in DOMAIN stack : l = stack[x].move
    <3>1. \A j \in DOMAIN stack : 1..(j - 1) \subseteq DOMAIN stack
      BY <1>1
    <3> QED
      BY <3>1
  <2>5. \/ inside = {stack[l].move : l \in DOMAIN stack}
        \/ \E x \in DOMAIN stack : n = stack[x].move
    OBVIOUS
  <2> QED
    BY <2>1, <2>2, <2>3, <2>4, <2>5
<1> HIDE DEF S
<1>7. Min(S) = stack[i + 1].move
  <2>1. /\ Min(S) \in Nat /\ stack[i + 1].move \in Nat
        /\ Min(S) <= stack[i + 1].move /\ stack[i + 1].move <= Min(S)
    BY <1>3, <1>4, <1>5, <1>6
  <2> QED
    BY <2>1
<1>8. /\ moves[stack[i + 1].move].by = callbacks[stack[i].next]
      /\ stack[i].calling
  BY <1>2 DEF NestInv
<1> QED
  BY <1>7, <1>8 DEF S

(* The order in which hooks have heard of moves stays as it should be in a *)
(* step in which no hook hears of one.                                     *)
LEMMA OrderStays ==
  ASSUME HooksInv, NestInv, OrderInv, heard' = heard,
         \A k \in DOMAIN moves :
           moves'[k].by = moves[k].by /\ moves'[k].inside = moves[k].inside,
         \A d : \A p \in DOMAIN callbacks :
           Earlier(callbacks', d, callbacks[p]) <=> Earlier(callbacks, d, callbacks[p])
  PROVE  OrderInv'
<1> SUFFICES ASSUME NEW h \in Hook, NEW i \in DOMAIN heard[h], NEW j \in DOMAIN heard[h],
                    heard[h][i] < heard[h][j]
             PROVE  (j < i <=> /\ heard[h][i] \in moves[heard[h][j]].inside
                               /\ Earlier(callbacks, ToldOf(heard[h][i], heard[h][j]), h))'
  BY DEF OrderInv
<1>1. Typed /\ MovesInv
  BY DEF HooksInv
<1>2. PICK m, n : m = heard[h][i] /\ n = heard[h][j]
  OBVIOUS
<1>3. m \in DOMAIN moves /\ n \in DOMAIN moves /\ m \in Nat /\ m < n
  BY <1>1, <1>2, StackTyped DEF MovesInv
<1>4. ToldOf(m, n)' = ToldOf(m, n)
  BY <1>1, <1>3, ToldOfStays
<1>5. PICK p \in DOMAIN callbacks : callbacks[p] = h
  BY HeardIsRegistered
<1>6. j < i <=> m \in moves[n].inside /\ Earlier(callbacks, ToldOf(m, n), h)
  BY <1>2 DEF OrderInv
<1>7. j < i <=> m \in moves'[n].inside /\ Earlier(callbacks', ToldOf(m, n)', h)
  BY <1>3, <1>4, <1>5, <1>6
<1> QED
  BY <1>2, <1>7 DEF ToldOf

(* What is known of a running loop when it has called more hooks than it   *)
(* had, or as many.                                                        *)
LEMMA RunningStays ==
  ASSUME HooksInv, NestInv, RunningInv,
         \A k \in DOMAIN moves :
           moves'[k].by = moves[k].by /\ moves'[k].inside = moves[k].inside,
         \A p \in DOMAIN callbacks : callbacks'[p] = callbacks[p],
         NEW i \in DOMAIN stack, NEW m, m = stack[i].move,
         NEW c \in Nat, Called(stack[i]) <= c, NEW n \in DOMAIN moves, n > m
  PROVE  m \in moves'[n].inside /\ \E p \in 1..c : ToldOf(m, n)' = callbacks'[p]
<1>1. /\ m \in Nat /\ n \in Nat /\ Called(stack[i]) \in 0..Len(callbacks)
      /\ DOMAIN callbacks = 1..Len(callbacks) /\ Len(callbacks) \in Nat
  BY StackTyped
<1>2. m \in moves[n].inside
  BY DEF RunningInv
<1>3. PICK p \in 1..Called(stack[i]) : ToldOf(m, n) = callbacks[p]
  BY DEF RunningInv
<1>4. ToldOf(m, n)' = ToldOf(m, n)
  BY <1>1, ToldOfStays DEF HooksInv
<1>5. p \in 1..c /\ p \in DOMAIN callbacks
  BY <1>1
<1> QED
  BY <1>2, <1>3, <1>4, <1>5

(* A hook that is registered in the middle of moves has heard of none.     *)
LEMMA RegisterNests == NestingInv /\ HooksInv' /\ registerHook => NestingInv'
<1> SUFFICES ASSUME NestingInv, HooksInv', registerHook PROVE NestingInv'
  OBVIOUS
<1>1. HooksInv /\ NestInv /\ RunningInv /\ OrderInv
  BY DEF NestingInv
<1>2. PICK new \in Hook \ Range(callbacks) : callbacks' = Append(callbacks, new)
  BY DEF registerHook
<1>3. heard' = heard /\ moves' = moves
  BY DEF registerHook
<1>4. /\ callbacks \in Seq(Hook) /\ Len(callbacks) \in Nat
      /\ DOMAIN callbacks = 1..Len(callbacks)
      /\ DOMAIN callbacks' = 1..(Len(callbacks) + 1)
      /\ callbacks'[Len(callbacks) + 1] = new
      /\ \A p \in DOMAIN callbacks : callbacks'[p] = callbacks[p] /\ callbacks[p] # new
  <2>1. callbacks \in Seq(Hook) /\ new \in Hook
    BY <1>1, <1>2 DEF HooksInv, Typed
  <2>2. \A p \in DOMAIN callbacks : callbacks[p] # new
    BY <1>2 DEF Range
  <2> QED
    BY <1>2, <2>1, <2>2
<1>5. /\ DOMAIN stack' = DOMAIN stack /\ Len(stack') = Len(stack)
      /\ \A i \in DOMAIN stack :
           /\ stack'[i].move = stack[i].move /\ stack'[i].next = stack[i].next
           /\ stack'[i].calling = stack[i].calling
  <2>1. CASE stack' = stack
    BY <2>1
  <2>2. CASE stack' = [i \in DOMAIN stack |-> [stack[i] EXCEPT !.dangling = TRUE]]
    <3>1. stack \in Seq(Frame) /\ DOMAIN stack = 1..Len(stack) /\ Len(stack) \in Nat
      BY <1>1 DEF HooksInv, Typed
    <3>2. \A i \in DOMAIN stack : stack[i] \in Frame
      BY <3>1
    <3>3. \A i \in DOMAIN stack :
            /\ stack'[i].move = stack[i].move /\ stack'[i].next = stack[i].next
            /\ stack'[i].calling = stack[i].calling
      BY <2>2, <3>2 DEF Frame
    <3>4. DOMAIN stack' = 1..Len(stack)
      BY <2>2, <3>1
    <3>5. Len(stack') \in Nat /\ DOMAIN stack' = 1..Len(stack')
      BY NextStack
    <3>6. Len(stack') = Len(stack)
      BY <3>1, <3>4, <3>5
    <3> QED
      BY <3>1, <3>3, <3>4, <3>6
  <2> QED
    BY <2>1, <2>2 DEF registerHook
<1>6. NestInv'
  <2>1. \A j \in DOMAIN stack :
          {stack'[i].move : i \in 1..(j - 1)} = {stack[i].move : i \in 1..(j - 1)}
    <3>1. \A j \in DOMAIN stack : 1..(j - 1) \subseteq DOMAIN stack
      BY <1>1, StackTyped
    <3> QED
      BY <1>5, <3>1
  <2>2. ASSUME NEW i \in DOMAIN stack, i < Len(stack)
        PROVE  /\ stack'[i].calling
               /\ moves'[stack'[i + 1].move].by = callbacks'[stack'[i].next]
    <3>1. i + 1 \in DOMAIN stack
      BY <1>1, <2>2, StackTyped
    <3>2. stack[i].calling /\ moves[stack[i + 1].move].by = callbacks[stack[i].next]
      BY <1>1, <2>2 DEF NestInv
    <3>3. stack[i].next \in DOMAIN callbacks
      BY <1>1, <3>2, StackTyped
    <3> QED
      BY <1>3, <1>4, <1>5, <3>1, <3>2, <3>3
  <2>3. \A n \in DOMAIN moves' : moves'[n].inside \subseteq 1..(n - 1)
    BY <1>1, <1>3 DEF NestInv
  <2>4. \A j \in DOMAIN stack' :
          moves'[stack'[j].move].inside = {stack'[i].move : i \in 1..(j - 1)}
    BY <1>1, <1>3, <1>5, <2>1 DEF NestInv
  <2> QED
    BY <1>5, <2>2, <2>3, <2>4 DEF NestInv
<1>7. RunningInv'
  <2> SUFFICES ASSUME NEW i \in DOMAIN stack, NEW n \in DOMAIN moves, n > stack[i].move
               PROVE  (/\ stack[i].move \in moves[n].inside
                       /\ \E p \in 1..Called(stack[i]) :
                            ToldOf(stack[i].move, n) = callbacks[p])'
    BY <1>3, <1>5 DEF RunningInv
  <2>1. PICK m, c : m = stack[i].move /\ c = Called(stack[i])
    OBVIOUS
  <2>2. c \in Nat /\ c = Called(stack[i])' /\ Called(stack[i]) <= c /\ n > m
    BY <1>1, <1>5, <2>1, StackTyped DEF Called
  <2>3. m \in moves'[n].inside /\ \E p \in 1..c : ToldOf(m, n)' = callbacks'[p]
    <3>1. \A p \in DOMAIN callbacks : callbacks'[p] = callbacks[p]
      BY <1>4
    <3>2. \A k \in DOMAIN moves :
            moves'[k].by = moves[k].by /\ moves'[k].inside = moves[k].inside
      BY <1>3
    <3>3. HooksInv /\ NestInv /\ RunningInv
      BY <1>1
    <3>4. m = stack[i].move
      BY <2>1
    <3>5. c \in Nat /\ Called(stack[i]) <= c /\ n > m
      BY <2>2
    <3> QED
      BY <3>1, <3>2, <3>3, <3>4, <3>5, RunningStays, SMTT(60)
  <2> QED
    BY <1>5, <2>1, <2>2, <2>3 DEF ToldOf
<1>8. \A d : \A p \in DOMAIN callbacks :
        Earlier(callbacks', d, callbacks[p]) <=> Earlier(callbacks, d, callbacks[p])
  <2> SUFFICES ASSUME NEW d, NEW p \in DOMAIN callbacks
               PROVE  Earlier(callbacks', d, callbacks[p])
                        <=> Earlier(callbacks, d, callbacks[p])
    OBVIOUS
  <2>1. ASSUME NEW i \in DOMAIN callbacks', NEW j \in DOMAIN callbacks', i < j,
               callbacks'[j] = callbacks[p]
        PROVE  i \in DOMAIN callbacks /\ j \in DOMAIN callbacks
    BY <1>4, <2>1
  <2>2. DOMAIN callbacks \subseteq DOMAIN callbacks'
    BY <1>4
  <2> QED
    BY <1>4, <2>1, <2>2 DEF Earlier
<1>9. OrderInv'
  BY <1>1, <1>3, <1>8, OrderStays
<1> QED
  BY <1>6, <1>7, <1>9 DEF NestingInv

(* A move begins inside of all that are running.                           *)
LEMMA MovedNests == NestingInv /\ HooksInv' /\ onFileMoved => NestingInv'
<1> SUFFICES ASSUME NestingInv, HooksInv', onFileMoved PROVE NestingInv'
  OBVIOUS
<1>1. HooksInv /\ NestInv /\ RunningInv /\ OrderInv
  BY DEF NestingInv
<1>2. callbacks' = callbacks /\ heard' = heard
  BY DEF onFileMoved, vector
<1>3. PICK new, move, frame :
        /\ new = Len(moves) + 1
        /\ move = [by |-> Caller, inside |-> {f.move : f \in Range(stack)},
                   audience |-> callbacks, state |-> "running"]
        /\ frame = [move |-> new, next |-> 1, end |-> Len(callbacks),
                    calling |-> FALSE, dangling |-> FALSE]
        /\ moves' = Append(moves, move) /\ stack' = Append(stack, frame)
  BY DEF onFileMoved
<1>4. /\ Len(stack) \in Nat /\ DOMAIN stack = 1..Len(stack)
      /\ Len(moves) \in Nat /\ DOMAIN moves = 1..Len(moves)
      /\ \A i \in DOMAIN stack : stack[i].move \in DOMAIN moves
  BY <1>1, StackTyped
<1>5. /\ moves \in Seq(Move) /\ stack \in Seq(Frame)
  BY <1>1 DEF HooksInv, Typed
<1>6. /\ DOMAIN moves' = 1..new /\ moves'[new] = move /\ new \in Nat
      /\ \A k \in DOMAIN moves : moves'[k] = moves[k] /\ k # new /\ k < new
      /\ \A k \in DOMAIN moves' : k \in DOMAIN moves \/ k = new
  BY <1>3, <1>4, <1>5
<1>7. /\ Len(stack') = Len(stack) + 1
      /\ DOMAIN stack' = 1..(Len(stack) + 1) /\ stack'[Len(stack) + 1] = frame
      /\ \A i \in DOMAIN stack : stack'[i] = stack[i] /\ i < Len(stack) + 1
      /\ \A i \in DOMAIN stack' : i \in DOMAIN stack \/ i = Len(stack) + 1
  BY <1>3, <1>4, <1>5
<1>8. /\ move.by = Caller /\ move.inside = {stack[i].move : i \in DOMAIN stack}
      /\ frame.move = new /\ ~frame.calling
  BY <1>3 DEF Range
<1>9. ASSUME stack # << >>
      PROVE  /\ Len(stack) \in DOMAIN stack /\ Top = stack[Len(stack)]
             /\ Top.calling /\ Caller = callbacks[stack[Len(stack)].next]
  <2>1. Len(stack) \in DOMAIN stack /\ Top = stack[Len(stack)]
    BY <1>1, <1>9, TopOfStack DEF HooksInv
  <2> QED
    BY <1>9, <2>1 DEF onFileMoved, InClient, Caller
<1>10. NestInv'
  <2>1. ASSUME NEW n \in DOMAIN moves'
        PROVE  moves'[n].inside \subseteq 1..(n - 1)
    <3>1. CASE n \in DOMAIN moves
      BY <1>1, <1>6, <3>1 DEF NestInv
    <3>2. CASE n = new
      <4>1. 1..(n - 1) = DOMAIN moves
        BY <1>3, <1>4, <3>2
      <4> QED
        BY <1>4, <1>6, <1>8, <3>2, <4>1
    <3> QED
      BY <1>6, <3>1, <3>2
  <2>2. ASSUME NEW j \in DOMAIN stack'
        PROVE  moves'[stack'[j].move].inside = {stack'[i].move : i \in 1..(j - 1)}
    <3>1. \A i \in 1..(j - 1) : i \in DOMAIN stack /\ stack'[i] = stack[i]
      BY <1>4, <1>7
    <3>2. {stack'[i].move : i \in 1..(j - 1)} = {stack[i].move : i \in 1..(j - 1)}
      BY <3>1
    <3>3. CASE j \in DOMAIN stack
      <4>1. moves[stack[j].move].inside = {stack[i].move : i \in 1..(j - 1)}
        BY <1>1, <3>3 DEF NestInv
      <4>2. moves'[stack'[j].move] = moves[stack[j].move]
        BY <1>4, <1>6, <1>7, <3>3
      <4> QED
        BY <3>2, <4>1, <4>2
    <3>4. CASE j = Len(stack) + 1
      <4>1. 1..(j - 1) = DOMAIN stack
        BY <1>4, <3>4
      <4> QED
        BY <1>6, <1>7, <1>8, <3>2, <3>4, <4>1
    <3> QED
      BY <1>7, <3>3, <3>4
  <2>3. ASSUME NEW i \in DOMAIN stack', i < Len(stack')
        PROVE  /\ stack'[i].calling
               /\ moves'[stack'[i + 1].move].by = callbacks'[stack'[i].next]
    <3>1. i \in DOMAIN stack /\ i <= Len(stack) /\ stack # << >>
      BY <1>4, <1>7, <2>3
    <3>2. CASE i < Len(stack)
      <4>1. i + 1 \in DOMAIN stack
        BY <1>4, <3>1, <3>2
      <4>2. stack[i].calling /\ moves[stack[i + 1].move].by = callbacks[stack[i].next]
        BY <1>1, <3>1, <3>2 DEF NestInv
      <4>3. moves'[stack'[i + 1].move] = moves[stack[i + 1].move]
        BY <1>4, <1>6, <1>7, <4>1
      <4> QED
        BY <1>2, <1>7, <3>1, <4>2, <4>3
    <3>3. CASE i = Len(stack)
      <4>1. stack'[i + 1] = frame /\ stack'[i] = stack[i]
        BY <1>7, <3>1, <3>3
      <4> QED
        BY <1>2, <1>6, <1>8, <1>9, <3>1, <3>3, <4>1
    <3> QED
      BY <1>4, <3>1, <3>2, <3>3
  <2> QED
    BY <2>1, <2>2, <2>3 DEF NestInv
<1>11. RunningInv'
  <2> SUFFICES ASSUME NEW i \in DOMAIN stack', NEW n \in DOMAIN moves',
                      n > stack'[i].move
               PROVE  (/\ stack[i].move \in moves[n].inside
                       /\ \E p \in 1..Called(stack[i]) :
                            ToldOf(stack[i].move, n) = callbacks[p])'
    BY DEF RunningInv
  <2>1. i \in DOMAIN stack
    BY <1>6, <1>7, <1>8
  <2>2. PICK m, c : m = stack[i].move /\ c = Called(stack[i])
    OBVIOUS
  <2>3. /\ c \in 0..Len(callbacks) /\ stack'[i] = stack[i] /\ c = Called(stack[i])'
        /\ m \in Nat /\ n > m /\ Len(callbacks) \in Nat
    BY <1>1, <1>4, <1>7, <2>1, <2>2, StackTyped DEF Called
  <2>4. m \in moves'[n].inside /\ \E p \in 1..c : ToldOf(m, n)' = callbacks'[p]
    <3>1. CASE n \in DOMAIN moves
      BY <1>1, <1>2, <1>6, <2>1, <2>2, <2>3, <3>1, RunningStays
    <3>2. CASE n = new
      <4>1. PICK inside \in SUBSET (1..(new - 1)) :
              inside = {stack[k].move : k \in DOMAIN stack} /\ moves'[n].inside = inside
        <5>1. {stack[k].move : k \in DOMAIN stack} \in SUBSET (1..(new - 1))
          BY <1>3, <1>4
        <5> QED
          BY <1>6, <1>8, <3>2, <5>1
      <4>2. stack # << >>
        BY <2>1
      <4>3. Len(stack) \in DOMAIN stack /\ Top = stack[Len(stack)] /\ Top.calling
            /\ Caller = callbacks[stack[Len(stack)].next]
        BY <1>9, <4>2
      <4>4. stack[i].calling /\ ToldOf(m, n)' = callbacks[stack[i].next]
        <5>1. ToldOf(m, n)' = moves'[Min({k \in inside \cup {n} : k > m})].by
          BY <4>1 DEF ToldOf
        <5>2. CASE i < Len(stack)
          <6>1. /\ Min({k \in inside \cup {n} : k > stack[i].move}) = stack[i + 1].move
                /\ moves[stack[i + 1].move].by = callbacks[stack[i].next]
                /\ stack[i].calling
            BY <1>1, <1>6, <2>1, <2>2, <2>3, <3>2, <4>1, <5>2, ToldOfRunning
          <6>2. i + 1 \in DOMAIN stack
            BY <1>4, <2>1, <5>2
          <6> QED
            BY <1>4, <1>6, <2>2, <5>1, <6>1, <6>2
        <5>3. CASE i = Len(stack)
          <6>1. \A k \in inside : ~(k > m)
            <7>1. \A k \in DOMAIN stack : stack[k].move <= m
              <8> SUFFICES ASSUME NEW k \in DOMAIN stack PROVE stack[k].move <= m
                OBVIOUS
              <8>1. k = i \/ k < i
                BY <1>4, <5>3
              <8>2. stack[k].move \in Nat
                BY <1>4
              <8> QED
                BY <1>1, <2>1, <2>2, <2>3, <8>1, <8>2, StackTyped
            <7> QED
              BY <1>4, <2>3, <4>1, <7>1
          <6>2. {k \in inside \cup {n} : k > m} = {n}
            BY <2>3, <6>1
          <6>3. Min({n}) = n
            BY <1>6, <3>2 DEF Min
          <6> QED
            BY <1>6, <1>8, <3>2, <4>3, <5>1, <5>3, <6>2, <6>3
        <5> QED
          BY <1>4, <2>1, <5>2, <5>3
      <4>5. c = stack[i].next /\ c \in 1..c
        BY <1>1, <2>1, <2>2, <4>4, StackTyped DEF Called
      <4>6. m \in inside
        BY <2>1, <2>2, <4>1
      <4> QED
        BY <1>2, <4>1, <4>4, <4>5, <4>6
    <3> QED
      BY <1>6, <3>1, <3>2
  <2> QED
    BY <2>2, <2>3, <2>4 DEF ToldOf
<1>12. OrderInv'
  BY <1>1, <1>2, <1>6, OrderStays
<1> QED
  BY <1>10, <1>11, <1>12 DEF NestingInv

(* A step of the innermost loop leaves the nesting as it is.               *)
LEMMA TopNests ==
  ASSUME NestingInv, HooksInv', moves' = moves, callbacks' = callbacks,
         DOMAIN stack' = DOMAIN stack,
         \A i \in DOMAIN stack :
           /\ stack'[i].move = stack[i].move
           /\ i < Len(stack) => stack'[i] = stack[i]
           /\ Called(stack[i]) <= Called(stack[i])'
  PROVE  NestInv' /\ RunningInv'
<1>1. HooksInv /\ NestInv /\ RunningInv
  BY DEF NestingInv
<1>2. /\ Len(stack) \in Nat /\ DOMAIN stack = 1..Len(stack)
      /\ Len(stack') \in Nat /\ DOMAIN stack' = 1..Len(stack')
      /\ Len(stack') = Len(stack)
  <2>1. Len(stack) \in Nat /\ DOMAIN stack = 1..Len(stack)
    BY <1>1, StackTyped
  <2>2. Len(stack') \in Nat /\ DOMAIN stack' = 1..Len(stack')
    BY NextStack
  <2> QED
    BY <2>1, <2>2
<1>3. NestInv'
  <2>1. ASSUME NEW j \in DOMAIN stack
        PROVE  {stack'[i].move : i \in 1..(j - 1)} = {stack[i].move : i \in 1..(j - 1)}
    <3>1. 1..(j - 1) \subseteq DOMAIN stack
      BY <1>2
    <3> QED
      BY <3>1
  <2>2. ASSUME NEW i \in DOMAIN stack, i < Len(stack)
        PROVE  /\ stack'[i].calling
               /\ moves[stack'[i + 1].move].by = callbacks[stack'[i].next]
    <3>1. i + 1 \in DOMAIN stack /\ stack'[i] = stack[i]
      BY <1>2, <2>2
    <3> QED
      BY <1>1, <2>2, <3>1 DEF NestInv
  <2>3. \A n \in DOMAIN moves : moves[n].inside \subseteq 1..(n - 1)
    BY <1>1 DEF NestInv
  <2>4. \A j \in DOMAIN stack :
          moves[stack'[j].move].inside = {stack'[i].move : i \in 1..(j - 1)}
    BY <1>1, <2>1 DEF NestInv
  <2> QED
    BY <1>2, <2>2, <2>3, <2>4 DEF NestInv
<1>4. RunningInv'
  <2> SUFFICES ASSUME NEW i \in DOMAIN stack, NEW n \in DOMAIN moves, n > stack[i].move
               PROVE  (/\ stack[i].move \in moves[n].inside
                       /\ \E p \in 1..Called(stack[i]) :
                            ToldOf(stack[i].move, n) = callbacks[p])'
    BY DEF RunningInv
  <2>1. PICK m, c : m = stack[i].move /\ c = Called(stack[i])'
    OBVIOUS
  <2>2. c \in Nat
    <3>1. i \in DOMAIN stack'
      OBVIOUS
    <3> QED
      BY <2>1, <3>1, NextStack DEF Called
  <2>3. m \in moves'[n].inside /\ \E p \in 1..c : ToldOf(m, n)' = callbacks'[p]
    <3>1. \A p \in DOMAIN callbacks : callbacks'[p] = callbacks[p]
      OBVIOUS
    <3>2. \A k \in DOMAIN moves :
            moves'[k].by = moves[k].by /\ moves'[k].inside = moves[k].inside
      OBVIOUS
    <3>3. m = stack[i].move
      BY <2>1
    <3>4. c \in Nat /\ Called(stack[i]) <= c /\ n > m
      BY <2>1, <2>2
    <3> QED
      BY <1>1, <3>1, <3>2, <3>3, <3>4, RunningStays, SMTT(60)
  <2> QED
    BY <2>1, <2>3 DEF ToldOf
<1> QED
  BY <1>3, <1>4

(* The next hook hears of the innermost move: after the moves that were    *)
(* made inside of it, if they told it, and after all that are over.        *)
LEMMA CallNests == NestingInv /\ HooksInv' /\ CallHook => NestingInv'
<1> SUFFICES ASSUME NestingInv, HooksInv', CallHook PROVE NestingInv'
  OBVIOUS
<1>1. /\ HooksInv /\ NestInv /\ RunningInv /\ OrderInv
      /\ Typed /\ CallbacksInv /\ MovesInv
  BY DEF NestingInv, HooksInv
<1>2. stack # << >> /\ ~Top.calling /\ Top.next <= Top.end
  BY DEF CallHook
<1>3. UNCHANGED <<callbacks, moves>>
  BY DEF CallHook, vector
<1>4. PICK t, next, last :
        /\ t = Top.move /\ next = Top.next /\ last = Len(stack)
        /\ Top = stack[last] /\ last \in DOMAIN stack /\ Top \in Frame
  BY <1>1, <1>2, TopOfStack
<1>5. /\ next \in 1..Len(callbacks) /\ t \in DOMAIN moves /\ t \in 1..MaxMoves
      /\ callbacks[next] \in Hook
      /\ Len(callbacks) \in Nat /\ DOMAIN callbacks = 1..Len(callbacks)
      /\ Called(stack[last]) = next - 1
  <2>1. /\ LoopInv(Top) /\ Top.move \in 1..MaxMoves
        /\ Len(moves[Top.move].audience) \in Nat
        /\ Len(moves[Top.move].audience) <= Len(callbacks)
    BY <1>1, <1>2, TopLoop
  <2>2. Len(callbacks) \in Nat /\ DOMAIN callbacks = 1..Len(callbacks)
    BY <1>1 DEF Typed
  <2>3. next \in 1..Len(callbacks) /\ t \in DOMAIN moves
    BY <1>2, <1>4, <2>1, <2>2 DEF LoopInv
  <2>4. callbacks[next] \in Hook
    BY <1>1, <2>2, <2>3 DEF Typed
  <2> QED
    BY <1>2, <1>4, <2>1, <2>2, <2>3, <2>4 DEF Called
<1>6. PICK who \in Hook : who = callbacks[next]
  BY <1>5
<1>7. /\ heard' = [heard EXCEPT ![who] = Append(@, t)]
      /\ SetTop([Top EXCEPT !.calling = TRUE])
  BY <1>4, <1>6 DEF CallHook
<1>8. PICK frame \in Frame :
        SetTop(frame) /\ frame.move = t /\ frame.next = next /\ frame.calling
  <2>1. PICK frame : frame = [Top EXCEPT !.calling = TRUE]
    OBVIOUS
  <2>2. /\ frame \in Frame /\ frame.move = t /\ frame.next = next
        /\ frame.calling
    BY <1>4, <2>1 DEF Frame
  <2> QED
    BY <1>7, <2>1, <2>2
<1>9. /\ DOMAIN stack' = DOMAIN stack /\ stack'[last] = frame
      /\ \A i \in DOMAIN stack : i # last => stack'[i] = stack[i]
  BY <1>1, <1>2, <1>4, <1>8, ReplacedTop
<1>10. NestInv' /\ RunningInv'
  <2> SUFFICES ASSUME NEW i \in DOMAIN stack
               PROVE  /\ stack'[i].move = stack[i].move
                      /\ i < Len(stack) => stack'[i] = stack[i]
                      /\ Called(stack[i]) <= Called(stack[i])'
    BY <1>3, <1>9, TopNests
  <2>1. CASE i = last
    BY <1>4, <1>5, <1>8, <1>9, <2>1 DEF Called
  <2>2. CASE i # last
    <3>1. Called(stack[i]) \in Nat
      BY <1>1, StackTyped
    <3> QED
      BY <1>9, <2>2, <3>1 DEF Called
  <2> QED
    BY <1>4, <2>1, <2>2
<1>11. /\ \A h \in Hook : heard[h] \in Seq(1..MaxMoves)
       /\ DOMAIN heard = Hook
       /\ heard'[who] = Append(heard[who], t)
       /\ \A h \in Hook : h # who => heard'[h] = heard[h]
  BY <1>1, <1>7 DEF Typed
<1>12. PICK new : new = Len(heard[who]) + 1
  OBVIOUS
<1>13. /\ Len(heard[who]) \in Nat /\ DOMAIN heard[who] = 1..Len(heard[who])
       /\ DOMAIN heard'[who] = 1..new /\ heard'[who][new] = t
       /\ \A i \in DOMAIN heard[who] :
            heard'[who][i] = heard[who][i] /\ i < new /\ ~(new < i)
       /\ \A i \in DOMAIN heard'[who] : i \in DOMAIN heard[who] \/ i = new
  BY <1>5, <1>11, <1>12
<1>14. \A h \in Hook : \A i \in DOMAIN heard[h] :
         heard[h][i] \in DOMAIN moves /\ heard[h][i] \in Nat
  BY <1>1, StackTyped DEF MovesInv
(* An older move that was heard of before t: not from behind who.          *)
<1>15. ASSUME NEW i \in DOMAIN heard[who], heard[who][i] < t,
              heard[who][i] \in moves[t].inside
       PROVE  ~Earlier(callbacks, ToldOf(heard[who][i], t), who)
  <2>1. moves[t].inside = {stack[k].move : k \in 1..(last - 1)}
    BY <1>1, <1>4 DEF NestInv
  <2>2. PICK k \in DOMAIN stack : k < last /\ heard[who][i] = stack[k].move
    <3>1. PICK k \in 1..(last - 1) : heard[who][i] = stack[k].move
      BY <1>15, <2>1
    <3>2. k \in DOMAIN stack /\ k < last
      BY <1>1, <1>4, StackTyped
    <3> QED
      BY <3>1, <3>2
  <2>3. PICK m, inside : m = stack[k].move /\ inside = moves[t].inside
    OBVIOUS
  <2>4. /\ t \in Nat /\ inside \in SUBSET (1..(t - 1)) /\ m < t
    BY <1>1, <1>5, <1>15, <2>2, <2>3, StackTyped DEF NestInv
  <2>5. /\ Min({l \in inside \cup {t} : l > stack[k].move}) = stack[k + 1].move
        /\ moves[stack[k + 1].move].by = callbacks[stack[k].next]
        /\ stack[k].calling
    <3>1. /\ k < last /\ t = stack[last].move
          /\ inside = {stack[l].move : l \in 1..(last - 1)}
      BY <1>4, <2>1, <2>2, <2>3
    <3>2. stack[k].move < t
      BY <2>3, <2>4
    <3> QED
      BY <1>1, <1>4, <2>4, <3>1, <3>2, ToldOfRunning
  <2>6. ToldOf(m, t) = callbacks[stack[k].next]
    BY <2>3, <2>5 DEF ToldOf
  <2>7. PICK q \in 1..Called(stack[k]) : callbacks[q] = who
    BY <1>1, <2>2, HeardIsCalled
  <2>8. /\ stack[k].next \in 1..Len(callbacks) /\ q <= stack[k].next /\ q \in DOMAIN callbacks
    BY <1>1, <1>5, <2>5, <2>7, StackTyped DEF Called
  <2>9. ASSUME NEW a \in DOMAIN callbacks, NEW b \in DOMAIN callbacks, a < b,
               callbacks[a] = callbacks[stack[k].next], callbacks[b] = who
        PROVE  FALSE
    <3>1. a = stack[k].next /\ b = q
      BY <1>1, <1>5, <2>7, <2>8, <2>9 DEF CallbacksInv
    <3> QED
      BY <1>5, <2>8, <2>9, <3>1
  <2> QED
    BY <2>2, <2>3, <2>6, <2>9 DEF Earlier
(* A later move that was heard of before t: from in front of who.          *)
<1>16. ASSUME NEW j \in DOMAIN heard[who], t < heard[who][j]
       PROVE  /\ t \in moves[heard[who][j]].inside
              /\ Earlier(callbacks, ToldOf(t, heard[who][j]), who)
  <2>1. PICK n \in DOMAIN moves : n = heard[who][j] /\ n > stack[last].move
    BY <1>4, <1>5, <1>14, <1>16, StackTyped, <1>1
  <2>2. /\ stack[last].move \in moves[n].inside
        /\ \E p \in 1..Called(stack[last]) : ToldOf(stack[last].move, n) = callbacks[p]
    BY <1>1, <1>4, <2>1 DEF RunningInv
  <2>3. PICK p \in 1..(next - 1) : ToldOf(t, n) = callbacks[p]
    BY <1>4, <1>5, <2>2
  <2>4. p \in DOMAIN callbacks /\ next \in DOMAIN callbacks /\ p < next
    BY <1>5
  <2> QED
    BY <1>4, <1>6, <2>1, <2>2, <2>3, <2>4 DEF Earlier
<1>17. OrderInv'
  <2> SUFFICES ASSUME NEW h \in Hook, NEW i \in DOMAIN heard'[h],
                      NEW j \in DOMAIN heard'[h], heard'[h][i] < heard'[h][j]
               PROVE  j < i <=>
                        /\ heard'[h][i] \in moves[heard'[h][j]].inside
                        /\ Earlier(callbacks, ToldOf(heard'[h][i], heard'[h][j]), h)
    BY <1>3 DEF OrderInv, ToldOf
  <2>1. CASE h # who
    BY <1>1, <1>11, <2>1 DEF OrderInv
  <2>2. CASE h = who
    <3>1. CASE i \in DOMAIN heard[who] /\ j \in DOMAIN heard[who]
      BY <1>1, <1>13, <2>2, <3>1 DEF OrderInv
    <3>2. CASE i \in DOMAIN heard[who] /\ j = new
      <4>1. heard'[h][i] = heard[who][i] /\ heard'[h][j] = t /\ ~(j < i)
        BY <1>13, <2>2, <3>2
      <4> QED
        BY <1>15, <2>2, <3>2, <4>1
    <3>3. CASE i = new /\ j \in DOMAIN heard[who]
      <4>1. heard'[h][j] = heard[who][j] /\ heard'[h][i] = t /\ j < i
        BY <1>13, <2>2, <3>3
      <4> QED
        BY <1>16, <2>2, <3>3, <4>1
    <3>4. CASE i = new /\ j = new
      <4>1. heard'[h][j] = t /\ heard'[h][i] = t /\ ~(t < t)
        BY <1>5, <1>13, <2>2, <3>4
      <4> QED
        BY <4>1
    <3> QED
      BY <1>13, <2>2, <3>1, <3>2, <3>3, <3>4
  <2> QED
    BY <2>1, <2>2
<1> QED
  BY <1>10, <1>17 DEF NestingInv

(* A hook that returns has told nobody of anything.                        *)
LEMMA ReturnNests == NestingInv /\ HooksInv' /\ HookReturns => NestingInv'
<1> SUFFICES ASSUME NestingInv, HooksInv', HookReturns PROVE NestingInv'
  OBVIOUS
<1>1. HooksInv /\ NestInv /\ RunningInv /\ OrderInv /\ Typed
  BY DEF NestingInv, HooksInv
<1>2. stack # << >> /\ Top.calling
  BY DEF HookReturns, InClient
<1>3. UNCHANGED <<callbacks, heard, moves>>
  BY DEF HookReturns, vector
<1>4. PICK last : /\ last = Len(stack) /\ Top = stack[last] /\ last \in DOMAIN stack
                  /\ Top \in Frame
  BY <1>1, <1>2, TopOfStack
<1>5. \A i \in DOMAIN stack : Called(stack[i]) \in Nat
  BY <1>1, StackTyped
<1>6. NestInv' /\ RunningInv'
  <2>1. CASE Top.dangling
    <3>1. stack' = stack
      BY <2>1 DEF HookReturns
    <3>2. \A i \in DOMAIN stack : Called(stack[i]) <= Called(stack[i])'
      BY <1>5, <3>1 DEF Called
    <3> QED
      BY <1>3, <3>1, <3>2, TopNests
  <2>2. CASE ~Top.dangling
    <3>1. PICK called : called = [Top EXCEPT !.calling = FALSE]
      OBVIOUS
    <3>2. /\ called \in Frame /\ called.move = Top.move /\ called.next = Top.next
          /\ ~called.calling /\ Top.next \in Nat
      BY <1>4, <3>1 DEF Frame
    <3>3. PICK frame : frame = [called EXCEPT !.next = Top.next + 1]
      OBVIOUS
    <3>4. /\ frame \in Frame /\ frame.move = Top.move /\ frame.next = Top.next + 1
          /\ ~frame.calling
      BY <3>2, <3>3 DEF Frame
    <3>5. SetTop(frame)
      BY <2>2, <3>1, <3>3 DEF HookReturns
    <3>6. /\ DOMAIN stack' = DOMAIN stack /\ stack'[last] = frame
          /\ \A i \in DOMAIN stack : i # last => stack'[i] = stack[i]
      BY <1>1, <1>2, <1>4, <3>4, <3>5, ReplacedTop
    <3> SUFFICES ASSUME NEW i \in DOMAIN stack
                 PROVE  /\ stack'[i].move = stack[i].move
                        /\ i < Len(stack) => stack'[i] = stack[i]
                        /\ Called(stack[i]) <= Called(stack[i])'
      BY <1>3, <3>6, TopNests
    <3>7. CASE i = last
      BY <1>2, <1>4, <3>2, <3>4, <3>6, <3>7 DEF Called
    <3>8. CASE i # last
      BY <1>5, <3>6, <3>8 DEF Called
    <3> QED
      BY <1>4, <3>7, <3>8
  <2> QED
    BY <2>1, <2>2
<1>7. OrderInv'
  BY <1>1, <1>3, OrderStays
<1> QED
  BY <1>6, <1>7 DEF NestingInv

(* A move that is over, or that threw, keeps what was heard of it.         *)
LEMMA LeftNests ==
  ASSUME NestingInv, HooksInv', stack # << >>, stack' = Front(stack),
         UNCHANGED <<callbacks, heard>>,
         NEW end \in {"returned", "threw"},
         moves' = [moves EXCEPT ![Top.move].state = end]
  PROVE  NestingInv'
<1>1. HooksInv /\ NestInv /\ RunningInv /\ OrderInv /\ Typed
  BY DEF NestingInv, HooksInv
<1>2. /\ Len(stack) \in Nat \ {0} /\ DOMAIN stack = 1..Len(stack)
      /\ Len(stack') \in Nat /\ DOMAIN stack' = 1..Len(stack')
      /\ DOMAIN stack' = 1..(Len(stack) - 1)
      /\ \A i \in DOMAIN stack' : i \in DOMAIN stack /\ stack'[i] = stack[i]
  <2>1. Len(stack) \in Nat \ {0} /\ DOMAIN stack = 1..Len(stack)
    BY <1>1, TopOfStack
  <2>2. Len(stack') \in Nat /\ DOMAIN stack' = 1..Len(stack')
    BY NextStack
  <2>3. /\ DOMAIN stack' = 1..(Len(stack) - 1)
        /\ \A i \in DOMAIN stack' : i \in DOMAIN stack /\ stack'[i] = stack[i]
    BY <1>1, EndedTop
  <2> QED
    BY <2>1, <2>2, <2>3
<1>3. Len(stack') < Len(stack)
  BY <1>2
<1>4. /\ DOMAIN moves' = DOMAIN moves
      /\ \A k \in DOMAIN moves :
           moves'[k].by = moves[k].by /\ moves'[k].inside = moves[k].inside
  <2>1. \A k \in DOMAIN moves : moves[k] \in Move
    BY <1>1, MoveTyped
  <2> QED
    BY <2>1 DEF Move
<1>5. \A i \in DOMAIN stack : stack[i].move \in DOMAIN moves
  BY <1>1, StackTyped
<1>6. NestInv'
  <2>1. \A n \in DOMAIN moves' : moves'[n].inside \subseteq 1..(n - 1)
    BY <1>1, <1>4 DEF NestInv
  <2>2. ASSUME NEW j \in DOMAIN stack'
        PROVE  moves'[stack'[j].move].inside = {stack'[i].move : i \in 1..(j - 1)}
    <3>1. 1..(j - 1) \subseteq DOMAIN stack'
      BY <1>2
    <3>2. {stack'[i].move : i \in 1..(j - 1)} = {stack[i].move : i \in 1..(j - 1)}
      BY <1>2, <3>1
    <3>3. moves[stack[j].move].inside = {stack[i].move : i \in 1..(j - 1)}
      BY <1>1, <1>2 DEF NestInv
    <3> QED
      BY <1>2, <1>4, <1>5, <3>2, <3>3
  <2>3. ASSUME NEW i \in DOMAIN stack', i < Len(stack')
        PROVE  /\ stack'[i].calling
               /\ moves'[stack'[i + 1].move].by = callbacks[stack'[i].next]
    <3>1. i + 1 \in DOMAIN stack' /\ i < Len(stack) /\ i \in DOMAIN stack
      BY <1>2, <1>3, <2>3
    <3> QED
      BY <1>1, <1>2, <1>4, <1>5, <3>1 DEF NestInv
  <2> QED
    BY <2>1, <2>2, <2>3 DEF NestInv
<1>7. RunningInv'
  <2> SUFFICES ASSUME NEW i \in DOMAIN stack', NEW n \in DOMAIN moves, n > stack'[i].move
               PROVE  (/\ stack[i].move \in moves[n].inside
                       /\ \E p \in 1..Called(stack[i]) :
                            ToldOf(stack[i].move, n) = callbacks[p])'
    BY <1>4 DEF RunningInv
  <2>1. PICK m, c : m = stack[i].move /\ c = Called(stack[i])
    OBVIOUS
  <2>2. i \in DOMAIN stack /\ stack'[i] = stack[i] /\ c \in 0..Len(callbacks)
        /\ Len(callbacks) \in Nat
    BY <1>1, <1>2, <2>1, StackTyped
  <2>3. m \in moves'[n].inside /\ \E p \in 1..c : ToldOf(m, n)' = callbacks'[p]
    <3>1. \A p \in DOMAIN callbacks : callbacks'[p] = callbacks[p]
      OBVIOUS
    <3>2. m = stack[i].move
      BY <2>1
    <3>3. c \in Nat /\ Called(stack[i]) <= c /\ n > m
      BY <2>1, <2>2
    <3> QED
      BY <1>1, <1>4, <2>2, <3>1, <3>2, <3>3, RunningStays, SMTT(60)
  <2>4. c = Called(stack[i])' /\ m = stack'[i].move
    BY <2>1, <2>2 DEF Called
  <2> QED
    BY <2>3, <2>4 DEF ToldOf
<1>8. OrderInv'
  BY <1>1, <1>4, OrderStays
<1> QED
  BY <1>6, <1>7, <1>8 DEF NestingInv

(* Nothing changes in a step of something else.                            *)
LEMMA StutterNests == NestingInv /\ HooksInv' /\ UNCHANGED vars => NestingInv'
<1> SUFFICES ASSUME NestingInv, HooksInv', UNCHANGED vars PROVE NestingInv'
  OBVIOUS
<1>1. UNCHANGED <<callbacks, stack, heard, moves>>
  BY DEF vars
<1>2. NestInv /\ RunningInv /\ OrderInv
  BY DEF NestingInv
<1>3. NestInv'
  BY <1>1, <1>2 DEF NestInv
<1>4. RunningInv'
  BY <1>1, <1>2 DEF RunningInv, Called, ToldOf
<1>5. OrderInv'
  BY <1>1, <1>2 DEF OrderInv, ToldOf
<1> QED
  BY <1>3, <1>4, <1>5 DEF NestingInv

(* In the beginning nobody has heard of anything.                          *)
LEMMA InitNests == Init => NestingInv
<1> SUFFICES ASSUME Init PROVE NestingInv
  OBVIOUS
<1>1. HooksInv
  BY HooksInit
<1>2. DOMAIN moves = {} /\ DOMAIN stack = {}
  BY DEF Init
<1>3. \A h \in Hook : DOMAIN heard[h] = {}
  BY DEF Init
<1> QED
  BY <1>1, <1>2, <1>3 DEF NestingInv, NestInv, RunningInv, OrderInv

(* A hook hears of a later move before an earlier one exactly if a hook in *)
(* front of it made the later one when it was told of the earlier one.     *)
THEOREM OnlyNestingInverts == Spec => []OrderInvertedByNesting
<1>1. NestingInv /\ [Next]_vars => NestingInv'
  <2> SUFFICES ASSUME NestingInv, [Next]_vars PROVE NestingInv'
    OBVIOUS
  <2>1. HooksInv'
    BY HooksStep DEF NestingInv
  <2>2. CASE registerHook
    BY <2>1, <2>2, RegisterNests
  <2>3. CASE onFileMoved
    BY <2>1, <2>3, MovedNests
  <2>4. CASE CallHook
    BY <2>1, <2>4, CallNests
  <2>5. CASE HookReturns
    BY <2>1, <2>5, ReturnNests
  <2>6. CASE HookThrows
    BY <2>1, <2>6, LeftNests DEF HookThrows, vector
  <2>7. CASE LoopEnds
    BY <2>1, <2>7, LeftNests DEF LoopEnds, vector
  <2>8. CASE UNCHANGED vars
    BY <2>1, <2>8, StutterNests
  <2> QED
    BY <2>2, <2>3, <2>4, <2>5, <2>6, <2>7, <2>8 DEF Next
<1>2. NestingInv => OrderInvertedByNesting
  <2> SUFFICES ASSUME NestingInv, NEW h \in Hook,
                      NEW m \in Range(heard[h]), NEW n \in Range(heard[h]), m < n
               PROVE  Earlier(heard[h], n, m) <=>
                        m \in moves[n].inside /\ Earlier(callbacks, ToldOf(m, n), h)
    BY DEF OrderInvertedByNesting
  <2>1. PICK i, j \in DOMAIN heard[h] : heard[h][i] = m /\ heard[h][j] = n
    BY DEF Range
  <2>2. \A k, l \in DOMAIN heard[h] : heard[h][k] = m /\ heard[h][l] = n =>
          (l < k <=> m \in moves[n].inside /\ Earlier(callbacks, ToldOf(m, n), h))
    BY DEF NestingInv, OrderInv
  <2> QED
    BY <2>1, <2>2 DEF Earlier
<1> QED
  BY <1>1, <1>2, InitNests, PTL DEF Spec
=============================================================================
