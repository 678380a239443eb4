---------------------------- MODULE UtilsLog_proofs ----------------------------
(***************************************************************************)
(* The logger implements LogFifo when Init was called first, and nothing   *)
(* is written twice when it was not, for any number of loggers, workers    *)
(* and messages.                                                           *)
(***************************************************************************)
EXTENDS UtilsLog, TLAPS, SequenceTheorems

(* A logger on its way through Log has a message left.                     *)
RoomInv == \A t \in Logger : lpc[t] # "idle" => count[t] < Limit

(* With one worker nothing gets lost on the way, and the message that its  *)
(* unlocked test saw is still there.                                       *)
Alone(w) == \A v \in Worker \ {w} : wpc[v] = "none"
OrderInv ==
  \A w \in Worker : Alone(w) =>
    /\ written \o taken[w] \o list = logged
    /\ wpc[w] = "pop" => list # <<>>
    /\ ~broken

(* With Init called first there is one worker.                             *)
EagerInv ==
  eager => /\ bInit /\ \A t \in Logger : lpc[t] # "init"
           /\ \E w \in Worker : Alone(w) /\ wpc[w] # "none"

(* What the worker saw when it found the list empty is written.            *)
SeenInv ==
  /\ seen <= Len(logged)
  /\ eager => \A w \in Worker : wpc[w] \in {"empty", "ended"} => Len(written) >= seen

(* When Exit has returned, the worker has ended and no other comes.        *)
ExitInv == eager /\ main = "exited" => \A w \in Worker : ~Live(w)

(* Each message is in one place: the list, a worker's hand, or written.    *)
Elems(s) == {s[i] : i \in 1..Len(s)}
Distinct(s) == \A i, j \in 1..Len(s) : s[i] = s[j] => i = j
PlaceInv ==
  /\ \A m \in Elems(logged) : m[2] <= count[m[1]]
  /\ Distinct(list) /\ Distinct(written)
  /\ Elems(list) \subseteq Elems(logged) /\ Elems(written) \subseteq Elems(logged)
  /\ Elems(list) \cap Elems(written) = {}
  /\ \A w \in Worker : \A m \in Message : taken[w] = <<m>> =>
       /\ m \in Elems(logged) /\ m \notin Elems(list) /\ m \notin Elems(written)
       /\ \A v \in Worker : taken[v] = <<m>> => v = w

-----------------------------------------------------------------------------
LEMMA TypeInit == Init => TypeOK /\ RoomInv
<1> SUFFICES ASSUME Init PROVE TypeOK /\ RoomInv
  OBVIOUS
<1>1. /\ list \in Seq(Message) /\ logged \in Seq(Message) /\ written \in Seq(Message)
  BY DEF Init
<1>2. /\ eager \in BOOLEAN /\ bInit \in BOOLEAN /\ logExit \in BOOLEAN /\ broken \in BOOLEAN
  BY Zenon DEF Init
<1>3. /\ wpc \in [Worker -> {"none", "created", "loop", "pop", "write", "empty", "ended"}]
      /\ \A w \in Worker : wpc[w] # "write"
  BY DEF Init
<1>4. /\ taken \in [Worker -> {<<>>} \cup {<<m>> : m \in Message}]
      /\ \A w \in Worker : taken[w] = <<>>
  BY DEF Init
<1>5. /\ lpc \in [Logger -> {"idle", "init", "push"}] /\ count \in [Logger -> 0..Limit]
      /\ \A t \in Logger : lpc[t] = "idle"
      /\ main \in {"run", "join", "exited"} /\ seen \in Nat
  BY UtilsLogAssumption DEF Init
<1> QED
  BY <1>1, <1>2, <1>3, <1>4, <1>5, Zenon DEF TypeOK, RoomInv

(* The worker's part of TypeOK: it has a message while it writes.          *)
HandType ==
  /\ wpc \in [Worker -> {"none", "created", "loop", "pop", "write", "empty", "ended"}]
  /\ taken \in [Worker -> {<<>>} \cup {<<m>> : m \in Message}]
  /\ \A w \in Worker : wpc[w] = "write" <=> taken[w] # <<>>
LoggerType ==
  /\ lpc \in [Logger -> {"idle", "init", "push"}] /\ count \in [Logger -> 0..Limit]
  /\ RoomInv
ListType ==
  /\ list \in Seq(Message) /\ logged \in Seq(Message) /\ written \in Seq(Message)
  /\ seen \in Nat /\ main \in {"run", "join", "exited"}
FlagType ==
  /\ eager \in BOOLEAN /\ bInit \in BOOLEAN /\ logExit \in BOOLEAN /\ broken \in BOOLEAN

LEMMA TypeParts == TypeOK /\ RoomInv <=> HandType /\ LoggerType /\ ListType /\ FlagType
BY DEF TypeOK, HandType, LoggerType, ListType, FlagType

LEMMA FlagStep == FlagType /\ [Next]_vars => FlagType'
<1> SUFFICES ASSUME FlagType, [Next]_vars PROVE FlagType'
  OBVIOUS
<1>1. /\ eager' = eager /\ bInit' \in {bInit, TRUE} /\ logExit' \in {logExit, TRUE, FALSE}
      /\ broken' \in {broken, TRUE}
  BY Zenon DEF Next, vars, LogCall, LazyInit, Push, Work, Start, Test, Pop, Write, TestExit, Main,
         Exit, Joined
<1> QED
  BY <1>1, Zenon DEF FlagType

LEMMA LoggerStep == LoggerType /\ [Next]_vars => LoggerType'
<1> SUFFICES ASSUME LoggerType, [Next]_vars PROVE LoggerType'
  OBVIOUS
<1>1. CASE UNCHANGED <<lpc, count>>
  BY <1>1 DEF LoggerType, RoomInv
<1>2. ASSUME NEW t \in Logger, LogCall(t) \/ LazyInit(t) \/ Push(t)
      PROVE  LoggerType'
  <2>1. CASE LogCall(t)
    BY <2>1 DEF LoggerType, RoomInv, LogCall
  <2>2. CASE LazyInit(t)
    BY <2>2 DEF LoggerType, RoomInv, LazyInit
  <2>3. CASE Push(t)
    <3>1. count[t] + 1 \in 0..Limit
      BY <2>3, UtilsLogAssumption DEF LoggerType, RoomInv, Push
    <3>2. /\ count' = [count EXCEPT ![t] = count[t] + 1] /\ lpc' = [lpc EXCEPT ![t] = "idle"]
      BY <2>3 DEF Push
    <3> QED
      BY <3>1, <3>2 DEF LoggerType, RoomInv
  <2> QED
    BY <1>2, <2>1, <2>2, <2>3
<1> QED
  BY <1>1, <1>2 DEF Next, vars, Work, Start, Test, Pop, Write, TestExit, Main, Exit, Joined

LEMMA HandStep == HandType /\ ListType /\ [Next]_vars => HandType'
<1> SUFFICES ASSUME HandType, ListType, [Next]_vars PROVE HandType'
  OBVIOUS
<1>1. CASE UNCHANGED <<wpc, taken>>
  BY <1>1 DEF HandType
<1>2. ASSUME NEW w \in Worker, NEW place \in {"created", "loop", "pop", "empty", "ended"},
             wpc[w] # "write", wpc' = [wpc EXCEPT ![w] = place], taken' = taken
      PROVE  HandType'
  BY <1>2 DEF HandType
<1>3. ASSUME NEW t \in Logger, LazyInit(t)
      PROVE  HandType'
  BY <1>3, <1>2 DEF LazyInit
<1>4. ASSUME NEW w \in Worker, Work(w)
      PROVE  HandType'
  <2>1. CASE Start(w) \/ TestExit(w)
    BY <2>1, <1>2 DEF Start, TestExit
  <2>2. CASE Test(w)
    BY <2>2, <1>2 DEF Test, AfterTest
  <2>3. CASE Pop(w)
    <3>1. CASE list # <<>>
      <4>1. Head(list) \in Message
        BY <3>1, HeadTailProperties DEF ListType
      <4>2. /\ taken' = [taken EXCEPT ![w] = <<Head(list)>>]
            /\ wpc' = [wpc EXCEPT ![w] = "write"]
        BY <3>1, <2>3 DEF Pop, PopFront
      <4> QED
        BY <4>1, <4>2 DEF HandType
    <3> QED
      BY <3>1, <2>3, <1>1 DEF Pop
  <2>4. CASE Write(w)
    BY <2>4 DEF Write, DropTaken, HandType
  <2> QED
    BY <1>4, <2>1, <2>2, <2>3, <2>4 DEF Work
<1> QED
  BY <1>1, <1>3, <1>4 DEF Next, vars, LogCall, Push, Main, Exit, Joined

(* A worker's hand is a sequence.                                          *)
LEMMA HandIsSeq ==
  ASSUME HandType, NEW w \in Worker
  PROVE  taken[w] \in Seq(Message)
<1>1. CASE taken[w] = <<>>
  BY <1>1, EmptySeq
<1>2. CASE taken[w] # <<>>
  <2>1. PICK m \in Message : taken[w] = <<m>>
    BY <1>2 DEF HandType
  <2>2. <<m>> \in Seq(Message)
    BY DEF Message
  <2> QED
    BY <2>1, <2>2
<1> QED
  BY <1>1, <1>2

(* What Push logs.                                                         *)
LEMMA PushedMessage ==
  ASSUME LoggerType, NEW t \in Logger, Push(t)
  PROVE  /\ <<t, count[t] + 1>> \in Message
         /\ list' = Append(list, <<t, count[t] + 1>>)
         /\ logged' = Append(logged, <<t, count[t] + 1>>)
         /\ count' = [count EXCEPT ![t] = count[t] + 1]
         /\ UNCHANGED <<eager, bInit, wpc, taken, written, broken, seen>>
BY UtilsLogAssumption DEF LoggerType, RoomInv, Push, PushBack, Message

LEMMA ListStep == HandType /\ LoggerType /\ ListType /\ [Next]_vars => ListType'
<1> SUFFICES ASSUME HandType, LoggerType, ListType, [Next]_vars PROVE ListType'
  OBVIOUS
<1>1. CASE UNCHANGED <<list, logged, written, seen>> /\ main' \in {main, "join", "exited"}
  BY <1>1 DEF ListType
<1>2. ASSUME NEW t \in Logger, Push(t)
      PROVE  ListType'
  <2>1. PICK m \in Message : list' = Append(list, m) /\ logged' = Append(logged, m)
    BY <1>2, PushedMessage
  <2>2. list' \in Seq(Message) /\ logged' \in Seq(Message)
    BY <2>1, AppendProperties DEF ListType
  <2> QED
    BY <2>2, <1>2 DEF Push, ListType
<1>3. ASSUME NEW w \in Worker, Work(w)
      PROVE  ListType'
  <2>1. CASE Test(w)
    <3>1. Len(logged) \in Nat
      BY LenProperties DEF ListType
    <3> QED
      BY <2>1, <3>1 DEF Test, ListType
  <2>2. CASE Pop(w)
    <3>1. list # <<>> => Tail(list) \in Seq(Message)
      BY HeadTailProperties DEF ListType
    <3> QED
      BY <2>2, <3>1 DEF Pop, PopFront, ListType
  <2>3. CASE Write(w)
    <3>1. taken[w] \in Seq(Message)
      BY HandIsSeq
    <3>2. written \o taken[w] \in Seq(Message)
      BY <3>1, ConcatProperties DEF ListType
    <3> QED
      BY <2>3, <3>2 DEF Write, ListType
  <2> QED
    BY <1>3, <1>1, <2>1, <2>2, <2>3 DEF Work, Start, TestExit
<1> QED
  BY <1>1, <1>2, <1>3 DEF Next, vars, LogCall, LazyInit, Main, Exit, Joined

LEMMA TypeStep == TypeOK /\ RoomInv /\ [Next]_vars => TypeOK' /\ RoomInv'
<1> SUFFICES ASSUME TypeOK, RoomInv, [Next]_vars PROVE TypeOK' /\ RoomInv'
  OBVIOUS
<1>1. HandType' /\ LoggerType' /\ ListType' /\ FlagType'
  BY TypeParts, HandStep, LoggerStep, ListStep, FlagStep
<1> QED
  BY <1>1 DEF TypeOK, HandType, LoggerType, ListType, FlagType

(* The type invariant of the logger: in particular, a worker has a message *)
(* in its hand exactly while it writes (UtilsLog.cpp:97-123).              *)
THEOREM TypeCorrect == Spec => []TypeOK
<1> QED
  BY TypeInit, TypeStep, PTL DEF Spec

-----------------------------------------------------------------------------
LEMMA AppendAfter ==
  ASSUME NEW S, NEW s \in Seq(S), NEW t \in Seq(S), NEW u \in Seq(S), NEW m \in S
  PROVE  s \o t \o Append(u, m) = Append(s \o t \o u, m)
<1>1. /\ s \o t \in Seq(S) /\ s \o t \o u \in Seq(S) /\ <<m>> \in Seq(S)
  BY ConcatProperties
<1>2. Append(u, m) = u \o <<m>> /\ Append(s \o t \o u, m) = (s \o t \o u) \o <<m>>
  BY <1>1, AppendIsConcat
<1>3. (s \o t) \o (u \o <<m>>) = ((s \o t) \o u) \o <<m>>
  BY <1>1, ConcatAssociative
<1> QED
  BY <1>2, <1>3

LEMMA HeadMoves ==
  ASSUME NEW S, NEW s \in Seq(S), NEW u \in Seq(S), u # <<>>
  PROVE  s \o <<Head(u)>> \o Tail(u) = s \o <<>> \o u
<1>1. /\ Head(u) \in S /\ Tail(u) \in Seq(S) /\ Len(Tail(u)) = Len(u) - 1 /\ Len(u) \in Nat
      /\ \A i \in 1..Len(Tail(u)) : Tail(u)[i] = u[i + 1]
  BY HeadTailProperties, LenProperties
<1>2. <<Head(u)>> \in Seq(S) /\ Len(<<Head(u)>>) = 1 /\ <<Head(u)>>[1] = u[1]
  BY <1>1
<1>3. /\ <<Head(u)>> \o Tail(u) \in Seq(S) /\ Len(<<Head(u)>> \o Tail(u)) = Len(u)
      /\ \A i \in 1..Len(u) : (<<Head(u)>> \o Tail(u))[i] =
           IF i <= 1 THEN <<Head(u)>>[i] ELSE Tail(u)[i - 1]
  <2>1. 1 + Len(Tail(u)) = Len(u)
    BY <1>1
  <2> QED
    BY <1>1, <1>2, <2>1, ConcatProperties
<1>4. \A i \in 1..Len(u) : (<<Head(u)>> \o Tail(u))[i] = u[i]
  <2> TAKE i \in 1..Len(u)
  <2>1. CASE i = 1
    BY <2>1, <1>2, <1>3
  <2>2. CASE i # 1
    <3>1. i - 1 \in 1..Len(Tail(u)) /\ ~(i <= 1)
      BY <2>2, <1>1
    <3> QED
      BY <3>1, <1>1, <1>3
  <2> QED
    BY <2>1, <2>2
<1>5. <<Head(u)>> \o Tail(u) = u
  BY <1>3, <1>4, SeqEqual
<1>6. s \o <<Head(u)>> \o Tail(u) = s \o (<<Head(u)>> \o Tail(u))
  BY <1>1, <1>2, ConcatAssociative
<1> QED
  BY <1>5, <1>6, ConcatEmptySeq

(* No worker goes back to where it had not been created.                   *)
LEMMA AloneBefore ==
  ASSUME HandType, [Next]_vars
  PROVE  /\ \A w \in Worker : Alone(w)' => Alone(w)
         /\ \A w \in Worker : wpc[w] # "none" => wpc'[w] # "none"
<1>1. \A w \in Worker : wpc[w] # "none" => wpc'[w] # "none"
  BY DEF HandType, Next, vars, LogCall, LazyInit, Push, Work, Start, Test, AfterTest, Pop,
         Write, TestExit, Main, Exit, Joined
<1> QED
  BY <1>1 DEF Alone

LEMMA OrderStep ==
  HandType /\ LoggerType /\ ListType /\ OrderInv /\ [Next]_vars => OrderInv'
<1> SUFFICES ASSUME HandType, LoggerType, ListType, OrderInv, [Next]_vars,
                    NEW w \in Worker, Alone(w)'
    PROVE  /\ written' \o taken'[w] \o list' = logged'
           /\ wpc'[w] = "pop" => list' # <<>>
           /\ ~broken'
  BY DEF OrderInv
<1>0. /\ Alone(w) /\ written \o taken[w] \o list = logged
      /\ wpc[w] = "pop" => list # <<>>
      /\ ~broken
  BY AloneBefore DEF OrderInv
<1>1. CASE UNCHANGED <<list, taken, wpc, broken, logged, written>>
  BY <1>0, <1>1
<1>2. ASSUME NEW t \in Logger, LazyInit(t)
      PROVE  /\ written' \o taken'[w] \o list' = logged'
             /\ wpc'[w] = "pop" => list' # <<>>
             /\ ~broken'
  <2>1. wpc'[w] # "pop" \/ wpc'[w] = wpc[w]
    BY <1>2 DEF LazyInit, HandType
  <2> QED
    BY <2>1, <1>0, <1>2 DEF LazyInit
<1>3. ASSUME NEW t \in Logger, Push(t)
      PROVE  /\ written' \o taken'[w] \o list' = logged'
             /\ wpc'[w] = "pop" => list' # <<>>
             /\ ~broken'
  <2>1. PICK m \in Message : list' = Append(list, m) /\ logged' = Append(logged, m)
    BY <1>3, PushedMessage
  <2>2. list \in Seq(Message) /\ written \in Seq(Message) /\ taken[w] \in Seq(Message)
    BY HandIsSeq DEF ListType
  <2>3. list' # <<>>
    BY <2>1, <2>2, AppendProperties
  <2>4. written \o taken[w] \o Append(list, m) = Append(written \o taken[w] \o list, m)
    <3> DEFINE hand == taken[w]
    <3>1. hand \in Seq(Message)
      BY <2>2
    <3> HIDE DEF hand
    <3>2. written \o hand \o Append(list, m) = Append(written \o hand \o list, m)
      BY <2>2, <3>1, AppendAfter
    <3> QED
      BY <3>2 DEF hand
  <2>5. UNCHANGED <<wpc, taken, written, broken>>
    BY <1>3, PushedMessage
  <2> QED
    BY <1>0, <2>1, <2>3, <2>4, <2>5
<1>4. ASSUME NEW v \in Worker, Work(v)
      PROVE  /\ written' \o taken'[w] \o list' = logged'
             /\ wpc'[w] = "pop" => list' # <<>>
             /\ ~broken'
  <2>0. wpc[v] # "none"
    BY <1>4, Zenon DEF Work, Start, Test, Pop, Write, TestExit
  <2>1. v = w
    BY <1>0, <2>0 DEF Alone
  <2>2. CASE Start(w) \/ TestExit(w)
    <3>1. UNCHANGED <<list, taken, broken, logged, written>> /\ wpc'[w] # "pop"
      BY <2>2 DEF Start, TestExit, HandType
    <3> QED
      BY <3>1, <1>0
  <2>3. CASE Test(w)
    BY <2>3, <1>0 DEF Test, AfterTest, HandType
  <2>4. CASE Pop(w)
    <3>1. /\ list # <<>> /\ wpc[w] = "pop" /\ taken' = [taken EXCEPT ![w] = <<Head(list)>>]
          /\ list' = Tail(list) /\ wpc' = [wpc EXCEPT ![w] = "write"]
          /\ UNCHANGED <<broken, logged, written>>
      BY <2>4, <1>0 DEF Pop, PopFront
    <3>2. taken[w] = <<>> /\ taken'[w] = <<Head(list)>> /\ wpc'[w] = "write"
      BY <3>1 DEF HandType
    <3>3. written \o <<Head(list)>> \o Tail(list) = written \o <<>> \o list
      BY <3>1, HeadMoves DEF ListType
    <3> QED
      BY <3>1, <3>2, <3>3, <1>0
  <2>5. CASE Write(w)
    <3>1. /\ written' = written \o taken[w] /\ taken'[w] = <<>> /\ wpc'[w] = "loop"
          /\ UNCHANGED <<broken, logged, list>>
      BY <2>5 DEF Write, DropTaken, HandType
    <3>2. written \o taken[w] \in Seq(Message)
      BY HandIsSeq, ConcatProperties DEF ListType
    <3>3. (written \o taken[w]) \o <<>> = written \o taken[w]
      BY <3>2, ConcatEmptySeq
    <3> QED
      BY <3>1, <3>3, <1>0
  <2> QED
    BY <1>4, <2>1, <2>2, <2>3, <2>4, <2>5 DEF Work
<1> QED
  BY <1>1, <1>2, <1>3, <1>4 DEF Next, vars, LogCall, Main, Exit, Joined

LEMMA EagerStep == HandType /\ LoggerType /\ EagerInv /\ [Next]_vars => EagerInv'
<1> SUFFICES ASSUME HandType, LoggerType, EagerInv, [Next]_vars, eager'
    PROVE  /\ bInit' /\ \A t \in Logger : lpc'[t] # "init"
           /\ \E w \in Worker : Alone(w)' /\ wpc'[w] # "none"
  BY DEF EagerInv
<1>1. eager
  BY DEF Next, vars, LogCall, LazyInit, Push, Work, Start, Test, Pop, Write, TestExit, Main,
         Exit, Joined
<1>2. PICK w \in Worker : Alone(w) /\ wpc[w] # "none"
  BY <1>1 DEF EagerInv
<1>3. bInit /\ \A t \in Logger : lpc[t] # "init"
  BY <1>1 DEF EagerInv
<1>4. bInit' /\ \A t \in Logger : lpc'[t] # "init"
  BY <1>3 DEF LoggerType, Next, vars, LogCall, LazyInit, Push, Work, Start, Test, Pop, Write,
              TestExit, Main, Exit, Joined
<1>5. \A v \in Worker \ {w} : wpc'[v] = "none"
  BY <1>2, <1>3 DEF Alone, HandType, Next, vars, LogCall, LazyInit, Push, Work, Start, Test, Pop,
              Write, TestExit, Main, Exit, Joined
<1>6. wpc'[w] # "none"
  BY <1>2, AloneBefore
<1> QED
  BY <1>4, <1>5, <1>6 DEF Alone

LEMMA ExitStep == HandType /\ EagerInv /\ ExitInv /\ [Next]_vars => ExitInv'
<1> SUFFICES ASSUME HandType, EagerInv, ExitInv, [Next]_vars, eager', main' = "exited"
    PROVE  \A w \in Worker : ~Live(w)'
  BY DEF ExitInv
<1>1. eager /\ \A t \in Logger : ~LazyInit(t)
  BY DEF EagerInv, Next, vars, LogCall, LazyInit, Push, Work, Start, Test, Pop, Write, TestExit,
         Main, Exit, Joined
<1>2. \A w \in Worker : ~Live(w)
  BY <1>1 DEF ExitInv, Next, vars, LogCall, Push, Work, Start, Test, Pop, Write, TestExit, Main,
              Exit, Joined
<1>3. \A w \in Worker : ~Work(w)
  BY <1>2 DEF Live, Work, Start, Test, Pop, Write, TestExit
<1>4. UNCHANGED wpc
  BY <1>1, <1>3 DEF Next, vars, LogCall, Push, Main, Exit, Joined
<1> QED
  BY <1>2, <1>4 DEF Live

LEMMA SeenStep ==
  /\ HandType /\ LoggerType /\ ListType /\ OrderInv /\ EagerInv /\ SeenInv /\ [Next]_vars
  => SeenInv'
<1> SUFFICES ASSUME HandType, LoggerType, ListType, OrderInv, EagerInv, SeenInv, [Next]_vars
    PROVE  SeenInv'
  OBVIOUS
<1>0. Len(logged) \in Nat /\ Len(written) \in Nat /\ seen \in Nat
  BY LenProperties DEF ListType
<1>1. CASE UNCHANGED <<wpc, logged, written, seen, eager>>
  BY <1>1 DEF SeenInv
<1>2. ASSUME NEW t \in Logger, LazyInit(t)
      PROVE  SeenInv'
  BY <1>2 DEF LazyInit, EagerInv, SeenInv
<1>3. ASSUME NEW t \in Logger, Push(t)
      PROVE  SeenInv'
  <2>1. PICK m \in Message : logged' = Append(logged, m)
    BY <1>3, PushedMessage
  <2>2. Len(logged') = Len(logged) + 1
    BY <2>1, AppendProperties DEF ListType
  <2>3. UNCHANGED <<wpc, written, seen, eager>>
    BY <1>3, PushedMessage
  <2> QED
    BY <2>2, <2>3, <1>0 DEF SeenInv
<1>4. ASSUME NEW w \in Worker, Work(w)
      PROVE  SeenInv'
  <2>1. CASE Start(w) \/ Pop(w)
    BY <2>1 DEF Start, Pop, SeenInv, HandType
  <2>2. CASE TestExit(w)
    BY <2>2 DEF TestExit, SeenInv, HandType
  <2>3. CASE Test(w)
    <3>1. eager /\ list = <<>> => Len(written) = Len(logged)
      <4> SUFFICES ASSUME eager, list = <<>> PROVE Len(written) = Len(logged)
        OBVIOUS
      <4>1. wpc[w] = "loop" /\ taken[w] = <<>>
        BY <2>3 DEF Test, HandType
      <4>2. Alone(w)
        BY <4>1 DEF EagerInv, Alone
      <4>3. written \o <<>> \o <<>> = logged
        BY <4>1, <4>2 DEF OrderInv
      <4>4. written \o <<>> \o <<>> = written
        BY ConcatEmptySeq DEF ListType
      <4> QED
        BY <4>3, <4>4
    <3>2. eager => \A v \in Worker \ {w} : wpc[v] = "none"
      BY <2>3 DEF Test, EagerInv, Alone
    <3>3. eager => \A v \in Worker : wpc'[v] \in {"empty", "ended"} => v = w /\ list = <<>>
      BY <2>3, <3>2 DEF Test, AfterTest, HandType
    <3> QED
      BY <2>3, <3>1, <3>3, <1>0 DEF Test, SeenInv
  <2>4. CASE Write(w)
    <3>1. Len(written') >= Len(written)
      BY <2>4, <1>0, HandIsSeq, ConcatProperties, LenProperties DEF Write, ListType
    <3>2. Len(written') \in Nat
      <4>1. written' \in Seq(Message)
        BY <2>4, HandIsSeq, ConcatProperties DEF Write, ListType
      <4> QED
        BY <4>1, LenProperties
    <3>3. \A v \in Worker : wpc'[v] \in {"empty", "ended"} => wpc[v] \in {"empty", "ended"}
      BY <2>4 DEF Write, HandType
    <3>4. UNCHANGED <<eager, seen, logged>>
      BY <2>4 DEF Write
    <3> QED
      BY <3>1, <3>2, <3>3, <3>4, <1>0 DEF SeenInv
  <2> QED
    BY <1>4, <2>1, <2>2, <2>3, <2>4 DEF Work
<1> QED
  BY <1>1, <1>2, <1>3, <1>4 DEF Next, vars, LogCall, Main, Exit, Joined

-----------------------------------------------------------------------------
LEMMA ElemsOfAppend ==
  ASSUME NEW S, NEW s \in Seq(S), NEW m \in S
  PROVE  /\ Elems(Append(s, m)) = Elems(s) \cup {m}
         /\ Distinct(s) /\ m \notin Elems(s) => Distinct(Append(s, m))
<1>1. /\ Len(s) \in Nat /\ Len(Append(s, m)) = Len(s) + 1
      /\ \A i \in 1..Len(s) : Append(s, m)[i] = s[i]
      /\ Append(s, m)[Len(s) + 1] = m
  BY AppendProperties, LenProperties
<1> DEFINE a == Append(s, m)
           n == Len(s)
<1>2. n \in Nat /\ Len(a) = n + 1 /\ (\A i \in 1..n : a[i] = s[i]) /\ a[n + 1] = m
  BY <1>1
<1> HIDE DEF a, n
<1>3. {a[i] : i \in 1..(n + 1)} = {s[i] : i \in 1..n} \cup {m}
  BY <1>2
<1>4. ASSUME \A i, j \in 1..n : s[i] = s[j] => i = j, m \notin {s[i] : i \in 1..n},
             NEW i \in 1..(n + 1), NEW j \in 1..(n + 1), a[i] = a[j]
      PROVE  i = j
  <2>1. i \in 1..n \/ i = n + 1
    BY <1>2
  <2>2. j \in 1..n \/ j = n + 1
    BY <1>2
  <2> QED
    BY <2>1, <2>2, <1>2, <1>4
<1> QED
  BY <1>2, <1>3, <1>4, Zenon DEF a, n, Elems, Distinct

LEMMA ElemsOfTail ==
  ASSUME NEW S, NEW s \in Seq(S), s # <<>>
  PROVE  /\ Elems(s) = Elems(Tail(s)) \cup {Head(s)}
         /\ Distinct(s) => Distinct(Tail(s)) /\ Head(s) \notin Elems(Tail(s))
<1> DEFINE r == Tail(s)
           n == Len(s)
           h == Head(s)
<1>1. /\ n \in Nat /\ n # 0 /\ Len(r) = n - 1 /\ h = s[1]
      /\ \A i \in 1..(n - 1) : r[i] = s[i + 1]
  BY HeadTailProperties, LenProperties, EmptySeq
<1> HIDE DEF r, n, h
<1>2. \A i \in 1..n : i = 1 \/ (i - 1 \in 1..(n - 1) /\ r[i - 1] = s[i])
  BY <1>1
<1>3. {s[i] : i \in 1..n} = {r[i] : i \in 1..(n - 1)} \cup {h}
  <2>1. \A i \in 1..n : s[i] \in {r[j] : j \in 1..(n - 1)} \cup {h}
    BY <1>1, <1>2
  <2>2. \A j \in 1..(n - 1) : j + 1 \in 1..n /\ r[j] = s[j + 1]
    BY <1>1
  <2>3. h \in {s[i] : i \in 1..n}
    BY <1>1
  <2> QED
    BY <2>1, <2>2, <2>3
<1>4. ASSUME \A i, j \in 1..n : s[i] = s[j] => i = j
      PROVE  /\ \A i, j \in 1..(n - 1) : r[i] = r[j] => i = j
             /\ h \notin {r[i] : i \in 1..(n - 1)}
  <2>1. \A i \in 1..(n - 1) : i + 1 \in 1..n /\ i + 1 # 1 /\ 1 \in 1..n /\ r[i] = s[i + 1]
    BY <1>1
  <2>2. \A i \in 1..(n - 1) : r[i] # h
    BY <2>1, <1>4, <1>1
  <2>3. ASSUME NEW i \in 1..(n - 1), NEW j \in 1..(n - 1), r[i] = r[j]
        PROVE  i = j
    <3>1. i + 1 = j + 1
      BY <2>1, <2>3, <1>4
    <3> QED
      BY <3>1, <1>1
  <2> QED
    BY <2>2, <2>3
<1> QED
  BY <1>1, <1>3, <1>4, Zenon DEF r, n, h, Elems, Distinct

LEMMA PlaceStep ==
  HandType /\ LoggerType /\ ListType /\ PlaceInv /\ [Next]_vars => PlaceInv'
<1> SUFFICES ASSUME HandType, LoggerType, ListType, PlaceInv, [Next]_vars
    PROVE  PlaceInv'
  OBVIOUS
<1>1. CASE UNCHANGED <<list, taken, count, logged, written>>
  <2>1. /\ Elems(list') = Elems(list) /\ Elems(logged') = Elems(logged)
        /\ Elems(written') = Elems(written)
    BY <1>1 DEF Elems
  <2>2. /\ Distinct(list') <=> Distinct(list)
        /\ Distinct(written') <=> Distinct(written)
    BY <1>1 DEF Distinct
  <2> QED
    BY <1>1, <2>1, <2>2 DEF PlaceInv
<1>2. ASSUME NEW t \in Logger, Push(t)
      PROVE  PlaceInv'
  <2>1. PICK m \in Message : m = <<t, count[t] + 1>>
    BY <1>2, PushedMessage
  <2>2. /\ list' = Append(list, m) /\ logged' = Append(logged, m)
        /\ count' = [count EXCEPT ![t] = count[t] + 1]
        /\ UNCHANGED <<taken, written>>
    BY <1>2, <2>1, PushedMessage
  <2>3. \A l \in Logger : count[l] \in Nat
    BY UtilsLogAssumption DEF LoggerType
  <2>4. m \notin Elems(logged)
    <3>1. m[1] = t /\ m[2] = count[t] + 1
      BY <2>1
    <3> QED
      BY <3>1, <2>3 DEF PlaceInv
  <2>5. /\ Elems(logged') = Elems(logged) \cup {m}
        /\ Elems(list') = Elems(list) \cup {m}
        /\ m \notin Elems(list) => Distinct(list')
    BY <2>2, ElemsOfAppend DEF ListType, PlaceInv
  <2>6. m \notin Elems(list) /\ m \notin Elems(written)
    BY <2>4 DEF PlaceInv
  <2>7. \A x \in Elems(logged') : x[2] <= count'[x[1]]
    <3>1. Elems(logged) \subseteq Message
      BY LenProperties, ElementOfSeq DEF Elems, ListType
    <3>2. \A x \in Elems(logged) : x[1] \in Logger /\ x[2] \in Nat /\ x[2] <= count[x[1]]
      BY <3>1, UtilsLogAssumption DEF Message, PlaceInv
    <3>3. \A l \in Logger : count'[l] \in Nat /\ count[l] <= count'[l]
      BY <2>2, <2>3 DEF LoggerType
    <3>4. m[2] = count'[m[1]]
      BY <2>1, <2>2 DEF LoggerType
    <3>5. m[2] \in Nat
      BY <2>1, <2>3
    <3> QED
      BY <2>5, <3>2, <3>3, <3>4, <3>5, <2>3
  <2>8. Elems(written') = Elems(written) /\ (Distinct(written') <=> Distinct(written))
    BY <2>2 DEF Elems, Distinct
  <2>9. \A w \in Worker : \A x \in Message : taken[w] = <<x>> => x # m
    BY <2>4 DEF PlaceInv
  <2> QED
    BY <2>2, <2>5, <2>6, <2>7, <2>8, <2>9 DEF PlaceInv
<1>3. ASSUME NEW w \in Worker, Pop(w), list # <<>>
      PROVE  PlaceInv'
  <2>1. PICK m \in Message : m = Head(list)
    BY <1>3, HeadTailProperties DEF ListType
  <2>2. /\ taken' = [taken EXCEPT ![w] = <<m>>] /\ list' = Tail(list)
        /\ UNCHANGED <<count, logged, written>>
    BY <1>3, <2>1 DEF Pop, PopFront
  <2>3. /\ Elems(list) = Elems(list') \cup {m}
        /\ Distinct(list') /\ m \notin Elems(list')
    BY <1>3, <2>1, <2>2, ElemsOfTail DEF ListType, PlaceInv
  <2>4. /\ Elems(logged') = Elems(logged) /\ Elems(written') = Elems(written)
        /\ Distinct(written') <=> Distinct(written)
    BY <2>2 DEF Elems, Distinct
  <2>5. m \in Elems(logged) /\ m \notin Elems(written)
    BY <2>3 DEF PlaceInv
  <2>6. \A v \in Worker : \A x \in Message : taken[v] = <<x>> => x # m
    BY <2>3 DEF PlaceInv
  <2>7. \A v \in Worker : \A x \in Message :
          taken'[v] = <<x>> => (v = w /\ x = m) \/ (v # w /\ taken[v] = <<x>>)
    BY <2>2 DEF HandType
  <2>8. taken'[w] = <<m>>
    BY <2>2 DEF HandType
  <2> QED
    BY <2>2, <2>3, <2>4, <2>5, <2>6, <2>7 DEF PlaceInv
<1>4. ASSUME NEW w \in Worker, Write(w)
      PROVE  PlaceInv'
  <2>1. PICK m \in Message : taken[w] = <<m>>
    BY <1>4 DEF Write, HandType
  <2>2. /\ taken' = [taken EXCEPT ![w] = <<>>] /\ written' = Append(written, m)
        /\ UNCHANGED <<count, logged, list>>
    BY <1>4, <2>1, AppendIsConcat DEF Write, DropTaken, ListType
  <2>3. m \in Elems(logged) /\ m \notin Elems(list) /\ m \notin Elems(written)
    BY <2>1 DEF PlaceInv
  <2>4. Elems(written') = Elems(written) \cup {m} /\ Distinct(written')
    BY <2>2, <2>3, ElemsOfAppend DEF ListType, PlaceInv
  <2>5. /\ Elems(logged') = Elems(logged) /\ Elems(list') = Elems(list)
        /\ Distinct(list') <=> Distinct(list)
    BY <2>2 DEF Elems, Distinct
  <2>6. \A v \in Worker : \A x \in Message :
          taken'[v] = <<x>> => v # w /\ taken[v] = <<x>>
    BY <2>2 DEF HandType
  <2>7. \A v \in Worker \ {w} : taken[v] # <<m>>
    BY <2>1 DEF PlaceInv
  <2>8. \A v \in Worker : \A x \in Message : taken'[v] = <<x>> =>
          /\ x \in Elems(logged') /\ x \notin Elems(list') /\ x \notin Elems(written')
    BY <2>4, <2>5, <2>6, <2>7 DEF PlaceInv
  <2>9. \A v \in Worker : \A x \in Message : taken'[v] = <<x>> =>
          \A u \in Worker : taken'[u] = <<x>> => u = v
    BY <2>6 DEF PlaceInv
  <2>10. /\ \A x \in Elems(logged') : x[2] <= count'[x[1]]
         /\ Distinct(list') /\ Distinct(written')
         /\ Elems(list') \subseteq Elems(logged') /\ Elems(written') \subseteq Elems(logged')
         /\ Elems(list') \cap Elems(written') = {}
    BY <2>2, <2>3, <2>4, <2>5 DEF PlaceInv
  <2> QED
    BY <2>8, <2>9, <2>10 DEF PlaceInv
<1>5. ASSUME NEW w \in Worker, Pop(w), list = <<>>
      PROVE  UNCHANGED <<list, taken, count, logged, written>>
  BY <1>5 DEF Pop
<1> QED
  BY <1>1, <1>2, <1>3, <1>4, <1>5
     DEF Next, vars, LogCall, LazyInit, Work, Start, Test, TestExit, Main, Exit, Joined

-----------------------------------------------------------------------------
(* The inductive invariant.                                                *)
LogInv ==
  TypeOK /\ RoomInv /\ OrderInv /\ EagerInv /\ SeenInv /\ ExitInv /\ PlaceInv

LEMMA LogInvInit == Init => LogInv
<1> SUFFICES ASSUME Init PROVE LogInv
  OBVIOUS
<1>1. TypeOK /\ RoomInv
  BY TypeInit
<1>2. /\ list = <<>> /\ logged = <<>> /\ written = <<>> /\ seen = 0 /\ ~broken /\ main = "run"
      /\ \A w \in Worker : taken[w] = <<>> /\ wpc[w] \in {"none", "created"}
      /\ \A t \in Logger : lpc[t] = "idle"
      /\ eager \in BOOLEAN /\ bInit = eager
  BY DEF Init
<1>3. OrderInv
  <2>1. <<>> \o <<>> \o <<>> = <<>>
    BY EmptySeq, ConcatEmptySeq
  <2>2. \A w \in Worker : taken[w] = <<>> /\ wpc[w] # "pop"
    BY <1>2
  <2> QED
    BY <1>2, <2>1, <2>2 DEF OrderInv
<1>4. EagerInv
  BY <1>2 DEF EagerInv, Alone, Init
<1>5. SeenInv
  BY <1>2, EmptySeq DEF SeenInv
<1>6. ExitInv
  BY <1>2 DEF ExitInv
<1>7. PlaceInv
  <2>1. Elems(<<>>) = {} /\ Distinct(<<>>)
    BY EmptySeq DEF Elems, Distinct
  <2>2. \A m \in Message : <<m>> # <<>>
    OBVIOUS
  <2> QED
    BY <1>2, <2>1, <2>2 DEF PlaceInv
<1> QED
  BY <1>1, <1>3, <1>4, <1>5, <1>6, <1>7 DEF LogInv

LEMMA LogInvStep == LogInv /\ [Next]_vars => LogInv'
<1> SUFFICES ASSUME LogInv, [Next]_vars PROVE LogInv'
  OBVIOUS
<1>1. HandType /\ LoggerType /\ ListType
  BY TypeParts DEF LogInv
<1> QED
  BY <1>1, TypeStep, OrderStep, EagerStep, SeenStep, ExitStep, PlaceStep DEF LogInv

LEMMA LogInvAlways == Spec => []LogInv
BY LogInvInit, LogInvStep, PTL DEF Spec

(* Nothing is written twice or without having been logged, and only two    *)
(* workers can empty the list under each other's feet (UtilsLog.cpp:104-  *)
(* 110, 158): for any number of loggers and workers.                       *)
THEOREM WritesOnce == Spec => []AtMostOnce
<1>1. ASSUME LogInv PROVE AtMostOnce
  <2>1. ASSUME broken
        PROVE  \E v, w \in Worker : v # w /\ wpc[v] # "none" /\ wpc[w] # "none"
    <3>1. \A w \in Worker : \E v \in Worker \ {w} : wpc[v] # "none"
      BY <1>1, <2>1 DEF LogInv, OrderInv, Alone
    <3>2. PICK v \in Worker : wpc[v] # "none"
      BY <3>1, UtilsLogAssumption
    <3> QED
      BY <3>1, <3>2
  <2>2. \A i, j \in 1..Len(written) : written[i] = written[j] => i = j
    BY <1>1 DEF LogInv, PlaceInv, Distinct
  <2>3. \A i \in 1..Len(written) : \E k \in 1..Len(logged) : logged[k] = written[i]
    <3>1. Elems(written) \subseteq Elems(logged)
      BY <1>1 DEF LogInv, PlaceInv
    <3>2. \A i \in 1..Len(written) : written[i] \in Elems(logged)
      BY <3>1, Zenon DEF Elems
    <3> QED
      BY <3>2, Zenon DEF Elems
  <2> QED
    BY <2>1, <2>2, <2>3 DEF AtMostOnce
<1> QED
  BY <1>1, LogInvAlways, PTL

(* The front of what was logged is what was written.                       *)
LEMMA WrittenIsPrefix ==
  ASSUME NEW S, NEW s \in Seq(S), NEW t \in Seq(S), NEW u \in Seq(S)
  PROVE  /\ \A k \in 1..Len(s) : (s \o t \o u)[k] = s[k]
         /\ \A m \in S : t = <<m>> =>
              /\ Len(s) < Len(s \o t \o u)
              /\ (s \o t \o u)[Len(s) + 1] = m
<1>1. /\ s \o t \in Seq(S) /\ Len(s \o t) = Len(s) + Len(t)
      /\ \A i \in 1..(Len(s) + Len(t)) :
           (s \o t)[i] = IF i <= Len(s) THEN s[i] ELSE t[i - Len(s)]
  BY ConcatProperties
<1>2. /\ Len(s \o t \o u) = Len(s \o t) + Len(u)
      /\ \A i \in 1..(Len(s \o t) + Len(u)) :
           (s \o t \o u)[i] = IF i <= Len(s \o t) THEN (s \o t)[i] ELSE u[i - Len(s \o t)]
  BY <1>1, ConcatProperties
<1>3. Len(s) \in Nat /\ Len(t) \in Nat /\ Len(u) \in Nat
  BY LenProperties
<1>4. \A k \in 1..Len(s) : (s \o t \o u)[k] = s[k]
  BY <1>1, <1>2, <1>3
<1>5. ASSUME NEW m \in S, t = <<m>>
      PROVE  /\ Len(s) < Len(s \o t \o u)
             /\ (s \o t \o u)[Len(s) + 1] = m
  <2>1. Len(t) = 1 /\ t[1] = m
    BY <1>5
  <2>2. /\ Len(s) + 1 \in 1..(Len(s) + Len(t)) /\ ~(Len(s) + 1 <= Len(s))
        /\ Len(s) + 1 - Len(s) = 1 /\ Len(s) + 1 <= Len(s \o t)
        /\ Len(s) + 1 \in 1..(Len(s \o t) + Len(u))
    BY <2>1, <1>1, <1>3
  <2>3. (s \o t)[Len(s) + 1] = m
    BY <2>1, <2>2, <1>1
  <2>4. (s \o t \o u)[Len(s) + 1] = m
    BY <2>2, <2>3, <1>2
  <2>5. Len(s) < Len(s \o t \o u)
    BY <2>1, <1>1, <1>2, <1>3
  <2> QED
    BY <2>4, <2>5
<1> QED
  BY <1>4, <1>5

(* When Exit has returned, all that was pushed before the worker's last    *)
(* look at the list is written, in order (UtilsLog.cpp:99-118).            *)
THEOREM Drained == Spec => []ExitDrains
<1>1. ASSUME LogInv, main = "exited", eager
      PROVE  Len(written) >= seen /\ \A k \in 1..seen : written[k] = logged[k]
  <2>1. PICK w \in Worker : Alone(w) /\ wpc[w] # "none"
    BY <1>1 DEF LogInv, EagerInv
  <2>2. wpc[w] = "ended"
    BY <1>1, <2>1 DEF LogInv, ExitInv, Live
  <2>3. Len(written) >= seen
    BY <1>1, <2>2 DEF LogInv, SeenInv
  <2>4. written \o taken[w] \o list = logged
    BY <1>1, <2>1 DEF LogInv, OrderInv
  <2>5. HandType /\ ListType
    BY <1>1, TypeParts DEF LogInv
  <2>6. taken[w] \in Seq(Message) /\ Len(written) \in Nat /\ seen \in Nat
    BY <2>5, HandIsSeq, LenProperties DEF ListType
  <2>7. \A k \in 1..Len(written) : (written \o taken[w] \o list)[k] = written[k]
    BY <2>5, <2>6, WrittenIsPrefix DEF ListType
  <2> QED
    BY <2>3, <2>4, <2>6, <2>7
<1>2. LogInv => ExitDrains
  BY <1>1 DEF ExitDrains
<1> QED
  BY <1>2, LogInvAlways, PTL

(* With Init called first, as Server.cpp:27 does, the logger is a FIFO.    *)
THEOREM ImplementsFifo == Spec => IsFifo
<1>1. Init => Fifo!Init
  BY DEF Init, Fifo!Init
<1>2. ASSUME LogInv, [Next]_vars
      PROVE  Fifo!Next \/ UNCHANGED <<IF eager THEN logged ELSE <<>>,
                                      IF eager THEN written ELSE <<>>>>
  <2>0. eager' = eager
    BY <1>2 DEF Next, vars, LogCall, LazyInit, Push, Work, Start, Test, Pop, Write, TestExit,
                Main, Exit, Joined
  <2>1. HandType /\ LoggerType /\ ListType
    BY <1>2, TypeParts DEF LogInv
  <2>2. CASE ~eager \/ UNCHANGED <<logged, written>>
    BY <2>0, <2>2
  <2>3. ASSUME eager, NEW t \in Logger, Push(t)
        PROVE  Fifo!Log
    <3>1. PICK m \in Message : m = <<t, count[t] + 1>> /\ logged' = Append(logged, m)
      BY <2>1, <2>3, PushedMessage
    <3>2. written' = written
      BY <2>3 DEF Push
    <3>3. m[1] = t /\ m[2] = count[t] + 1 /\ count[t] \in Nat
      BY <3>1, <2>1, UtilsLogAssumption DEF LoggerType
    <3>4. m \notin Elems(logged)
      BY <3>3, <1>2 DEF LogInv, PlaceInv
    <3> QED
      BY <3>1, <3>2, <3>4, <2>0, <2>3 DEF Fifo!Log, Fifo!Message, Message, Elems
  <2>4. ASSUME eager, NEW w \in Worker, Write(w)
        PROVE  Fifo!Write
    <3>1. PICK m \in Message : taken[w] = <<m>>
      BY <2>1, <2>4 DEF Write, HandType
    <3>2. written' = Append(written, m) /\ logged' = logged
      BY <2>1, <2>4, <3>1, AppendIsConcat DEF Write, ListType
    <3>3. Alone(w)
      BY <1>2, <2>4 DEF LogInv, EagerInv, Alone, Write
    <3>4. written \o taken[w] \o list = logged
      BY <1>2, <3>3 DEF LogInv, OrderInv
    <3>5. taken[w] \in Seq(Message)
      BY <2>1, HandIsSeq
    <3>6. LET l == written \o taken[w] \o list
          IN  Len(written) < Len(l) /\ l[Len(written) + 1] = m
      BY <2>1, <3>1, <3>5, WrittenIsPrefix DEF ListType
    <3>7. Len(written) < Len(logged) /\ logged[Len(written) + 1] = m
      BY <3>4, <3>6
    <3> QED
      BY <2>0, <2>4, <3>2, <3>7 DEF Fifo!Write
  <2> QED
    BY <1>2, <2>2, <2>3, <2>4
       DEF Next, vars, LogCall, LazyInit, Work, Start, Test, Pop, TestExit, Main, Exit, Joined,
           Fifo!Next
<1> QED
  BY <1>1, <1>2, LogInvAlways, PTL DEF Spec, IsFifo, Fifo!Spec
=============================================================================
