------------------------------ MODULE UtilsLog ------------------------------
(***************************************************************************)
(* The asynchronous logger: any thread appends to g_LogInfoList under      *)
(* g_LogLock; a worker thread takes messages from its front and writes     *)
(* them; UtilsLog::Exit sets g_LogExit and joins.  The first message       *)
(* starts a worker if nobody called Init (g_bInit is read without a lock). *)
(* Text, level and file name of a message are abstracted to its identity.  *)
(***************************************************************************)
EXTENDS Naturals, Sequences

CONSTANTS
  Logger,     \* the threads that log
  Worker,     \* the worker threads there can be
  Limit       \* bound of the model: messages per logger

ASSUME UtilsLogAssumption == Worker # {} /\ Limit \in Nat \ {0}

VARIABLES
  eager,      \* Init was called before anything logged (Server.cpp:27)
  list,       \* g_LogInfoList
  bInit,      \* g_bInit
  logExit,    \* g_LogExit
  wpc,        \* where each worker is
  taken,      \* the message each worker has popped, as a sequence of 0 or 1
  lpc,        \* where each logger is
  count,      \* messages each logger has logged
  main,       \* the main thread: "run", "join" in Exit, "exited"
  broken,     \* front() and pop_front() were called on an empty list
  logged, written,  \* history: the messages pushed, the messages written
  seen        \* history: how many had been pushed at a worker's last look

vars == <<eager, list, bInit, logExit, wpc, taken, lpc, count, main, broken,
          logged, written, seen>>

Message == Logger \X (1..Limit)
Started(w) == wpc[w] \notin {"none", "created"}
Live(w) == wpc[w] \notin {"none", "ended"}

TypeOK ==
  /\ eager \in BOOLEAN /\ list \in Seq(Message)
  /\ bInit \in BOOLEAN /\ logExit \in BOOLEAN
  /\ wpc \in [Worker -> {"none", "created", "loop", "pop", "write", "empty", "ended"}]
  /\ taken \in [Worker -> {<<>>} \cup {<<m>> : m \in Message}]
  /\ \A w \in Worker : wpc[w] = "write" <=> taken[w] # <<>>
  /\ lpc \in [Logger -> {"idle", "init", "push"}]
  /\ count \in [Logger -> 0..Limit]
  /\ main \in {"run", "join", "exited"} /\ broken \in BOOLEAN
  /\ logged \in Seq(Message) /\ written \in Seq(Message) /\ seen \in Nat

Init ==
  /\ eager \in BOOLEAN /\ bInit = eager
  /\ list = <<>> /\ logExit = FALSE
  /\ \E first \in Worker :
       wpc = [w \in Worker |-> IF eager /\ w = first THEN "created" ELSE "none"]
  /\ taken = [w \in Worker |-> <<>>]
  /\ lpc = [t \in Logger |-> "idle"] /\ count = [t \in Logger |-> 0]
  /\ main = "run" /\ broken = FALSE
  /\ logged = <<>> /\ written = <<>> /\ seen = 0

-----------------------------------------------------------------------------
(* Log and LogFile: test g_bInit, perhaps Init, then push under the lock. *)
LogCall(t) ==
  /\ lpc[t] = "idle" /\ count[t] < Limit
  /\ lpc' = [lpc EXCEPT ![t] = IF bInit THEN "push" ELSE "init"]
  /\ UNCHANGED <<eager, list, bInit, logExit, wpc, taken, count, main, broken,
                 logged, written, seen>>

(* Init from Log: another thread may have done the same meanwhile. *)
LazyInit(t) ==
  /\ lpc[t] = "init"
  /\ bInit' = TRUE /\ logExit' = FALSE
  /\ \E w \in Worker :
       wpc[w] = "none" /\ wpc' = [wpc EXCEPT ![w] = "created"]
  /\ lpc' = [lpc EXCEPT ![t] = "push"]
  /\ UNCHANGED <<eager, list, taken, count, main, broken, logged, written, seen>>

(* Mutated form: the new message goes to the front. *)
PushFront(m) == list' = <<m>> \o list
PushBack(m) == list' = Append(list, m)

Push(t) ==
  LET m == <<t, count[t] + 1>> IN
  /\ lpc[t] = "push"
  /\ PushBack(m) /\ logged' = Append(logged, m)
  /\ count' = [count EXCEPT ![t] = @ + 1]
  /\ lpc' = [lpc EXCEPT ![t] = "idle"]
  /\ UNCHANGED <<eager, bInit, logExit, wpc, taken, main, broken, written, seen>>

-----------------------------------------------------------------------------
(* Mutated forms: the worker leaves with messages in the list; it never    *)
(* leaves; it leaves an empty list whether or not Exit was called.         *)
LeaveAtOnce(w) == IF logExit THEN "ended" ELSE IF list # <<>> THEN "pop" ELSE "empty"
NeverLeave(w) == IF list # <<>> THEN "pop" ELSE "loop"
LeaveWhenEmpty(w) == IF list # <<>> THEN "pop" ELSE "ended"
AfterTest(w) == IF list # <<>> THEN "pop" ELSE "empty"

(* st_WorkerThreadProc begins by resetting g_LogExit. *)
Start(w) ==
  /\ wpc[w] = "created"
  /\ wpc' = [wpc EXCEPT ![w] = "loop"] /\ logExit' = FALSE
  /\ UNCHANGED <<eager, list, bInit, taken, lpc, count, main, broken, logged, written, seen>>

(* The unlocked test of empty(). *)
Test(w) ==
  /\ wpc[w] = "loop"
  /\ wpc' = [wpc EXCEPT ![w] = AfterTest(w)]
  /\ seen' = Len(logged)
  /\ UNCHANGED <<eager, list, bInit, logExit, taken, lpc, count, main, broken, logged, written>>

(* Mutated form: the front is read and not removed. *)
PeekFront(w) == taken' = [taken EXCEPT ![w] = <<Head(list)>>] /\ UNCHANGED list
PopFront(w) == taken' = [taken EXCEPT ![w] = <<Head(list)>>] /\ list' = Tail(list)

(* front() and pop_front() under the lock: with a second worker the list   *)
(* may be empty by now, and the program is then beyond the model.          *)
Pop(w) ==
  /\ wpc[w] = "pop"
  /\ \/ /\ list # <<>>
        /\ PopFront(w)
        /\ wpc' = [wpc EXCEPT ![w] = "write"]
        /\ UNCHANGED broken
     \/ /\ list = <<>>
        /\ broken' = TRUE
        /\ UNCHANGED <<list, wpc, taken>>
  /\ UNCHANGED <<eager, bInit, logExit, lpc, count, main, logged, written, seen>>

(* Mutated form: the message stays with the worker. *)
KeepTaken(w) == UNCHANGED taken
DropTaken(w) == taken' = [taken EXCEPT ![w] = <<>>]

(* CheckLogInfoFunc: print the message or append it to its file. *)
Write(w) ==
  /\ wpc[w] = "write"
  /\ written' = written \o taken[w] /\ DropTaken(w)
  /\ wpc' = [wpc EXCEPT ![w] = "loop"]
  /\ UNCHANGED <<eager, list, bInit, logExit, lpc, count, main, broken, logged, seen>>

(* Only after the list was found empty is g_LogExit looked at. *)
TestExit(w) ==
  /\ wpc[w] = "empty"
  /\ wpc' = [wpc EXCEPT ![w] = IF logExit THEN "ended" ELSE "loop"]
  /\ UNCHANGED <<eager, list, bInit, logExit, taken, lpc, count, main, broken,
                 logged, written, seen>>

-----------------------------------------------------------------------------
Exit ==
  /\ main = "run"
  /\ main' = "join" /\ logExit' = TRUE
  /\ UNCHANGED <<eager, list, bInit, wpc, taken, lpc, count, broken, logged, written, seen>>

Joined ==
  /\ main = "join" /\ \A w \in Worker : ~Live(w)
  /\ main' = "exited"
  /\ UNCHANGED <<eager, list, bInit, logExit, wpc, taken, lpc, count, broken,
                 logged, written, seen>>

-----------------------------------------------------------------------------
Work(w) == Start(w) \/ Test(w) \/ Pop(w) \/ Write(w) \/ TestExit(w)
Main == Exit \/ Joined

Next ==
  ~broken /\ (\/ \E t \in Logger : LogCall(t) \/ LazyInit(t) \/ Push(t)
              \/ \E w \in Worker : Work(w)
              \/ Main)
Spec == Init /\ [][Next]_vars

(* The OS schedules the worker threads and, once in Exit, the main thread. *)
FairSpec ==
  /\ Spec /\ WF_vars(~broken /\ Joined)
  /\ \A w \in Worker : WF_vars(~broken /\ Work(w))

-----------------------------------------------------------------------------
(* Two first messages at once start two workers (line 158).  They may then *)
(* write out of order and even pop from an empty list, but nothing is      *)
(* written twice or without having been logged; and one worker alone never *)
(* pops from an empty list, although it tests it without the lock (104).   *)
AtMostOnce ==
  /\ broken => \E v, w \in Worker : v # w /\ wpc[v] # "none" /\ wpc[w] # "none"
  /\ \A i, j \in 1..Len(written) :
       /\ written[i] = written[j] => i = j
       /\ \E k \in 1..Len(logged) : logged[k] = written[i]

(* Exit drains the list (lines 104-118): when it returns, every message    *)
(* pushed before the worker's last look at the list is written; only those *)
(* pushed between that look and its test of g_LogExit are left.            *)
ExitDrains ==
  main = "exited" /\ eager =>
    /\ Len(written) >= seen
    /\ \A k \in 1..seen : written[k] = logged[k]

(* Exit returns, if the worker had got past its reset of g_LogExit (line   *)
(* 101) when Exit was called: the loggers then have finitely many messages *)
(* left.                                                                   *)
ExitReturns ==
  eager /\ main = "join" /\ logExit /\ (\A w \in Worker : wpc[w] # "created")
    ~> main = "exited"

(* Every message is eventually written while nobody calls Exit.            *)
EventuallyWritten ==
  \A m \in Message :
    (\E k \in 1..Len(logged) : logged[k] = m) ~>
      (main # "run" \/ broken \/ \E k \in 1..Len(written) : written[k] = m)

(* With Init called first, as Server.cpp does, the logger is a FIFO.       *)
Fifo == INSTANCE LogFifo WITH
          logged <- IF eager THEN logged ELSE <<>>,
          written <- IF eager THEN written ELSE <<>>
IsFifo == Fifo!Spec
=============================================================================
