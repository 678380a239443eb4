----------------------------- MODULE DBRpc_proofs -----------------------------
(***************************************************************************)
(* The client implements DBCall, for any number of calls, any sizes of     *)
(* messages and buffer, and any number of requests handled at a time; and  *)
(* a call made alone returns items and a key of its own answer only.       *)
(***************************************************************************)
EXTENDS DBRpc, TLAPS, SequenceTheorems

(* A request is carried out once: none on its way, and no job not done,    *)
(* is of a call that was; and no two of them are of one call.              *)
Waits(m, made, done) ==
  m.call <= Len(made) /\ m.id = made[m.call] /\ done[m.call] = "none"
Taken(job, made, done) ==
  job.call <= Len(made) /\ job.id = made[job.call] /\ done[job.call] = job.result
OnceInv ==
  /\ \A i \in 1..Len(toServer) : Waits(toServer[i], calls, outcome)
  /\ \A i \in 1..Len(toServer) : \A j \in 1..Len(toServer) :
          toServer[i].call = toServer[j].call => i = j
  /\ \A i \in 1..Len(toServer) : \A job \in handling : job.call # toServer[i].call
  /\ \A job \in handling : Taken(job, calls, outcome)
  /\ \A job, other \in handling : other.call = job.call => other = job

(* What an answer says is what became of its call, on its way, in the      *)
(* receive thread's hands and in the fields.                               *)
Says(id, i, done) ==
  i <= Len(done) /\ done[i] = IF id = "error" THEN "failed" ELSE "ok"
TrueInv ==
  /\ \A i \in 1..Len(toClient) : Says(toClient[i].id, toClient[i].call, outcome)
  /\ rpc = "id" => Says(rmsg.id, rmsg.call, outcome)
  /\ \A k \in Kind : arrived[k] # 0 => Says(k, arrived[k], outcome)
  /\ code # 0 => Says("error", code, outcome)

(* While a call made alone is under way, what is on its way, and what the  *)
(* caller will look at, is its own.                                        *)
AloneInv ==
  alone /\ cpc # "idle" =>
    /\ \A i \in 1..Len(toServer) : toServer[i].call = Now
    /\ \A i \in 1..Len(toClient) : toClient[i].call = Now
    /\ \A job \in handling : job.call = Now
    /\ rpc = "id" => rmsg.call = Now
    /\ cpc # "sent" => arrived[calls[Now]] \in {0, Now}
    /\ cpc = "wait" /\ calls[Now] = "query" => code \in {0, Now}

RpcInv == TypeOK /\ OnceInv /\ TrueInv /\ AloneInv

-----------------------------------------------------------------------------
(* What a receive leaves on its way is what was sent after it.             *)
LEMMA AfterProps ==
  ASSUME NEW S, NEW m \in Seq(S), NEW n \in 1..Len(m)
  PROVE  /\ After(m, n) \in Seq(S) /\ Len(After(m, n)) = Len(m) - n
         /\ \A i \in 1..Len(After(m, n)) :
              /\ i + n \in 1..Len(m) /\ i + n > 1
              /\ After(m, n)[i] = m[i + n]
<1>1. n + 1 \in Int /\ Len(m) \in Nat /\ \A i \in (n + 1)..Len(m) : m[i] \in S
  OBVIOUS
<1>2. /\ After(m, n) \in Seq(S)
      /\ Len(After(m, n)) = IF n + 1 <= Len(m) THEN Len(m) - (n + 1) + 1 ELSE 0
      /\ \A i \in 1..(Len(m) - (n + 1) + 1) : After(m, n)[i] = m[n + 1 + i - 1]
  BY <1>1, SubSeqProperties DEF After
<1> QED
  BY <1>1, <1>2

(* The calls of messages dropped are calls.                                *)
LEMMA CallsOfProps ==
  ASSUME NEW S, NEW m \in Seq(S), \A x \in S : x.call \in 1..MaxCalls,
         NEW n \in 1..Len(m)
  PROVE  /\ Dropped(m, n) \subseteq 1..MaxCalls
         /\ CallsOf(SubSeq(m, 1, n)) \subseteq 1..MaxCalls
<1>1. \A a \in 1..2 : \A i \in a..n : m[i] \in S
  OBVIOUS
<1>2. SubSeq(m, 1, n) \in Seq(S) /\ SubSeq(m, 2, n) \in Seq(S)
  BY <1>1, SubSeqProperties
<1>3. ASSUME NEW t \in Seq(S) PROVE CallsOf(t) \subseteq 1..MaxCalls
  BY DEF CallsOf
<1> QED
  BY <1>2, <1>3 DEF Dropped

LEMMA TypeInit == Init => TypeOK
<1> SUFFICES ASSUME Init PROVE TypeOK
  OBVIOUS
<1>0. MaxCalls \in Nat /\ Rows \in Nat
  BY DBRpcAssumption
<1>1. CallerType
  <2>1. calls \in Seq(Kind) /\ outcome \in Seq({"none", "ok", "failed"})
        /\ Len(calls) = 0 /\ Len(outcome) = 0
    BY EmptySeq DEF Init
  <2>2. Len(calls) <= MaxCalls /\ Len(outcome) = Len(calls)
    BY <1>0, <2>1
  <2> QED
    BY <2>1, <2>2, Zenon DEF Init, CallerType
<1>2. FieldType
  BY <1>0, EmptySeq DEF Init, FieldType
<1>3. ReceiverType
  BY <1>0 DEF Init, ReceiverType
<1>4. WireType
  BY EmptySeq DEF Init, WireType
<1> QED
  BY <1>1, <1>2, <1>3, <1>4 DEF TypeOK

LEMMA CallerTypeStep == TypeOK /\ [Next]_vars => CallerType'
<1> SUFFICES ASSUME TypeOK, [Next]_vars PROVE CallerType'
  OBVIOUS
<1>0. CallerType /\ WireType /\ MaxCalls \in Nat
  BY DBRpcAssumption DEF TypeOK
<1>1. ASSUME NEW k \in Kind, Call(k) PROVE CallerType'
  <2>1. /\ calls' = Append(calls, k) /\ outcome' = Append(outcome, "none")
        /\ cpc' = "sent" /\ told' = told /\ alone' = Quiet /\ Len(calls) < MaxCalls
    BY <1>1 DEF Call, Now
  <2>2. alone' \in BOOLEAN
    BY <2>1 DEF Quiet
  <2>3. /\ calls' \in Seq(Kind) /\ Len(calls') = Len(calls) + 1
        /\ outcome' \in Seq({"none", "ok", "failed"}) /\ Len(outcome') = Len(outcome) + 1
    BY <1>0, <2>1, AppendProperties DEF CallerType
  <2>4. calls' # <<>> /\ Len(calls') <= MaxCalls
    BY <1>0, <2>1, <2>3, EmptySeq DEF CallerType
  <2> QED
    BY <1>0, <2>1, <2>2, <2>3, <2>4 DEF CallerType
<1>2. CASE Caller
  <2>1. /\ calls' = calls /\ outcome' = outcome /\ alone' = alone /\ cpc # "idle"
        /\ cpc' \in {"cleared", "body", "wait", "idle"} /\ told' \in {told, "ok", "failed"}
    BY <1>2 DEF Caller, ClearId, ClearBody, ClearCode, Return, Told, server
  <2> QED
    BY <1>0, <2>1 DEF CallerType
<1>3. ASSUME NEW job \in handling, NEW result \in {"ok", "failed"}, Execute(job, result)
      PROVE  CallerType'
  <2>1. /\ calls' = calls /\ cpc' = cpc /\ told' = told /\ alone' = alone
        /\ outcome' = [outcome EXCEPT ![job.call] = result]
    BY <1>3 DEF Execute, caller
  <2>2. /\ outcome' \in Seq({"none", "ok", "failed"}) /\ Len(outcome') = Len(outcome)
    <3>1. CASE job.call \in 1..Len(outcome)
      BY <1>0, <2>1, <3>1, ExceptSeq DEF CallerType
    <3>2. CASE job.call \notin 1..Len(outcome)
      <4>1. DOMAIN outcome = 1..Len(outcome) /\ outcome = [i \in DOMAIN outcome |-> outcome[i]]
        BY <1>0 DEF CallerType
      <4>2. outcome' = outcome
        BY <2>1, <3>2, <4>1
      <4> QED
        BY <1>0, <4>2 DEF CallerType
    <3> QED
      BY <3>1, <3>2
  <2> QED
    BY <1>0, <2>1, <2>2 DEF CallerType
<1>4. CASE UNCHANGED <<caller, calls, outcome>>
  BY <1>0, <1>4 DEF CallerType, caller
<1>5. CASE Receiver \/ RecvPart \/ Close \/ UNCHANGED vars
  BY <1>4, <1>5
  DEF Receiver, Recv, StoreId, StoreKey, StoreItem, RecvPart, Close, vars, server
<1>6. ASSUME NEW n \in 1..Len(toServer), Serve(n) PROVE CallerType'
  BY <1>4, <1>6 DEF Serve
<1>7. ASSUME NEW job \in handling, Reply(job) PROVE CallerType'
  BY <1>4, <1>7 DEF Reply
<1> QED
  BY <1>1, <1>2, <1>3, <1>5, <1>6, <1>7 DEF Next, Server

LEMMA FieldTypeStep == TypeOK /\ [Next]_vars => FieldType'
<1> SUFFICES ASSUME TypeOK, [Next]_vars PROVE FieldType'
  OBVIOUS
<1>0. FieldType /\ ReceiverType /\ CallerType
  BY DEF TypeOK
<1> USE DEF fields
<1>1. CASE ClearId
  <2>1. calls[Now] \in Kind /\ MaxCalls \in Nat
    <3>1. calls \in Seq(Kind) /\ calls # <<>>
      BY <1>0, <1>1 DEF ClearId, CallerType
    <3>2. Len(calls) \in 1..Len(calls)
      BY <3>1, EmptySeq
    <3> QED
      BY <3>1, <3>2, DBRpcAssumption DEF Now
  <2> QED
    BY <1>0, <1>1, <2>1 DEF ClearId, ResetId, FieldType
<1>2. CASE ClearBody \/ ClearCode
  <2>1. 0 \in 0..MaxCalls /\ <<>> \in Seq(1..MaxCalls)
    BY DBRpcAssumption, EmptySeq
  <2>2. /\ UNCHANGED arrived
        /\ key' \in {key, 0} /\ list' \in {list, <<>>} /\ code' \in {code, 0}
    BY <1>2 DEF ClearBody, ResetBody, ClearCode
  <2> QED
    BY <1>0, <2>1, <2>2, Zenon DEF FieldType
<1>3. CASE StoreId
  <2>1. rmsg.call \in 0..MaxCalls /\ (rmsg.id # "error" => rmsg.id \in Kind)
    BY <1>0, <1>3, DBRpcAssumption DEF StoreId, ReceiverType, Answer, NoMessage, Id
  <2> QED
    BY <1>0, <1>3, <2>1 DEF StoreId, StoreCode, FieldType
<1>4. CASE StoreKey \/ StoreItem
  <2>1. rmsg.call \in 1..MaxCalls /\ MaxCalls \in Nat
    BY <1>0, <1>4, DBRpcAssumption DEF StoreKey, StoreItem, ReceiverType, Answer
  <2>2. Append(list, rmsg.call) \in Seq(1..MaxCalls)
    BY <1>0, <2>1, AppendProperties DEF FieldType
  <2>3. /\ UNCHANGED <<arrived, code>>
        /\ key' \in {key, rmsg.call} /\ list' \in {list, Append(list, rmsg.call)}
    BY <1>4 DEF StoreKey, StoreItem
  <2>4. rmsg.call \in 0..MaxCalls
    BY <2>1
  <2> QED
    BY <1>0, <2>2, <2>3, <2>4, Zenon DEF FieldType
<1>5. CASE UNCHANGED fields
  BY <1>0, <1>5 DEF FieldType
<1>6. CASE Return \/ RecvPart \/ Close \/ UNCHANGED vars
  BY <1>5, <1>6 DEF Return, RecvPart, Close, vars
<1>7. ASSUME NEW k \in Kind, Call(k) PROVE FieldType'
  BY <1>5, <1>7 DEF Call
<1>8. ASSUME NEW n \in Nat, Recv(n) \/ Serve(n) PROVE FieldType'
  BY <1>5, <1>8 DEF Recv, Serve
<1>9. ASSUME NEW job \in handling, Reply(job) PROVE FieldType'
  BY <1>5, <1>9 DEF Reply
<1>10. ASSUME NEW job \in handling, NEW result \in {"ok", "failed"}, Execute(job, result)
       PROVE  FieldType'
  BY <1>5, <1>10 DEF Execute
<1> QED
  BY <1>1, <1>2, <1>3, <1>4, <1>6, <1>7, <1>8, <1>9, <1>10
  DEF Next, Caller, Receiver, Server

LEMMA ReceiverTypeStep == TypeOK /\ [Next]_vars => ReceiverType'
<1> SUFFICES ASSUME TypeOK, [Next]_vars PROVE ReceiverType'
  OBVIOUS
<1>0. ReceiverType /\ WireType /\ Rows \in Nat \ {0}
  BY DBRpcAssumption DEF TypeOK
<1>1. ASSUME NEW n \in 1..Len(toClient), Recv(n) PROVE ReceiverType'
  <2>1. toClient[1] \in Answer /\ toClient[1].call # 0
    <3>1. toClient \in Seq(Answer)
      BY <1>0, Zenon DEF WireType
    <3>2. toClient[1] \in Answer
      BY <3>1
    <3> QED
      BY <3>2 DEF Answer
  <2>2. toClient[1] # NoMessage
    BY <2>1 DEF NoMessage
  <2>3. /\ left' = left
        /\ \/ rpc' = "id" /\ rmsg' = toClient[1]
           \/ rpc' = "full" /\ rmsg' = rmsg
    BY <1>1, Zenon DEF Recv
  <2> QED
    BY <1>0, <2>1, <2>2, <2>3, Zenon DEF ReceiverType
<1>2. CASE StoreId
  <2>1. /\ rmsg' = rmsg /\ rmsg # NoMessage
        /\ \/ rpc' = "recv" /\ left' = left
           \/ rpc' \in {"recv", "key", "list"} /\ left' = Rows
    BY <1>0, <1>2 DEF StoreId, Body, ReceiverType
  <2>2. Rows \in 0..Rows /\ Rows # 0
    BY <1>0
  <2> QED
    BY <1>0, <2>1, <2>2, Zenon DEF ReceiverType
<1>3. CASE StoreKey
  BY <1>0, <1>3 DEF StoreKey, ReceiverType
<1>4. CASE StoreItem
  <2>1. left \in 1..Rows /\ left' = left - 1 /\ rmsg' = rmsg /\ rmsg # NoMessage
        /\ rpc' = IF left = 1 THEN "recv" ELSE "list"
    BY <1>0, <1>4 DEF StoreItem, LastItem, ReceiverType
  <2> QED
    BY <1>0, <2>1 DEF ReceiverType
<1>5. CASE UNCHANGED receiver
  BY <1>0, <1>5 DEF ReceiverType, receiver
<1>6. CASE Caller \/ RecvPart \/ Close \/ UNCHANGED vars
  BY <1>5, <1>6 DEF Caller, ClearId, ClearBody, ClearCode, Return, RecvPart, Close, vars
<1>7. ASSUME NEW k \in Kind, Call(k) PROVE ReceiverType'
  BY <1>5, <1>7 DEF Call
<1>8. CASE Server
  BY <1>5, <1>8 DEF Server, Serve, Reply, Execute
<1> QED
  BY <1>1, <1>2, <1>3, <1>4, <1>6, <1>7, <1>8 DEF Next, Receiver

LEMMA WireTypeStep == TypeOK /\ [Next]_vars => WireType'
<1> SUFFICES ASSUME TypeOK, [Next]_vars PROVE WireType'
  OBVIOUS
<1>0. CallerType /\ ReceiverType /\ WireType /\ MaxCalls \in Nat
  BY DBRpcAssumption DEF TypeOK
<1>1. ASSUME NEW k \in Kind, Call(k) PROVE WireType'
  <2>1. Now + 1 \in 1..MaxCalls
    BY <1>0, <1>1 DEF Call, CallerType, Now
  <2>2. [call |-> Now + 1, id |-> k] \in Request
    BY <2>1 DEF Request
  <2>3. Append(toServer, [call |-> Now + 1, id |-> k]) \in Seq(Request)
    BY <1>0, <2>2, AppendProperties DEF WireType
  <2>4. /\ toServer' \in {toServer, Append(toServer, [call |-> Now + 1, id |-> k])}
        /\ UNCHANGED <<toClient, handling, closed, broken, lost>>
    BY <1>1 DEF Call
  <2> QED
    BY <1>0, <2>3, <2>4, Zenon DEF WireType
<1>2. ASSUME NEW n \in 1..Len(toClient), Recv(n) PROVE WireType'
  <2>1. After(toClient, n) \in Seq(Answer)
    BY <1>0, AfterProps DEF WireType
  <2>2. /\ Dropped(toClient, n) \subseteq 1..MaxCalls
        /\ CallsOf(SubSeq(toClient, 1, n)) \subseteq 1..MaxCalls
    <3>1. \A x \in Answer : x.call \in 1..MaxCalls
      BY DEF Answer
    <3> QED
      BY <1>0, <3>1, CallsOfProps DEF WireType
  <2>3. lost' \subseteq 1..MaxCalls
    BY <1>0, <1>2, <2>2 DEF Recv, WireType
  <2>4. toClient' = After(toClient, n) /\ UNCHANGED <<toServer, handling, closed, broken>>
    BY <1>2 DEF Recv, server
  <2> QED
    BY <1>0, <2>1, <2>3, <2>4, Zenon DEF WireType
<1>3. CASE StoreId
  <2>1. lost' \subseteq 1..MaxCalls
    BY <1>0, <1>3 DEF StoreId, Early, ReceiverType, WireType, Answer, NoMessage
  <2>2. UNCHANGED <<toServer, toClient, handling, closed, broken>>
    BY <1>3 DEF StoreId, server
  <2> QED
    BY <1>0, <2>1, <2>2, Zenon DEF WireType
<1>4. ASSUME NEW n \in 1..Len(toServer), Serve(n) PROVE WireType'
  <2>1. After(toServer, n) \in Seq(Request)
    BY <1>0, AfterProps DEF WireType
  <2>2. /\ Dropped(toServer, n) \subseteq 1..MaxCalls
        /\ CallsOf(SubSeq(toServer, 1, n)) \subseteq 1..MaxCalls
    <3>1. \A x \in Request : x.call \in 1..MaxCalls
      BY DEF Request
    <3> QED
      BY <1>0, <3>1, CallsOfProps DEF WireType
  <2>3. lost' \subseteq 1..MaxCalls
    BY <1>0, <1>4, <2>2 DEF Serve, WireType
  <2>4. [call |-> toServer[1].call, id |-> toServer[1].id, result |-> "none"] \in Job
    <3>1. toServer \in Seq(Request)
      BY <1>0, Zenon DEF WireType
    <3>2. toServer[1] \in Request
      BY <3>1
    <3> QED
      BY <3>2 DEF Request, Job
  <2>5. handling' \subseteq Job
    BY <1>0, <1>4, <2>4 DEF Serve, WireType
  <2>6. toServer' = After(toServer, n) /\ UNCHANGED <<toClient, closed, broken>>
    BY <1>4 DEF Serve
  <2> QED
    BY <1>0, <2>1, <2>3, <2>5, <2>6, Zenon DEF WireType
<1>5. ASSUME NEW job \in handling, NEW result \in {"ok", "failed"}, Execute(job, result)
      PROVE  WireType'
  <2>1. [job EXCEPT !.result = result] \in Job
    BY <1>0 DEF WireType, Job
  <2>2. handling' \subseteq Job
    BY <1>0, <1>5, <2>1 DEF Execute, WireType
  <2>3. UNCHANGED <<toServer, toClient, closed, broken, lost>>
    BY <1>5 DEF Execute
  <2> QED
    BY <1>0, <2>2, <2>3, Zenon DEF WireType
<1>6. ASSUME NEW job \in handling, Reply(job) PROVE WireType'
  <2>1. [call |-> job.call, id |-> AnswerId(job)] \in Answer
    BY <1>0 DEF WireType, Job, Answer, Id, AnswerId
  <2>2. Append(toClient, [call |-> job.call, id |-> AnswerId(job)]) \in Seq(Answer)
    BY <1>0, <2>1, AppendProperties DEF WireType
  <2>3. /\ toClient' \in {toClient, Append(toClient, [call |-> job.call, id |-> AnswerId(job)])}
        /\ handling' \subseteq handling /\ UNCHANGED <<toServer, closed, broken, lost>>
    BY <1>6 DEF Reply
  <2>4. handling' \subseteq Job
    BY <1>0, <2>3 DEF WireType
  <2> QED
    BY <1>0, <2>2, <2>3, <2>4, Zenon DEF WireType
<1>7. CASE Close \/ RecvPart
  <2>1. /\ toServer' \in {toServer, <<>>} /\ toClient' \in {toClient, <<>>}
        /\ closed' \in {closed, TRUE} /\ broken' \in {broken, TRUE}
        /\ UNCHANGED <<handling, lost>>
    BY <1>7 DEF Close, RecvPart, server
  <2>2. <<>> \in Seq(Request) /\ <<>> \in Seq(Answer)
    BY EmptySeq
  <2> QED
    BY <1>0, <2>1, <2>2, Zenon DEF WireType
<1>8. CASE UNCHANGED <<toServer, toClient, handling, closed, broken, lost>>
  BY <1>0, <1>8, Zenon DEF WireType
<1>9. CASE Caller \/ StoreKey \/ StoreItem \/ UNCHANGED vars
  BY <1>8, <1>9
  DEF Caller, ClearId, ClearBody, ClearCode, Return, StoreKey, StoreItem, vars, server
<1> QED
  BY <1>1, <1>2, <1>3, <1>4, <1>5, <1>6, <1>7, <1>9 DEF Next, Receiver, Server

LEMMA TypeStep == TypeOK /\ [Next]_vars => TypeOK'
BY CallerTypeStep, FieldTypeStep, ReceiverTypeStep, WireTypeStep DEF TypeOK

(* Every variable keeps to its type (DBClient.cpp:20-98).                  *)
THEOREM TypeCorrect == Spec => []TypeOK
BY TypeInit, TypeStep, PTL DEF Spec

-----------------------------------------------------------------------------
(* What TypeOK says of what the steps below read.                          *)
LEMMA Typed ==
  ASSUME TypeOK
  PROVE  /\ Now \in Nat /\ calls \in Seq(Kind) /\ Now = Len(calls)
         /\ outcome \in Seq({"none", "ok", "failed"}) /\ Len(outcome) = Now
         /\ toServer \in Seq(Request) /\ toClient \in Seq(Answer)
         /\ \A i \in 1..Len(toServer) : toServer[i].call \in Nat \ {0}
         /\ \A i \in 1..Len(toClient) : toClient[i].call \in Nat \ {0}
         /\ \A job \in handling : job \in Job /\ job.call \in Nat \ {0}
         /\ rpc = "id" => rmsg.call \in Nat \ {0} /\ rmsg.id \in Id
         /\ arrived \in [Kind -> Nat] /\ code \in Nat
         /\ cpc # "idle" => Now # 0 /\ calls[Now] \in Kind
<1>0. CallerType /\ FieldType /\ ReceiverType /\ WireType
  BY DEF TypeOK
<1>1. calls \in Seq(Kind) /\ outcome \in Seq({"none", "ok", "failed"}) /\ Len(outcome) = Len(calls)
      /\ (cpc # "idle" => calls # <<>>)
  BY <1>0, Zenon DEF CallerType
<1>2. toServer \in Seq(Request) /\ toClient \in Seq(Answer) /\ handling \subseteq Job
  BY <1>0, Zenon DEF WireType
<1>3. arrived \in [Kind -> 0..MaxCalls] /\ code \in 0..MaxCalls /\ MaxCalls \in Nat
  BY <1>0, DBRpcAssumption DEF FieldType
<1>4. rpc = "id" => rmsg \in Answer
  BY <1>0 DEF ReceiverType
<1>5. \A x \in Request : x.call \in Nat \ {0}
  BY DEF Request
<1>6. \A x \in Answer : x.call \in Nat \ {0} /\ x.id \in Id
  BY DEF Answer
<1>7. \A x \in Job : x.call \in Nat \ {0}
  BY DEF Job
<1>8. cpc # "idle" => Len(calls) # 0 /\ calls[Len(calls)] \in Kind
  BY <1>1, EmptySeq
<1>9. /\ \A i \in 1..Len(toServer) : toServer[i].call \in Nat \ {0}
      /\ \A i \in 1..Len(toClient) : toClient[i].call \in Nat \ {0}
  BY <1>2, <1>5, <1>6
<1>10. arrived \in [Kind -> Nat] /\ code \in Nat
  BY <1>3
<1> QED
  BY <1>1, <1>2, <1>4, <1>6, <1>7, <1>8, <1>9, <1>10 DEF Now

(* A call adds itself and leaves the calls before it.                      *)
LEMMA CallAdds ==
  ASSUME TypeOK, NEW k \in Kind, Call(k)
  PROVE  /\ Now' = Now + 1 /\ calls'[Now + 1] = k /\ outcome'[Now + 1] = "none"
         /\ \A i \in 1..Now : calls'[i] = calls[i] /\ outcome'[i] = outcome[i]
<1>1. calls' = Append(calls, k) /\ outcome' = Append(outcome, "none")
  BY DEF Call
<1>2. "none" \in {"none", "ok", "failed"}
  OBVIOUS
<1>3. /\ Len(Append(calls, k)) = Len(calls) + 1 /\ Append(calls, k)[Len(calls) + 1] = k
      /\ \A i \in 1..Len(calls) : Append(calls, k)[i] = calls[i]
  BY Typed, AppendProperties
<1>4. /\ Append(outcome, "none")[Len(outcome) + 1] = "none"
      /\ \A i \in 1..Len(outcome) : Append(outcome, "none")[i] = outcome[i]
  BY <1>2, Typed, AppendProperties
<1> QED
  BY <1>1, <1>3, <1>4, Typed DEF Now

(* A job done changes what became of its own call only.                    *)
LEMMA ExecuteSets ==
  ASSUME TypeOK, NEW job \in handling, job.call <= Now,
         NEW result \in {"ok", "failed"}, Execute(job, result)
  PROVE  /\ Now' = Now /\ outcome'[job.call] = result
         /\ \A i \in 1..Now : i # job.call => outcome'[i] = outcome[i]
<1>1. outcome' = [outcome EXCEPT ![job.call] = result] /\ calls' = calls
  BY DEF Execute
<1>2. job.call \in 1..Len(outcome)
  BY Typed
<1>3. \A j \in 1..Len(outcome) : outcome'[j] = IF j = job.call THEN result ELSE outcome[j]
  BY <1>1, <1>2, Typed, ExceptSeq
<1> QED
  BY <1>1, <1>2, <1>3, Typed DEF Now

(* Only a call, and the server's steps and the connection's end, change    *)
(* what is asked for and what became of it.                                *)
LEMMA Untouched ==
  ASSUME Caller \/ Receiver \/ RecvPart \/ UNCHANGED vars
  PROVE  UNCHANGED <<toServer, handling, calls, outcome, Now>>
BY DEF Caller, ClearId, ClearBody, ClearCode, Return, Receiver, Recv, StoreId, StoreKey,
       StoreItem, RecvPart, vars, server, Now

LEMMA OnceStep == TypeOK /\ OnceInv /\ [Next]_vars => OnceInv'
<1> SUFFICES ASSUME TypeOK, OnceInv, [Next]_vars PROVE OnceInv'
  OBVIOUS
<1>0. /\ \A i \in 1..Len(toServer) : Waits(toServer[i], calls, outcome)
      /\ \A i \in 1..Len(toServer) : \A j \in 1..Len(toServer) :
          toServer[i].call = toServer[j].call => i = j
      /\ \A i \in 1..Len(toServer) : \A job \in handling : job.call # toServer[i].call
      /\ \A job \in handling : Taken(job, calls, outcome)
      /\ \A job, other \in handling : other.call = job.call => other = job
  BY Zenon DEF OnceInv
<1>1. ASSUME NEW k \in Kind, Call(k) PROVE OnceInv'
  <2> DEFINE new == [call |-> Now + 1, id |-> k]
  <2>1. handling' = handling /\ toServer' \in {toServer, Append(toServer, new)}
    BY <1>1 DEF Call
  <2>2. ASSUME NEW i \in 1..Len(toServer')
        PROVE  \/ i \in 1..Len(toServer) /\ toServer'[i] = toServer[i]
               \/ i = Len(toServer) + 1 /\ toServer'[i] = new
    <3>1. Now + 1 \in 1..MaxCalls
      BY <1>1, Typed, DBRpcAssumption DEF Call
    <3>2. new \in Request
      BY <3>1 DEF Request
    <3> HIDE DEF new
    <3> QED
      BY <2>1, <3>2, Typed, AppendProperties
  <2>3. new.call = Now + 1 /\ new.id = k
    OBVIOUS
  <2> HIDE DEF new
  <2>4. Waits(new, calls', outcome')
    BY <1>1, <2>3, CallAdds, Typed DEF Waits, Now
  <2>5. ASSUME NEW m, m.call \in 1..Now
        PROVE  /\ Waits(m, calls, outcome) => Waits(m, calls', outcome')
               /\ Taken(m, calls, outcome) => Taken(m, calls', outcome')
    BY <1>1, <2>5, CallAdds, Typed DEF Waits, Taken, Now
  <2>6. \A i \in 1..Len(toServer) : toServer[i].call \in 1..Now
    BY <1>0, Typed DEF Waits, Now
  <2>7. \A job \in handling : job.call \in 1..Now
    BY <1>0, Typed DEF Taken, Now
  <2>8. \A i \in 1..Len(toServer') : Waits(toServer'[i], calls', outcome')
    BY <1>0, <2>2, <2>4, <2>5, <2>6
  <2>9. ASSUME NEW i \in 1..Len(toServer'), NEW j \in 1..Len(toServer'),
               toServer'[i].call = toServer'[j].call
        PROVE  i = j
    <3>1. Now \in Nat /\ \A l \in 1..Len(toServer) : toServer[l].call < Now + 1
      BY <2>6, Typed
    <3>2. CASE i \in 1..Len(toServer) /\ toServer'[i] = toServer[i]
      <4>1. j \in 1..Len(toServer) /\ toServer'[j] = toServer[j]
        BY <2>2, <2>3, <2>9, <3>1, <3>2
      <4> QED
        BY <1>0, <2>9, <3>2, <4>1
    <3>3. CASE i = Len(toServer) + 1 /\ toServer'[i] = new
      BY <2>2, <2>3, <2>9, <3>1, <3>3
    <3> QED
      BY <2>2, <3>2, <3>3
  <2>10. \A i \in 1..Len(toServer') : \A job \in handling' : job.call # toServer'[i].call
    BY <1>0, <2>1, <2>2, <2>3, <2>7, Typed
  <2>11. /\ \A job \in handling' : Taken(job, calls', outcome')
         /\ \A job, other \in handling' : other.call = job.call => other = job
    BY <1>0, <2>1, <2>5, <2>7
  <2> QED
    BY <2>8, <2>9, <2>10, <2>11, Zenon DEF OnceInv
<1>2. ASSUME NEW n \in 1..Len(toServer), Serve(n) PROVE OnceInv'
  <2> DEFINE new == [call |-> toServer[1].call, id |-> toServer[1].id, result |-> "none"]
  <2>1. /\ UNCHANGED <<calls, outcome, Now>> /\ toServer' = After(toServer, n)
        /\ handling' \in {handling, handling \cup {new}}
    BY <1>2 DEF Serve, Now
  <2>2. \A i \in 1..Len(toServer') :
          /\ i + n \in 1..Len(toServer) /\ i + n > 1 /\ toServer'[i] = toServer[i + n]
    <3>1. toServer \in Seq(Request)
      BY Typed
    <3>2. \A i \in 1..Len(After(toServer, n)) :
            /\ i + n \in 1..Len(toServer) /\ i + n > 1
            /\ After(toServer, n)[i] = toServer[i + n]
      BY <3>1, AfterProps, Zenon
    <3> QED
      BY <2>1, <3>2, Zenon
  <2>3. 1 \in 1..Len(toServer)
    BY Typed
  <2>4. new.call = toServer[1].call /\ new.id = toServer[1].id /\ new.result = "none"
    OBVIOUS
  <2> HIDE DEF new
  <2>5. Taken(new, calls, outcome) /\ \A job \in handling : job.call # new.call
    BY <1>0, <2>3, <2>4 DEF Taken, Waits
  <2>6. \A m : /\ Waits(m, calls, outcome) => Waits(m, calls', outcome')
              /\ Taken(m, calls, outcome) => Taken(m, calls', outcome')
    BY <2>1 DEF Waits, Taken
  <2>7. ASSUME NEW i \in 1..Len(toServer') PROVE Waits(toServer'[i], calls', outcome')
    <3>1. i + n \in 1..Len(toServer) /\ toServer'[i] = toServer[i + n]
      BY <2>2
    <3>2. Waits(toServer[i + n], calls, outcome)
      BY <1>0, <3>1
    <3> QED
      BY <2>1, <3>1, <3>2 DEF Waits
  <2>8. ASSUME NEW i \in 1..Len(toServer'), NEW j \in 1..Len(toServer'),
               toServer'[i].call = toServer'[j].call
        PROVE  i = j
    <3>1. i + n = j + n
      <4>1. toServer[i + n].call = toServer[j + n].call
        BY <2>2, <2>8
      <4> QED
        BY <1>0, <2>2, <4>1
    <3> QED
      BY <3>1
  <2>9. \A i \in 1..Len(toServer') : toServer'[i].call # new.call
    BY <1>0, <2>2, <2>3, <2>4
  <2>10. \A i \in 1..Len(toServer') : \A job \in handling' : job.call # toServer'[i].call
    BY <1>0, <2>1, <2>2, <2>9
  <2>11. /\ \A job \in handling' : Taken(job, calls', outcome')
         /\ \A job, other \in handling' : other.call = job.call => other = job
    BY <1>0, <2>1, <2>5, <2>6
  <2> QED
    BY <2>7, <2>8, <2>10, <2>11, Zenon DEF OnceInv
<1>3. ASSUME NEW job \in handling, NEW result \in {"ok", "failed"}, Execute(job, result)
      PROVE  OnceInv'
  <2> DEFINE new == [job EXCEPT !.result = result]
  <2>0. job.call <= Now /\ job.call \in Nat /\ job.id = calls[job.call]
    BY <1>0, Typed DEF Taken, Now
  <2>1. UNCHANGED <<calls, Now, toServer>> /\ handling' = (handling \ {job}) \cup {new}
    BY <1>3 DEF Execute, Now
  <2>2. new.call = job.call /\ new.id = job.id /\ new.result = result
    BY Typed DEF Job
  <2> HIDE DEF new
  <2>3. /\ outcome'[job.call] = result
        /\ \A i \in 1..Now : i # job.call => outcome'[i] = outcome[i]
    BY <1>3, <2>0, ExecuteSets
  <2>4. Taken(new, calls', outcome')
    BY <2>0, <2>1, <2>2, <2>3 DEF Taken, Now
  <2>5. ASSUME NEW m, m.call \in 1..Now, m.call # job.call
        PROVE  /\ Waits(m, calls, outcome) => Waits(m, calls', outcome')
               /\ Taken(m, calls, outcome) => Taken(m, calls', outcome')
    BY <2>1, <2>3, <2>5 DEF Waits, Taken, Now
  <2>6. \A i \in 1..Len(toServer) : toServer[i].call \in 1..Now
    BY <1>0, Typed DEF Waits, Now
  <2>7. \A one \in handling : one.call \in 1..Now
    BY <1>0, Typed DEF Taken, Now
  <2>8. \A i \in 1..Len(toServer') : Waits(toServer'[i], calls', outcome')
    BY <1>0, <2>1, <2>5, <2>6
  <2>9. \A i \in 1..Len(toServer') : \A j \in 1..Len(toServer') :
          toServer'[i].call = toServer'[j].call => i = j
    BY <1>0, <2>1
  <2>10. \A i \in 1..Len(toServer') : \A one \in handling' : one.call # toServer'[i].call
    BY <1>0, <2>1, <2>2
  <2>11. \A one \in handling' : Taken(one, calls', outcome')
    BY <1>0, <2>1, <2>4, <2>5, <2>7
  <2>12. \A one, other \in handling' : other.call = one.call => other = one
    BY <1>0, <2>1, <2>2
  <2> QED
    BY <2>8, <2>9, <2>10, <2>11, <2>12, Zenon DEF OnceInv
<1>4. ASSUME NEW job \in handling, Reply(job) PROVE OnceInv'
  <2>1. UNCHANGED <<toServer, calls, outcome, Now>> /\ handling' \subseteq handling
    BY <1>4 DEF Reply, Now
  <2> QED
    BY <2>1 DEF OnceInv, Waits, Taken
<1>5. CASE Close
  <2>1. UNCHANGED <<calls, handling, outcome, Now>> /\ toServer' = <<>> /\ Len(<<>>) = 0
    BY <1>5, EmptySeq DEF Close, server, Now
  <2> QED
    BY <2>1 DEF OnceInv, Waits, Taken
<1>6. CASE Caller \/ Receiver \/ RecvPart \/ UNCHANGED vars
  BY <1>6, Untouched DEF OnceInv, Waits, Taken
<1> QED
  BY <1>1, <1>2, <1>3, <1>4, <1>5, <1>6 DEF Next, Server

(* What was said stays true: what became of a call does not change.        *)
LEMMA SaysStays ==
  ASSUME TypeOK, OnceInv, [Next]_vars
  PROVE  \A id, i : i \in Nat \ {0} /\ Says(id, i, outcome) => Says(id, i, outcome')
<1> SUFFICES ASSUME NEW id, NEW i \in Nat \ {0}, Says(id, i, outcome)
             PROVE  Says(id, i, outcome')
  OBVIOUS
<1>0. i \in 1..Now /\ i <= Len(outcome) /\ outcome[i] # "none"
  BY Typed DEF Says
<1>1. TypeOK'
  BY TypeStep
<1>2. Len(outcome') = Now' /\ Len(outcome) = Now /\ Now \in Nat
  BY <1>1, Typed DEF TypeOK, CallerType, Now
<1>3. ASSUME NEW k \in Kind, Call(k) PROVE Says(id, i, outcome')
  <2>1. Now' = Now + 1 /\ outcome'[i] = outcome[i]
    BY <1>0, <1>3, CallAdds
  <2> QED
    BY <1>0, <1>2, <2>1 DEF Says
<1>4. ASSUME NEW job \in handling, NEW result \in {"ok", "failed"}, Execute(job, result)
      PROVE  Says(id, i, outcome')
  <2>1. job.call <= Now /\ outcome[job.call] = "none"
    BY <1>4, <1>2 DEF Execute, OnceInv, Taken, Now
  <2>2. Now' = Now /\ outcome'[i] = outcome[i]
    BY <1>0, <1>4, <2>1, ExecuteSets
  <2> QED
    BY <1>0, <1>2, <2>2 DEF Says
<1>5. ASSUME NEW n \in 1..Len(toServer), Serve(n) PROVE Says(id, i, outcome')
  BY <1>5 DEF Serve
<1>6. ASSUME NEW job \in handling, Reply(job) PROVE Says(id, i, outcome')
  BY <1>6 DEF Reply
<1>7. CASE Close \/ Caller \/ Receiver \/ RecvPart \/ UNCHANGED vars
  BY <1>7, Untouched DEF Close, server
<1> QED
  BY <1>3, <1>4, <1>5, <1>6, <1>7 DEF Next, Server

LEMMA TrueStep == TypeOK /\ OnceInv /\ TrueInv /\ [Next]_vars => TrueInv'
<1> SUFFICES ASSUME TypeOK, OnceInv, TrueInv, [Next]_vars PROVE TrueInv'
  OBVIOUS
<1>0. /\ \A i \in 1..Len(toClient) : Says(toClient[i].id, toClient[i].call, outcome)
      /\ rpc = "id" => Says(rmsg.id, rmsg.call, outcome)
      /\ \A k \in Kind : arrived[k] # 0 => Says(k, arrived[k], outcome)
      /\ code # 0 => Says("error", code, outcome)
  BY Zenon DEF TrueInv
<1>1. /\ \A i \in 1..Len(toClient) : Says(toClient[i].id, toClient[i].call, outcome')
      /\ rpc = "id" => Says(rmsg.id, rmsg.call, outcome')
      /\ \A k \in Kind : arrived[k] # 0 => Says(k, arrived[k], outcome')
      /\ code # 0 => Says("error", code, outcome')
  BY <1>0, SaysStays, Typed
<1>2. ASSUME NEW n \in 1..Len(toClient), Recv(n) PROVE TrueInv'
  <2>1. toClient' = After(toClient, n) /\ (rpc' = "id" => rmsg' = toClient[1])
        /\ UNCHANGED <<arrived, code>>
    BY <1>2 DEF Recv, fields
  <2>2. ASSUME NEW i \in 1..Len(toClient')
        PROVE  Says(toClient'[i].id, toClient'[i].call, outcome')
    <3>1. toClient \in Seq(Answer)
      BY Typed
    <3>2. i + n \in 1..Len(toClient) /\ toClient'[i] = toClient[i + n]
      BY <2>1, <3>1, AfterProps
    <3> QED
      BY <1>1, <3>2, Zenon
  <2>3. rpc' = "id" => Says(rmsg'.id, rmsg'.call, outcome')
    BY <1>1, <2>1, Typed
  <2> QED
    BY <1>1, <2>1, <2>2, <2>3 DEF TrueInv
<1>3. CASE StoreId
  <2>1. /\ rpc = "id" /\ rpc' # "id" /\ toClient' = toClient
        /\ \/ rmsg.id = "error" /\ code' = rmsg.call /\ arrived' = arrived
           \/ rmsg.id # "error" /\ code' = code
              /\ arrived' = [arrived EXCEPT ![rmsg.id] = rmsg.call]
    BY <1>3 DEF StoreId, StoreCode, Body
  <2>2. \A k \in Kind : arrived'[k] # 0 => Says(k, arrived'[k], outcome')
    BY <1>1, <2>1, Typed
  <2>3. code' # 0 => Says("error", code', outcome')
    BY <1>1, <2>1
  <2> QED
    BY <1>1, <2>1, <2>2, <2>3 DEF TrueInv
<1>4. ASSUME NEW job \in handling, Reply(job) PROVE TrueInv'
  <2> DEFINE new == [call |-> job.call, id |-> AnswerId(job)]
  <2>1. /\ UNCHANGED <<rpc, rmsg, arrived, code, outcome>>
        /\ toClient' \in {toClient, Append(toClient, new)} /\ job.result # "none"
    BY <1>4 DEF Reply, fields, receiver
  <2>2. new \in Answer
    BY Typed, TypeStep DEF Job, Answer, Id, AnswerId
  <2>3. Says(new.id, new.call, outcome')
    <3>1. job.result \in {"ok", "failed"} /\ job.id # "error"
      BY <2>1, Typed DEF Job, Kind
    <3>2. job.call <= Len(outcome) /\ outcome[job.call] = job.result
      BY Typed DEF OnceInv, Taken
    <3> QED
      BY <2>1, <3>1, <3>2 DEF Says, AnswerId
  <2> HIDE DEF new
  <2>4. ASSUME NEW i \in 1..Len(toClient')
        PROVE  Says(toClient'[i].id, toClient'[i].call, outcome')
    <3>1. \/ i \in 1..Len(toClient) /\ toClient'[i] = toClient[i]
          \/ toClient'[i] = new
      BY <2>1, <2>2, Typed, AppendProperties
    <3> QED
      BY <1>1, <2>3, <3>1
  <2> QED
    BY <1>1, <2>1, <2>4 DEF TrueInv
<1>5. CASE Close
  <2>1. UNCHANGED <<rpc, rmsg, arrived, code>> /\ toClient' = <<>> /\ Len(<<>>) = 0
    BY <1>5, EmptySeq DEF Close, fields, receiver
  <2> QED
    BY <1>1, <2>1 DEF TrueInv
<1>6. CASE Caller
  <2>1. /\ UNCHANGED <<toClient, rpc, rmsg>>
        /\ code' \in {0, code} /\ arrived' \in {arrived, [arrived EXCEPT ![calls[Now]] = 0]}
    BY <1>6 DEF Caller, ClearId, ResetId, ClearBody, ClearCode, Return, fields, receiver
  <2>2. \A k \in Kind : arrived'[k] \in {0, arrived[k]}
    BY <2>1, Typed
  <2> QED
    BY <1>1, <2>1, <2>2 DEF TrueInv
<1>7. CASE UNCHANGED <<toClient, rpc, rmsg, arrived, code>>
  BY <1>1, <1>7 DEF TrueInv
<1>8. ASSUME NEW k \in Kind, Call(k) PROVE TrueInv'
  BY <1>7, <1>8 DEF Call, fields, receiver
<1>9. ASSUME NEW n \in 1..Len(toServer), Serve(n) PROVE TrueInv'
  BY <1>7, <1>9 DEF Serve, fields, receiver
<1>10. ASSUME NEW job \in handling, NEW result \in {"ok", "failed"}, Execute(job, result)
       PROVE  TrueInv'
  BY <1>7, <1>10 DEF Execute, fields, receiver
<1>11. CASE RecvPart \/ UNCHANGED vars
  BY <1>7, <1>11 DEF RecvPart, vars, fields, receiver
<1>12. CASE StoreKey \/ StoreItem
  <2>1. UNCHANGED <<toClient, arrived, code>> /\ rpc' # "id"
    BY <1>12 DEF StoreKey, StoreItem
  <2> QED
    BY <1>1, <2>1 DEF TrueInv
<1> QED
  BY <1>2, <1>3, <1>4, <1>5, <1>6, <1>8, <1>9, <1>10, <1>11, <1>12
  DEF Next, Receiver, Server

LEMMA AloneStep == TypeOK /\ AloneInv /\ [Next]_vars => AloneInv'
<1> SUFFICES ASSUME TypeOK, AloneInv, [Next]_vars, alone', cpc' # "idle" PROVE AloneInv'
  BY DEF AloneInv
<1>1. ASSUME NEW k \in Kind, Call(k) PROVE AloneInv'
  <2> DEFINE new == [call |-> Now + 1, id |-> k]
  <2>1. /\ toServer = <<>> /\ toClient' = <<>> /\ handling' = {} /\ rpc' = "recv" /\ cpc' = "sent"
        /\ toServer' \in {toServer, Append(toServer, new)}
    BY <1>1 DEF Call, Quiet, receiver
  <2>2. Now' = Now + 1 /\ new.call = Now + 1
    BY <1>1, CallAdds
  <2>3. new \in [call: Nat, id: Kind]
    BY Typed
  <2> HIDE DEF new
  <2>4. \A i \in 1..Len(toServer') : toServer'[i].call = Now'
    <3>1. Len(<<>>) = 0 /\ <<>> \in Seq([call: Nat, id: Kind])
      BY EmptySeq
    <3>2. Len(Append(<<>>, new)) = 1 /\ Append(<<>>, new)[1] = new
      BY <2>3, <3>1, AppendProperties
    <3> QED
      BY <2>1, <2>2, <3>1, <3>2
  <2> QED
    BY <2>1, <2>4, EmptySeq DEF AloneInv
<1> SUFFICES ASSUME ~ \E k \in Kind : Call(k) PROVE AloneInv'
  BY <1>1
<1>2. UNCHANGED <<alone, calls, Now>> /\ cpc # "idle"
  BY DEF Next, Caller, ClearId, ClearBody, ClearCode, Return, Receiver, Recv, StoreId,
         StoreKey, StoreItem, Server, Serve, Execute, Reply, RecvPart, Close, vars,
         caller, Now
<1>3. /\ \A i \in 1..Len(toServer) : toServer[i].call = Now
      /\ \A i \in 1..Len(toClient) : toClient[i].call = Now
      /\ \A job \in handling : job.call = Now
      /\ rpc = "id" => rmsg.call = Now
      /\ cpc # "sent" => arrived[calls[Now]] \in {0, Now}
      /\ cpc = "wait" /\ calls[Now] = "query" => code \in {0, Now}
  BY <1>2 DEF AloneInv
<1>4. CASE Caller
  <2>1. UNCHANGED <<toServer, toClient, handling, rpc, rmsg>>
    BY <1>4 DEF Caller, ClearId, ClearBody, ClearCode, Return, receiver, server
  <2>2. cpc' # "sent" /\ arrived'[calls[Now]] \in {0, Now}
    <3>1. CASE ClearId
      BY <1>2, <3>1, Typed DEF ClearId, ResetId
    <3>2. CASE ClearBody \/ ClearCode \/ Return
      BY <1>3, <3>2 DEF ClearBody, ClearCode, Return, fields
    <3> QED
      BY <1>4, <3>1, <3>2 DEF Caller
  <2>3. cpc' = "wait" /\ calls[Now] = "query" => code' \in {0, Now}
    BY <1>4 DEF Caller, ClearId, ClearBody, ClearCode, Return
  <2> QED
    BY <1>2, <1>3, <2>1, <2>2, <2>3 DEF AloneInv
<1>5. ASSUME NEW n \in 1..Len(toClient), Recv(n) PROVE AloneInv'
  <2>1. /\ toClient' = After(toClient, n) /\ (rpc' = "id" => rmsg' = toClient[1])
        /\ UNCHANGED <<cpc, toServer, handling, arrived, code>>
    BY <1>5 DEF Recv, fields, caller, server
  <2>2. ASSUME NEW i \in 1..Len(toClient') PROVE toClient'[i].call = Now
    <3>1. toClient \in Seq(Answer)
      BY Typed
    <3>2. i + n \in 1..Len(toClient) /\ toClient'[i] = toClient[i + n]
      BY <2>1, <3>1, AfterProps
    <3> QED
      BY <1>3, <3>2, Zenon
  <2>3. rpc' = "id" => rmsg'.call = Now
    BY <1>3, <2>1, Typed
  <2> QED
    BY <1>2, <1>3, <2>1, <2>2, <2>3 DEF AloneInv
<1>6. CASE StoreId \/ StoreKey \/ StoreItem
  <2>1. UNCHANGED <<cpc, toServer, toClient, handling>> /\ rpc' # "id"
    BY <1>6 DEF StoreId, Body, StoreKey, StoreItem, caller, server
  <2>2. /\ code' \in {code, Now}
        /\ \/ arrived' = arrived
           \/ arrived' = [arrived EXCEPT ![rmsg.id] = Now]
    BY <1>3, <1>6 DEF StoreId, StoreCode, StoreKey, StoreItem
  <2>3. cpc # "sent" => arrived'[calls[Now]] \in {0, Now}
    BY <1>2, <1>3, <2>2, Typed
  <2> QED
    BY <1>2, <1>3, <2>1, <2>2, <2>3 DEF AloneInv
<1>7. ASSUME NEW n \in 1..Len(toServer), Serve(n) PROVE AloneInv'
  <2> DEFINE new == [call |-> toServer[1].call, id |-> toServer[1].id, result |-> "none"]
  <2>1. /\ toServer' = After(toServer, n) /\ handling' \in {handling, handling \cup {new}}
        /\ UNCHANGED <<cpc, toClient, rpc, rmsg, arrived, code>>
    BY <1>7 DEF Serve, fields, caller, receiver
  <2>2. ASSUME NEW i \in 1..Len(toServer') PROVE toServer'[i].call = Now
    <3>1. toServer \in Seq(Request)
      BY Typed
    <3>2. i + n \in 1..Len(toServer) /\ toServer'[i] = toServer[i + n]
      BY <2>1, <3>1, AfterProps
    <3> QED
      BY <1>3, <3>2, Zenon
  <2>3. new.call = Now
    BY <1>3, Typed
  <2> QED
    BY <1>2, <1>3, <2>1, <2>2, <2>3 DEF AloneInv
<1>8. ASSUME NEW job \in handling, NEW result \in {"ok", "failed"}, Execute(job, result)
      PROVE  AloneInv'
  <2>1. /\ UNCHANGED <<cpc, toServer, toClient, rpc, rmsg, arrived, code>>
        /\ handling' = (handling \ {job}) \cup {[job EXCEPT !.result = result]}
    BY <1>8 DEF Execute, fields, caller, receiver
  <2>2. [job EXCEPT !.result = result].call = Now
    BY <1>3, Typed DEF Job
  <2> QED
    BY <1>2, <1>3, <2>1, <2>2 DEF AloneInv
<1>9. ASSUME NEW job \in handling, Reply(job) PROVE AloneInv'
  <2> DEFINE new == [call |-> job.call, id |-> AnswerId(job)]
  <2>1. /\ UNCHANGED <<cpc, toServer, rpc, rmsg, arrived, code>>
        /\ toClient' \in {toClient, Append(toClient, new)} /\ handling' \subseteq handling
    BY <1>9 DEF Reply, fields, caller, receiver
  <2>2. new \in Answer /\ new.call = Now
    BY <1>3, Typed DEF Job, Answer, Id, AnswerId
  <2> HIDE DEF new
  <2>3. \A i \in 1..Len(toClient') : toClient'[i].call = Now
    BY <1>3, <2>1, <2>2, Typed, AppendProperties
  <2> QED
    BY <1>2, <1>3, <2>1, <2>3 DEF AloneInv
<1>10. CASE Close
  <2>1. /\ UNCHANGED <<cpc, handling, rpc, rmsg, arrived, code>> /\ Len(<<>>) = 0
        /\ toServer' = <<>> /\ toClient' = <<>>
    BY <1>10, EmptySeq DEF Close, fields, caller, receiver, server
  <2> QED
    BY <1>2, <1>3, <2>1 DEF AloneInv
<1>11. CASE RecvPart \/ UNCHANGED vars
  <2>1. UNCHANGED <<cpc, toServer, toClient, handling, rpc, rmsg, arrived, code>>
    BY <1>11 DEF RecvPart, fields, caller, receiver, server, vars
  <2> QED
    BY <1>2, <1>3, <2>1 DEF AloneInv
<1> QED
  BY <1>4, <1>5, <1>6, <1>7, <1>8, <1>9, <1>10, <1>11 DEF Next, Receiver, Server

-----------------------------------------------------------------------------
LEMMA InvCorrect == Spec => []RpcInv
<1>1. Init => RpcInv
  <2> SUFFICES ASSUME Init PROVE RpcInv
    OBVIOUS
  <2>1. /\ Len(<<>>) = 0 /\ toServer = <<>> /\ toClient = <<>> /\ handling = {} /\ rpc = "recv"
        /\ code = 0 /\ cpc = "idle" /\ \A k \in Kind : arrived[k] = 0
    BY EmptySeq DEF Init
  <2>2. OnceInv /\ TrueInv /\ AloneInv
    BY <2>1 DEF OnceInv, TrueInv, AloneInv
  <2> QED
    BY <2>2, TypeInit DEF RpcInv
<1>2. RpcInv /\ [Next]_vars => RpcInv'
  BY TypeStep, OnceStep, TrueStep, AloneStep DEF RpcInv
<1> QED
  BY <1>1, <1>2, PTL DEF Spec

LEMMA RefineStep ==
  RpcInv /\ [Next]_vars => [Promise!Next]_(Promise!vars)
<1> SUFFICES ASSUME RpcInv, [Next]_vars PROVE [Promise!Next]_(Promise!vars)
  OBVIOUS
<1>0. TypeOK /\ OnceInv /\ TrueInv /\ AloneInv
  BY DEF RpcInv
<1>1. ASSUME NEW k \in Kind, Call(k) PROVE Promise!Call(k)
  <2>1. alone' \in BOOLEAN
    BY <1>1 DEF Call, Quiet
  <2> QED
    BY <1>1, <2>1, Zenon DEF Call, Now, Promise!Call, Promise!Last
<1>2. ASSUME NEW job \in handling, NEW result \in {"ok", "failed"}, Execute(job, result)
      PROVE  job.call \in 1..Now /\ Promise!Execute(job.call, result)
  <2>1. job.call \in 1..Now /\ outcome[job.call] = "none"
    BY <1>0, <1>2, Typed DEF Execute, OnceInv, Taken, Now
  <2> QED
    BY <1>2, <2>1 DEF Execute, caller, Promise!Execute, Promise!Last, Now
<1>3. ASSUME Return PROVE Promise!Return(Told)
  <2>1. /\ cpc = "wait" /\ cpc' = "idle" /\ told' = Told /\ UNCHANGED <<calls, outcome, alone>>
        /\ arrived[calls[Now]] # 0 \/ code > 0
    BY <1>3 DEF Return, server
  <2>2. ASSUME alone, Told = "ok" \/ calls[Now] = "query" PROVE outcome[Now] = Told
    <3>1. arrived[calls[Now]] \in {0, Now} /\ (calls[Now] = "query" => code \in {0, Now})
      BY <1>0, <2>1, <2>2 DEF AloneInv
    <3>2. CASE arrived[calls[Now]] # 0
      BY <1>0, <2>1, <3>1, <3>2, Typed DEF TrueInv, Says, Told, Kind
    <3>3. CASE arrived[calls[Now]] = 0
      <4>1. code = Now /\ code # 0 /\ Told = "failed"
        BY <1>0, <2>1, <2>2, <3>1, <3>3, Typed DEF Told
      <4> QED
        BY <1>0, <4>1 DEF TrueInv, Says
    <3> QED
      BY <3>2, <3>3
  <2> QED
    BY <2>1, <2>2 DEF Promise!Return, Promise!Last, Now
<1>4. CASE UNCHANGED <<calls, outcome, cpc # "idle", alone, told>>
  BY <1>4 DEF Promise!vars
<1>5. CASE ClearId \/ ClearBody \/ ClearCode
  BY <1>4, <1>5 DEF ClearId, ClearBody, ClearCode, server
<1>6. CASE Receiver \/ RecvPart \/ Close \/ UNCHANGED vars
  BY <1>4, <1>6 DEF Receiver, Recv, StoreId, StoreKey, StoreItem, RecvPart, Close, vars,
                    caller, server
<1>7. ASSUME NEW n \in 1..Len(toServer), Serve(n) PROVE [Promise!Next]_(Promise!vars)
  BY <1>4, <1>7 DEF Serve, caller
<1>8. ASSUME NEW job \in handling, Reply(job) PROVE [Promise!Next]_(Promise!vars)
  BY <1>4, <1>8 DEF Reply, caller
<1>9. Told \in {"ok", "failed"}
  BY DEF Told
<1> QED
  BY <1>1, <1>2, <1>3, <1>5, <1>6, <1>7, <1>8, <1>9
  DEF Next, Caller, Server, Promise!Next, Promise!Last, Now

(* The calls of DBClient implement DBCall: at most once, and with truth    *)
(* for a call made alone (DBClient.cpp:20-98, DBServer.cpp:20-123).        *)
THEOREM Implements == Spec => IsCall
<1>1. Init => Promise!Init
  BY DEF Init, Promise!Init
<1> QED
  BY <1>1, RefineStep, InvCorrect, PTL DEF Spec, IsCall, Promise!Spec

-----------------------------------------------------------------------------
(* While a call made alone is under way there is one message of it: a      *)
(* request, a job, an answer, or what the receive thread works on.         *)
Active == rpc \in {"id", "key", "list"}
SingleInv ==
  alone /\ cpc # "idle" =>
    /\ Len(toClient) <= 1
    /\ toClient # <<>> => toServer = <<>> /\ handling = {} /\ ~Active
    /\ Active => toServer = <<>> /\ handling = {}

(* So the fields the caller reset hold of its answer what is stored, once. *)
Unanswered == toServer # <<>> \/ handling # {} \/ toClient # <<>> \/ rpc = "id"
ListInv ==
  /\ \A i \in 1..Len(list) : list[i] = Now
  /\ Len(list) <= Rows
  /\ rpc = "list" => Len(list) + left <= Rows
  /\ Unanswered => list = <<>>
BodyInv ==
  alone /\ cpc # "idle" =>
    /\ rpc \in {"key", "list"} => rmsg.call = Now
    /\ cpc = "body" => calls[Now] = "query"
    /\ cpc \in {"body", "wait"} /\ calls[Now] = "query" => ListInv
    /\ cpc = "wait" /\ calls[Now] = "insert" => key \in {0, Now}

(* But for Call, no step begins a call.                                    *)
LEMMA CallGoesOn ==
  ASSUME [Next]_vars, ~ \E k \in Kind : Call(k), alone', cpc' # "idle"
  PROVE  UNCHANGED <<alone, calls, Now>> /\ alone /\ cpc # "idle"
BY DEF Next, Caller, ClearId, ClearBody, ClearCode, Return, Receiver, Recv, StoreId,
       StoreKey, StoreItem, Server, Serve, Execute, Reply, RecvPart, Close, vars,
       caller, Now

LEMMA SingleStep ==
  TypeOK /\ OnceInv /\ AloneInv /\ SingleInv /\ [Next]_vars => SingleInv'
<1> SUFFICES ASSUME TypeOK, OnceInv, AloneInv, SingleInv, [Next]_vars, alone', cpc' # "idle"
             PROVE  SingleInv'
  BY DEF SingleInv
<1>1. ASSUME NEW k \in Kind, Call(k) PROVE SingleInv'
  <2>1. toClient' = <<>> /\ handling' = {} /\ rpc' = "recv"
    BY <1>1 DEF Call, Quiet, receiver
  <2> QED
    BY <2>1, EmptySeq DEF SingleInv, Active
<1> SUFFICES ASSUME ~ \E k \in Kind : Call(k) PROVE SingleInv'
  BY <1>1
<1>2. alone /\ cpc # "idle"
  BY CallGoesOn
<1>3. /\ Len(toClient) <= 1
      /\ toClient # <<>> => toServer = <<>> /\ handling = {} /\ ~Active
      /\ Active => toServer = <<>> /\ handling = {}
  BY <1>2 DEF SingleInv
<1>4. CASE Caller \/ RecvPart \/ UNCHANGED vars
  <2>1. UNCHANGED <<toServer, toClient, handling, rpc>>
    BY <1>4 DEF Caller, ClearId, ClearBody, ClearCode, Return, RecvPart, receiver, server, vars
  <2> QED
    BY <1>3, <2>1 DEF SingleInv, Active
<1>5. ASSUME NEW n \in 1..Len(toClient), Recv(n) PROVE SingleInv'
  <2>1. toClient' = After(toClient, n) /\ UNCHANGED <<toServer, handling>>
    BY <1>5 DEF Recv, server
  <2>2. Len(toClient') = 0 /\ toClient' \in Seq(Answer)
    BY <1>3, <2>1, Typed, AfterProps
  <2>3. toClient' = <<>>
    BY <2>2, EmptySeq
  <2>4. toServer = <<>> /\ handling = {}
    BY <1>3, EmptySeq
  <2> QED
    BY <2>1, <2>2, <2>3, <2>4 DEF SingleInv
<1>6. CASE StoreId \/ StoreKey \/ StoreItem
  <2>1. Active /\ UNCHANGED <<toServer, toClient, handling>>
    BY <1>6 DEF StoreId, StoreKey, StoreItem, Active, server
  <2> QED
    BY <1>3, <2>1 DEF SingleInv
<1>7. ASSUME NEW n \in 1..Len(toServer), Serve(n) PROVE SingleInv'
  <2>1. toServer # <<>> /\ UNCHANGED <<toClient, rpc>>
    BY <1>7, EmptySeq DEF Serve, receiver
  <2> QED
    BY <1>3, <2>1 DEF SingleInv, Active
<1>8. ASSUME NEW job \in handling, NEW result \in {"ok", "failed"}, Execute(job, result)
      PROVE  SingleInv'
  <2>1. UNCHANGED <<toClient, rpc>> /\ handling # {}
    BY <1>8 DEF Execute, receiver
  <2> QED
    BY <1>3, <2>1 DEF SingleInv, Active
<1>9. ASSUME NEW job \in handling, Reply(job) PROVE SingleInv'
  <2> DEFINE new == [call |-> job.call, id |-> AnswerId(job)]
  <2>1. /\ UNCHANGED <<toServer, rpc>> /\ handling' = handling \ {job}
        /\ toClient' \in {toClient, Append(toClient, new)}
    BY <1>9 DEF Reply, receiver
  <2>2. \A other \in handling : other = job
    BY <1>2 DEF AloneInv, OnceInv
  <2>3. ~ \E i \in 1..Len(toServer) : TRUE
    BY <1>2 DEF AloneInv, OnceInv
  <2>4. toServer = <<>>
    BY <2>3, Typed, EmptySeq
  <2>5. new \in Answer
    BY Typed DEF Job, Answer, Id, AnswerId
  <2>6. toClient = <<>> /\ ~Active
    BY <1>3
  <2> HIDE DEF new
  <2>7. Len(toClient') <= 1
    <3>1. <<>> \in Seq(Answer) /\ Len(<<>>) = 0
      BY EmptySeq
    <3>2. Len(Append(<<>>, new)) = Len(<<>>) + 1
      BY <2>5, <3>1, AppendProperties
    <3>3. toClient' = <<>> \/ toClient' = Append(<<>>, new)
      BY <2>1, <2>6
    <3>4. Len(<<>>) + 1 = 1
      BY <3>1
    <3>5. Len(toClient') = 0 \/ Len(toClient') = 1
      BY <3>1, <3>2, <3>3, <3>4, Zenon
    <3>6. \A x : x = 0 \/ x = 1 => x <= 1
      OBVIOUS
    <3> QED
      BY <3>5, <3>6, Zenon
  <2> QED
    BY <2>1, <2>2, <2>4, <2>6, <2>7 DEF SingleInv, Active
<1>10. CASE Close
  <2>1. UNCHANGED <<handling, rpc>> /\ toServer' = <<>> /\ toClient' = <<>>
    BY <1>10 DEF Close, receiver, server
  <2> QED
    BY <1>3, <2>1, EmptySeq DEF SingleInv, Active
<1> QED
  BY <1>4, <1>5, <1>6, <1>7, <1>8, <1>9, <1>10 DEF Next, Receiver, Server

LEMMA BodyStep ==
  TypeOK /\ AloneInv /\ SingleInv /\ BodyInv /\ [Next]_vars => BodyInv'
<1> SUFFICES ASSUME TypeOK, AloneInv, SingleInv, BodyInv, [Next]_vars, alone', cpc' # "idle"
             PROVE  BodyInv'
  BY DEF BodyInv
<1>1. ASSUME NEW k \in Kind, Call(k) PROVE BodyInv'
  <2>1. cpc' = "sent" /\ rpc' = "recv"
    BY <1>1 DEF Call, Quiet, receiver
  <2> QED
    BY <2>1 DEF BodyInv
<1> SUFFICES ASSUME ~ \E k \in Kind : Call(k) PROVE BodyInv'
  BY <1>1
<1>2. UNCHANGED <<calls, Now>> /\ alone /\ cpc # "idle"
  BY CallGoesOn
<1>3. /\ rpc \in {"key", "list"} => rmsg.call = Now
      /\ cpc = "body" => calls[Now] = "query"
      /\ cpc \in {"body", "wait"} /\ calls[Now] = "query" => ListInv
      /\ cpc = "wait" /\ calls[Now] = "insert" => key \in {0, Now}
  BY <1>2 DEF BodyInv
<1>4. Rows \in Nat \ {0} /\ Now \in Nat /\ left \in 0..Rows /\ list \in Seq(1..MaxCalls)
  BY DBRpcAssumption, Typed DEF TypeOK, ReceiverType, FieldType
<1>5. ASSUME UNCHANGED <<list, left>>, rpc' = "list" => rpc = "list", Unanswered' => Unanswered
      PROVE  ListInv => ListInv'
  BY <1>2, <1>5 DEF ListInv
<1>6. CASE ClearId \/ ClearBody \/ ClearCode \/ Return
  <2>1. UNCHANGED <<toServer, toClient, handling, rpc, rmsg, left>>
    BY <1>6 DEF ClearId, ClearBody, ClearCode, Return, receiver, server
  <2>2. Unanswered' = Unanswered
    BY <2>1 DEF Unanswered
  <2>3. CASE ClearId
    <3>1. cpc' \notin {"body"} /\ (cpc' = "wait" => calls[Now] \notin {"query", "insert"})
      BY <2>3 DEF ClearId
    <3> QED
      BY <1>2, <1>3, <2>1, <3>1 DEF BodyInv
  <2>4. CASE ClearBody
    <3>1. CASE calls[Now] = "query"
      <4>1. list' = <<>> /\ cpc' = "body"
        BY <2>4, <3>1 DEF ClearBody, ResetBody
      <4>2. Len(list') = 0
        BY <4>1, EmptySeq
      <4>3. Len(list') <= Rows /\ Len(list') + left <= Rows
        BY <1>4, <4>2
      <4>4. \A i \in 1..Len(list') : list'[i] = Now
        BY <4>2
      <4>5. ListInv'
        BY <1>2, <2>1, <4>1, <4>3, <4>4 DEF ListInv
      <4> QED
        BY <1>2, <1>3, <2>1, <3>1, <4>1, <4>5 DEF BodyInv
    <3>2. CASE calls[Now] # "query"
      <4>1. key' = 0 /\ cpc' = "wait"
        BY <2>4, <3>2 DEF ClearBody, ResetBody
      <4> QED
        BY <1>2, <1>3, <2>1, <3>2, <4>1 DEF BodyInv, ClearBody
    <3> QED
      BY <3>1, <3>2
  <2>5. CASE ClearCode \/ Return
    <3>1. UNCHANGED <<list, key>> /\ cpc \in {"body", "wait"}
      BY <2>5 DEF ClearCode, Return, fields
    <3>2. ListInv => ListInv'
      BY <1>5, <2>1, <2>2, <3>1
    <3>3. cpc' = "wait" => cpc = "body"
      BY <2>5 DEF ClearCode, Return
    <3>4. CASE Return
      BY <3>4 DEF Return
    <3>5. CASE ClearCode
      BY <1>2, <1>3, <2>1, <3>1, <3>2, <3>3, <3>5 DEF BodyInv, ClearCode
    <3> QED
      BY <2>5, <3>4, <3>5
  <2> QED
    BY <1>6, <2>3, <2>4, <2>5
<1>7. ASSUME UNCHANGED <<cpc, list, key, left>>, rpc' \in {"key", "list"} => rpc' = rpc /\ rmsg' = rmsg,
             Unanswered' => Unanswered
      PROVE  BodyInv'
  <2>1. ListInv => ListInv'
    BY <1>5, <1>7
  <2> QED
    BY <1>2, <1>3, <1>7, <2>1 DEF BodyInv
<1>8. ASSUME NEW n \in 1..Len(toClient), Recv(n) PROVE BodyInv'
  <2>1. toClient # <<>> /\ rpc' \in {"id", "full"} /\ UNCHANGED <<cpc, list, key, left>>
    BY <1>8, EmptySeq DEF Recv, fields, caller
  <2> QED
    BY <1>7, <2>1 DEF Unanswered
<1>9. ASSUME NEW n \in 1..Len(toServer), Serve(n) PROVE BodyInv'
  <2>1. toServer # <<>> /\ UNCHANGED <<cpc, list, key, left, rpc, rmsg>>
    BY <1>9, EmptySeq DEF Serve, fields, caller, receiver
  <2> QED
    BY <1>7, <2>1 DEF Unanswered
<1>10. ASSUME NEW job \in handling,
              Reply(job) \/ \E result \in {"ok", "failed"} : Execute(job, result)
       PROVE  BodyInv'
  <2>1. handling # {} /\ UNCHANGED <<cpc, list, key, left, rpc, rmsg>>
    BY <1>10 DEF Reply, Execute, fields, caller, receiver
  <2> QED
    BY <1>7, <2>1 DEF Unanswered
<1>11. CASE Close \/ RecvPart \/ UNCHANGED vars
  <2>1. UNCHANGED <<cpc, list, key, left, rpc, rmsg, handling>>
    BY <1>11 DEF Close, RecvPart, fields, caller, receiver, server, vars
  <2>2. \/ toServer' = <<>> /\ toClient' = <<>>
        \/ UNCHANGED <<toServer, toClient>>
    BY <1>11 DEF Close, RecvPart, vars
  <2>3. Unanswered' => Unanswered
    BY <2>1, <2>2 DEF Unanswered
  <2> QED
    BY <1>7, <2>1, <2>3
<1>12. CASE StoreId \/ StoreKey \/ StoreItem
  <2>1. Active /\ UNCHANGED <<toServer, toClient, handling, cpc, rmsg>> /\ rpc' # "id"
    BY <1>12 DEF StoreId, Body, StoreKey, StoreItem, Active, server, caller
  <2>2. ~Unanswered' /\ rmsg.call = Now
    BY <1>2, <1>3, <2>1 DEF SingleInv, AloneInv, Unanswered, Active
  <2>3. CASE StoreId
    <3>1. rpc = "id" /\ UNCHANGED <<list, key>>
      BY <2>3 DEF StoreId
    <3>2. rpc' = "list" => left' = Rows
      BY <2>3 DEF StoreId
    <3>3. ASSUME ListInv PROVE ListInv'
      <4>1. list = <<>>
        BY <3>1, <3>3 DEF ListInv, Unanswered
      <4>2. Len(list) = 0
        BY <4>1, EmptySeq
      <4>3. rpc' = "list" => Len(list) + left' <= Rows
        BY <1>4, <3>2, <4>2
      <4> QED
        BY <1>2, <2>2, <3>1, <3>3, <4>3 DEF ListInv
    <3> QED
      BY <1>2, <1>3, <2>1, <2>2, <3>1, <3>3 DEF BodyInv
  <2>4. CASE StoreKey
    <3>1. rpc' = "recv" /\ key' = Now /\ UNCHANGED <<list, left>>
      BY <2>2, <2>4 DEF StoreKey
    <3>2. ListInv => ListInv'
      BY <1>5, <2>2, <3>1
    <3> QED
      BY <1>2, <1>3, <2>1, <3>1, <3>2 DEF BodyInv
  <2>5. CASE StoreItem
    <3>1. rpc = "list" /\ key' = key /\ list' = Append(list, Now) /\ left' = left - 1
      BY <2>2, <2>5 DEF StoreItem
    <3>2. left # 0 /\ rmsg.call \in 1..MaxCalls
      BY <3>1 DEF TypeOK, ReceiverType, Answer, NoMessage
    <3>3. /\ Len(list') = Len(list) + 1 /\ list'[Len(list) + 1] = Now
          /\ \A i \in 1..Len(list) : list'[i] = list[i]
      BY <1>4, <2>2, <3>1, <3>2, AppendProperties
    <3>4. ASSUME ListInv PROVE ListInv'
      <4>1. Len(list) \in Nat /\ Len(list) + left <= Rows /\ \A i \in 1..Len(list) : list[i] = Now
        BY <1>4, <3>1, <3>4 DEF ListInv
      <4>2. Len(list') <= Rows /\ Len(list') + left' <= Rows
        BY <1>4, <3>1, <3>2, <3>3, <4>1
      <4>3. \A i \in 1..Len(list') : list'[i] = Now
        BY <3>3, <4>1
      <4> QED
        BY <1>2, <2>2, <4>2, <4>3 DEF ListInv
    <3> QED
      BY <1>2, <1>3, <2>1, <2>2, <3>1, <3>4 DEF BodyInv
  <2> QED
    BY <1>12, <2>3, <2>4, <2>5
<1> QED
  BY <1>6, <1>8, <1>9, <1>10, <1>11, <1>12 DEF Next, Caller, Receiver, Server

(* No item or key of another call's answer is returned by a call that was  *)
(* made alone, and no more items than its own answer has                   *)
(* (DBClient.cpp:20-55, DBProtocol.cpp:57-83).                             *)
THEOREM ReturnsOwn == Spec => ReturnsOwnBody
<1>1. Init => SingleInv /\ BodyInv
  BY DEF Init, SingleInv, BodyInv
<1>2. RpcInv /\ SingleInv /\ BodyInv /\ [Next]_vars => (SingleInv /\ BodyInv)'
  BY SingleStep, BodyStep DEF RpcInv
<1>3. TypeOK /\ BodyInv
        => [Return /\ alone /\ told' = "ok" =>
              /\ calls[Now] = "insert" => key \in {0, Now}
              /\ calls[Now] = "query" =>
                   Len(list) <= Rows /\ \A i \in 1..Len(list) : list[i] = Now]_vars
  BY DEF BodyInv, ListInv, Return
<1>4. Spec => [](SingleInv /\ BodyInv)
  BY <1>1, <1>2, InvCorrect, PTL DEF Spec
<1> QED
  BY <1>3, <1>4, TypeCorrect, PTL DEF ReturnsOwnBody
=============================================================================
