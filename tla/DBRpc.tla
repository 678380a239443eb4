-------------------------------- MODULE DBRpc --------------------------------
(***************************************************************************)
(* A call of the cache's client to the cache's server and back.  The       *)
(* caller (DBClient::SendQueryDB, SendModifyDB, SendInsertDB,              *)
(* SendLoadTableDB) sends a request, resets the fields its answer is to    *)
(* come in and spins on them; the receive thread (NetClient,               *)
(* DBClient::NotifyRecvText) takes what recv returns for one answer and    *)
(* stores it field by field; the server (DBServer::NotifyRecvFinish)       *)
(* takes what it read for one request.  Nothing is locked.                 *)
(*                                                                         *)
(* A message is its id and the number of the call it belongs to; what was  *)
(* serialised is what is unserialised.  An answer to a query has Rows      *)
(* items.  What becomes of an answer that is cut by TCP, or of the tail of *)
(* a stream of them, is not specified: the model stops there, broken.      *)
(***************************************************************************)
EXTENDS Naturals, Sequences, FiniteSets, SequencesExt

CONSTANTS
  MaxCalls,      \* bound of this model: calls made
  MaxHandling,   \* requests of one client the server handles at a time
  BufferSize,    \* NET_BUFFER_MAXSIZE
  RequestSize,   \* bytes of each kind of request
  AnswerSize,    \* bytes of each kind of answer, "error" included
  Rows           \* items of the lists of a query's answer

Kind == {"query", "modify", "insert", "load"}

ASSUME DBRpcAssumption ==
  /\ MaxCalls \in Nat /\ MaxHandling \in Nat /\ BufferSize \in Nat
  /\ RequestSize \in [Kind -> Nat]
  /\ AnswerSize \in [Kind \cup {"error"} -> Nat]
  /\ Rows \in Nat \ {0}

VARIABLES
  cpc,        \* where the caller is
  arrived,    \* the protId of each kind's field: the call it answers, 0 when -1
  key,        \* m_InsertRef.dataKey: the call it answers, 0 when empty
  list,       \* m_QueryRef's lists: the call each item answers
  code,       \* m_iErrorCode: the call it answers, 0 when not positive
  rpc, rmsg,  \* where the receive thread is, and the answer it works on
  left,       \* items of rmsg it has still to store
  toServer, toClient,  \* requests and answers on their way
  handling,   \* requests the server works on
  closed,     \* the connection is closed
  broken,     \* the receive thread reads what is no answer
  calls, outcome, told,  \* history: as in DBCall
  alone,      \* history: the last call was made while no other was under way
  lost        \* history: calls whose request or answer was thrown away

caller   == <<cpc, told, alone>>
fields   == <<arrived, key, list, code>>
receiver == <<rpc, rmsg, left>>
server   == <<handling, outcome>>
vars     == <<caller, fields, receiver, toServer, toClient, server, closed,
              broken, calls, lost>>

Id == Kind \cup {"error"}
NoMessage == [call |-> 0, id |-> "error"]
Answer == [call: 1..MaxCalls, id: Id]
Request == [call: 1..MaxCalls, id: Kind]
Job == [call: 1..MaxCalls, id: Kind, result: {"none", "ok", "failed"}]

CallerType ==
  /\ cpc \in {"idle", "sent", "cleared", "body", "wait"}
  /\ calls \in Seq(Kind) /\ Len(calls) <= MaxCalls
  /\ outcome \in Seq({"none", "ok", "failed"}) /\ Len(outcome) = Len(calls)
  /\ cpc # "idle" => calls # <<>>
  /\ told \in {"none", "ok", "failed"} /\ alone \in BOOLEAN
FieldType ==
  /\ arrived \in [Kind -> 0..MaxCalls] /\ key \in 0..MaxCalls
  /\ list \in Seq(1..MaxCalls) /\ code \in 0..MaxCalls
ReceiverType ==
  /\ rpc \in {"recv", "id", "key", "list", "full"} /\ left \in 0..Rows
  /\ rmsg \in Answer \cup {NoMessage}
  /\ rpc \in {"id", "key", "list"} => rmsg # NoMessage
  /\ rpc = "list" => left # 0
WireType ==
  /\ toServer \in Seq(Request) /\ toClient \in Seq(Answer) /\ handling \subseteq Job
  /\ closed \in BOOLEAN /\ broken \in BOOLEAN /\ lost \subseteq 1..MaxCalls
TypeOK == CallerType /\ FieldType /\ ReceiverType /\ WireType

Init ==
  /\ cpc = "idle" /\ told = "none" /\ alone = FALSE
  /\ arrived = [k \in Kind |-> 0] /\ key = 0 /\ list = <<>> /\ code = 0
  /\ rpc = "recv" /\ rmsg = NoMessage /\ left = 0
  /\ toServer = <<>> /\ toClient = <<>> /\ handling = {} /\ outcome = <<>>
  /\ closed = FALSE /\ broken = FALSE /\ calls = <<>> /\ lost = {}

Now == Len(calls)
Quiet == toServer = <<>> /\ toClient = <<>> /\ handling = {} /\ rpc = "recv"
CallsOf(messages) == {messages[i].call : i \in 1..Len(messages)}
WithSize(size, messages) ==
  LET Add(m, sum) == sum + size[m.id] IN FoldSeq(Add, 0, messages)
Fits(size, messages) == WithSize(size, messages) < BufferSize
Dropped(messages, n) == CallsOf(SubSeq(messages, 2, n))
After(messages, n) == SubSeq(messages, n + 1, Len(messages))

-----------------------------------------------------------------------------
(* The caller.                                                             *)

(* SendText: on a closed connection the request goes nowhere. *)
Call(k) ==
  /\ cpc = "idle" /\ Now < MaxCalls
  /\ calls' = Append(calls, k) /\ outcome' = Append(outcome, "none")
  /\ toServer' = IF closed THEN toServer
                 ELSE Append(toServer, [call |-> Now + 1, id |-> k])
  /\ cpc' = "sent" /\ alone' = Quiet
  /\ UNCHANGED <<told, fields, receiver, toClient, handling, closed, broken, lost>>

(* Mutated form: the protId of the answer before is left. *)
KeepId == UNCHANGED arrived
ResetId == arrived' = [arrived EXCEPT ![calls[Now]] = 0]

(* protId = -1, whether or not the answer has come. *)
ClearId ==
  /\ cpc = "sent" /\ ResetId
  /\ cpc' = IF calls[Now] \in {"query", "insert"} THEN "cleared" ELSE "wait"
  /\ UNCHANGED <<told, alone, key, list, code, receiver, toServer, toClient,
                 server, closed, broken, calls, lost>>

(* Mutated form: the lists of the query before are left. *)
KeepBody == UNCHANGED <<key, list>>
ResetBody ==
  IF calls[Now] = "query" THEN list' = <<>> /\ UNCHANGED key
                           ELSE key' = 0 /\ UNCHANGED list

ClearBody ==
  /\ cpc = "cleared" /\ ResetBody
  /\ cpc' = IF calls[Now] = "query" THEN "body" ELSE "wait"
  /\ UNCHANGED <<told, alone, arrived, code, receiver, toServer, toClient,
                 server, closed, broken, calls, lost>>

(* Only a query resets m_iErrorCode. *)
ClearCode ==
  /\ cpc = "body" /\ code' = 0 /\ cpc' = "wait"
  /\ UNCHANGED <<told, alone, arrived, key, list, receiver, toServer, toClient,
                 server, closed, broken, calls, lost>>

(* CHECK_WHILE_RETURN. *)
Told == IF arrived[calls[Now]] # 0 THEN "ok" ELSE "failed"
Return ==
  /\ cpc = "wait" /\ (arrived[calls[Now]] # 0 \/ code > 0)
  /\ cpc' = "idle" /\ told' = Told
  /\ UNCHANGED <<alone, fields, receiver, toServer, toClient, server, closed,
                 broken, calls, lost>>

-----------------------------------------------------------------------------
(* The receive thread.                                                     *)

(* fu_socket_recv: n answers are there.  When they fill the buffer their   *)
(* beginning is dropped and recv called until the connection ends; else    *)
(* the first is taken and the others are dropped.                          *)
Recv(n) ==
  /\ rpc = "recv" /\ n \in 1..Len(toClient)
  /\ toClient' = After(toClient, n)
  /\ \/ /\ Fits(AnswerSize, SubSeq(toClient, 1, n))
        /\ rpc' = "id" /\ rmsg' = toClient[1]
        /\ lost' = lost \cup Dropped(toClient, n)
     \/ /\ ~Fits(AnswerSize, SubSeq(toClient, 1, n))
        /\ rpc' = "full" /\ lost' = lost \cup CallsOf(SubSeq(toClient, 1, n))
        /\ UNCHANGED rmsg
  /\ UNCHANGED <<caller, fields, left, toServer, server, closed, broken, calls>>

(* A segment ends within an answer, or the connection ends and what came   *)
(* after the dropped buffer is handed over.                                *)
RecvPart ==
  /\ \/ rpc = "recv" /\ toClient # <<>>
     \/ rpc = "full" /\ closed
  /\ broken' = TRUE
  /\ UNCHANGED <<caller, fields, receiver, toServer, toClient, server, closed, calls, lost>>

(* Mutated form: the code of an error is only logged. *)
LogError == UNCHANGED code
StoreCode == code' = rmsg.call

(* The caller has still to reset the field the answer comes in. *)
Early ==
  /\ rmsg.call = Now
  /\ IF rmsg.id = "error" THEN calls[Now] = "query" /\ cpc \in {"sent", "cleared", "body"}
                          ELSE cpc = "sent"

Body(id) ==
  IF id = "query" THEN "list" ELSE IF id = "insert" THEN "key" ELSE "recv"

(* NotifyRecvText up to the answer's protId, which is stored first.  Error *)
(* has no break: it goes on to FUAssert(false, "not the prot ID!").        *)
StoreId ==
  /\ rpc = "id"
  /\ \/ /\ rmsg.id = "error" /\ StoreCode
        /\ rpc' = "recv"
        /\ UNCHANGED <<arrived, left>>
     \/ /\ rmsg.id # "error" /\ arrived' = [arrived EXCEPT ![rmsg.id] = rmsg.call]
        /\ rpc' = Body(rmsg.id)
        /\ left' = Rows
        /\ UNCHANGED code
  /\ lost' = IF Early THEN lost \cup {Now} ELSE lost
  /\ UNCHANGED <<caller, key, list, rmsg, toServer, toClient, server, closed,
                 broken, calls>>

StoreKey ==
  /\ rpc = "key"
  /\ key' = rmsg.call /\ rpc' = "recv"
  /\ UNCHANGED <<caller, arrived, list, code, rmsg, left, toServer, toClient,
                 server, closed, broken, calls, lost>>

(* Mutated form: one turn of the loop too many. *)
OneMore == left = 0
LastItem == left = 1

StoreItem ==
  /\ rpc = "list"
  /\ list' = Append(list, rmsg.call)
  /\ left' = left - 1 /\ rpc' = IF LastItem THEN "recv" ELSE "list"
  /\ UNCHANGED <<caller, arrived, key, code, rmsg, toServer, toClient, server,
                 closed, broken, calls, lost>>

-----------------------------------------------------------------------------
(* The server.                                                             *)

(* One receive hands over n requests as one: the first is done.  When they *)
(* fill the buffer none is: what is handed over, if anything, does not     *)
(* begin with an id the server knows.                                      *)
Serve(n) ==
  /\ ~closed /\ n \in 1..Len(toServer) /\ Cardinality(handling) < MaxHandling
  /\ toServer' = After(toServer, n)
  /\ \/ /\ Fits(RequestSize, SubSeq(toServer, 1, n))
        /\ handling' = handling \cup
             {[call |-> toServer[1].call, id |-> toServer[1].id, result |-> "none"]}
        /\ lost' = lost \cup Dropped(toServer, n)
     \/ /\ ~Fits(RequestSize, SubSeq(toServer, 1, n))
        /\ lost' = lost \cup CallsOf(SubSeq(toServer, 1, n))
        /\ UNCHANGED handling
  /\ UNCHANGED <<caller, fields, receiver, toClient, outcome, closed, broken, calls>>

(* DBManager does what is asked, or fails. *)
Execute(job, result) ==
  /\ job \in handling /\ job.result = "none"
  /\ handling' = (handling \ {job}) \cup {[job EXCEPT !.result = result]}
  /\ outcome' = [outcome EXCEPT ![job.call] = result]
  /\ UNCHANGED <<caller, fields, receiver, toServer, toClient, closed, broken, calls, lost>>

(* NotifyRecvFinish answers with the request's id, or with an error. *)
AnswerId(job) == IF job.result = "ok" THEN job.id ELSE "error"

Reply(job) ==
  /\ job \in handling /\ job.result # "none"
  /\ handling' = handling \ {job}
  /\ toClient' = IF closed THEN toClient
                 ELSE Append(toClient, [call |-> job.call, id |-> AnswerId(job)])
  /\ UNCHANGED <<caller, fields, receiver, toServer, outcome, closed, broken, calls, lost>>

(* The connection ends; nothing that was on its way is read any more. *)
Close ==
  /\ ~closed /\ closed' = TRUE
  /\ toServer' = <<>> /\ toClient' = <<>>
  /\ UNCHANGED <<caller, fields, receiver, server, broken, calls, lost>>

-----------------------------------------------------------------------------
Caller == ClearId \/ ClearBody \/ ClearCode \/ Return
Receiver ==
  \/ \E n \in 1..Len(toClient) : Recv(n)
  \/ StoreId \/ StoreKey \/ StoreItem
Server ==
  \/ \E n \in 1..Len(toServer) : Serve(n)
  \/ \E job \in handling :
       Reply(job) \/ \E result \in {"ok", "failed"} : Execute(job, result)

Next ==
  ~broken /\ (\/ \E k \in Kind : Call(k)
              \/ Caller \/ Receiver \/ Server \/ RecvPart \/ Close)
Spec == Init /\ [][Next]_vars

(* The OS schedules the caller, which spins, the receive thread and the    *)
(* server's threads; TCP delivers what was sent.                           *)
FairSpec ==
  /\ Spec /\ WF_vars(~broken /\ Caller) /\ WF_vars(~broken /\ Receiver)
  /\ WF_vars(~broken /\ Server)

-----------------------------------------------------------------------------
(* The client implements DBCall: requests are carried out at most once,    *)
(* and though fields are reset after the request was sent, and an error    *)
(* code stays set until the next query, a call made while no other was     *)
(* under way is told "ok" only by its own answer, and a query made then is *)
(* told "failed" only by its own error (DBClient.cpp:20-98).               *)
Promise == INSTANCE DBCall WITH busy <- cpc # "idle"
IsCall == Promise!Spec

(* What such a call returns is its own, though perhaps not whole: the      *)
(* protId is stored before the rest, so the key may still be "" and items  *)
(* missing, but no item of another call is in the lists                    *)
(* (DBClient.cpp:26-28, 48-49, DBProtocol.cpp:57-83).                      *)
ReturnsOwnBody ==
  [][Return /\ alone /\ told' = "ok" =>
       /\ calls[Now] = "insert" => key \in {0, Now}
       /\ calls[Now] = "query" => Len(list) <= Rows /\ \A i \in 1..Len(list) : list[i] = Now]_vars

(* A call returns, unless its request or answer was thrown away - stored   *)
(* before the field was reset, joined to another, filling the buffer - or  *)
(* the connection ended or a full buffer keeps the receive thread in recv  *)
(* (DBClient.cpp:5-6, NetClient.cpp:8-16, NetBase.cpp:94-133).             *)
CallReturns ==
  \A i \in 1..MaxCalls :
    cpc # "idle" /\ Now = i ~>
      cpc = "idle" \/ i \in lost \/ closed \/ broken \/ rpc = "full"
=============================================================================
