------------------------ MODULE NetServerWin32_proofs ------------------------
(***************************************************************************)
(* Proofs about NetServerWin32, for any clients, handles, workers and      *)
(* blocks: types, the ownership of blocks, that neither an accept to be    *)
(* posted again nor a waiting connection is forgotten, and that every live *)
(* connection is listened to, and until a reply is sent by one receive.    *)
(***************************************************************************)
EXTENDS NetServerWin32, TLAPS

-----------------------------------------------------------------------------
(* Operations.                                                             *)

(* Create takes a block that is in the pool (UtilsMemPool.h:59-79).        *)
LEMMA TopInPool == ASSUME pool # {} PROVE Top \in pool
BY DEF Top

(* What the handlers write into a block is an operation.                   *)
LEMMA OperationTypes ==
  /\ NoOp \in Operation /\ Lost \in Operation
  /\ \A s \in Socket \cup {NoSocket}, c \in Client \cup {NoClient} :
       Posted("recv", s, c) \in Operation /\ Posted("send", s, c) \in Operation
  /\ \A s \in Socket, c \in Client \cup {NoClient} :
       Posted("accept", s, c) \in Operation /\ Accepted(s, c) \in Operation
BY DEF NoOp, Lost, Posted, Accepted, Operation

(* So is what is left of one whose outcome is known.                       *)
LEMMA CompleteType ==
  ASSUME op \in [Msg -> Operation], NEW m \in Msg,
         NEW r \in {"ok", "short", "full", "eof", "error", "held"}
  PROVE  [op EXCEPT ![m].res = r] \in [Msg -> Operation]
BY DEF Operation

(* A receive that is posted, or that failed, is an operation (397-436).    *)
LEMMA ReceivingType ==
  ASSUME NEW s \in Socket \cup {NoSocket}, NEW recv \in Receiving(s)
  PROVE  recv \in Operation
BY OperationTypes DEF Receiving

(* closesocket aborts posted operations and changes no others.             *)
LEMMA AbortedType ==
  ASSUME op \in [Msg -> Operation], NEW s
  PROVE  /\ Aborted(s) \in [Msg -> Operation]
         /\ \A m \in Msg : op[m].res # "posted" => Aborted(s)[m] = op[m]
         /\ \A m \in Msg : op[m].res = "posted" => Aborted(s)[m].res \in {"posted", "error"}
BY DEF Aborted, Operation

-----------------------------------------------------------------------------
(* Types.                                                                  *)

(* The wait thread is in its loop exactly while accepts are to be posted.  *)
TodoInv == todo > 0 <=> apc = "deliver"

TypeInv == TypeOK /\ TodoInv

LEMMA TypeInit == Init => TypeInv
<1> SUFFICES ASSUME Init PROVE TypeInv
  OBVIOUS
<1>1. op \in [Msg -> Operation] /\ pool \subseteq Msg
      /\ owner \in [Socket -> {"free", "accepting"} \cup Client]
  <2> PICK on \in [(CHOOSE F \in SUBSET Msg : Cardinality(F) = First) -> Socket] :
         /\ owner = [s \in Socket |-> IF \E m \in DOMAIN on : on[m] = s
                                      THEN "accepting" ELSE "free"]
         /\ op = [m \in Msg |-> IF m \in DOMAIN on THEN Posted("accept", on[m], NoClient)
                                ELSE NoOp]
         /\ pool = Msg \ DOMAIN on
    BY Zenon DEF Init
  <2>1. \A m \in DOMAIN on : Posted("accept", on[m], NoClient) \in Operation
    BY OperationTypes
  <2> QED BY <2>1, OperationTypes
<1>2. \A c \in Client : data[c] <= MaxData[c]
  BY NetServerWin32Assumption DEF Init
<1>3. TodoInv
  BY DEF Init, TodoInv
<1>4. replies \in 0..MaxReply
  BY NetServerWin32Assumption DEF Init
<1>5. /\ wmsg \in [Worker -> Msg \cup {NoMsg}]
      /\ wpc \in [Worker -> {"wait", "count", "signal", "free", "repost"}]
      /\ \A w \in Worker : wmsg[w] = NoMsg <=> wpc[w] \notin {"free", "repost"}
  BY DEF Init
<1>6. /\ peer \in [Client -> {"none", "backlog", "open", "shut", "reset", "gone"}]
      /\ data \in [Client -> Nat] /\ told \subseteq Socket
  BY DEF Init
<1>7. /\ apc \in {"wait", "enum", "exchange", "deliver", "ended"} /\ todo \in Nat
      /\ acceptEvent \in BOOLEAN /\ postEvent \in BOOLEAN /\ fdAccept \in BOOLEAN
      /\ repost \in Nat /\ shutdown \in BOOLEAN /\ main \in {"run", "set", "join", "done"}
  BY DEF Init
<1> QED BY <1>1, <1>2, <1>3, <1>4, <1>5, <1>6, <1>7, Zenon DEF TypeInv, TypeOK

LEMMA ClientsType == TypeInv /\ Clients => TypeInv'
<1> SUFFICES ASSUME TypeInv, NEW c \in Client, Connect(c) \/ Write(c) \/ Leave(c)
             PROVE  TypeInv'
  BY DEF Clients
<1> USE DEF TypeInv, TypeOK, TodoInv, net, work, wait, stop
<1>1. CASE Connect(c)
  <2>1. op' \in [Msg -> Operation] /\ owner' \in [Socket -> {"free", "accepting"} \cup Client]
    <3>1. CASE UNCHANGED <<owner, op>>
      BY <3>1
    <3>2. ASSUME NEW m \in Pending("accept"), op' = [op EXCEPT ![m] = Accepted(@.sock, c)],
                 owner' = [owner EXCEPT ![op[m].sock] = c]
          PROVE  op' \in [Msg -> Operation] /\ owner' \in [Socket -> {"free", "accepting"} \cup Client]
      <4>1. op[m].sock \in Socket
        BY DEF Pending, Operation
      <4> QED BY <3>2, <4>1, OperationTypes
    <3>3. ASSUME NEW m \in Pending("accept"), Complete(m, "error"), UNCHANGED owner
          PROVE  op' \in [Msg -> Operation] /\ owner' \in [Socket -> {"free", "accepting"} \cup Client]
      BY <3>3, CompleteType DEF Pending, Complete
    <3> QED BY <1>1, <3>1, <3>2, <3>3 DEF Connect
  <2> QED BY <1>1, <2>1 DEF Connect
<1>2. CASE Write(c)
  <2>1. data' \in [Client -> Nat]
    BY <1>2 DEF Write
  <2>2. ASSUME NEW d \in Client PROVE data'[d] <= MaxData[d]
    <3>1. MaxData[d] \in Nat /\ data[d] \in Nat /\ data[d] <= MaxData[d]
      BY NetServerWin32Assumption
    <3> QED BY <1>2, <3>1 DEF Write
  <2> QED BY <1>2, <2>1, <2>2 DEF Write
<1>3. CASE Leave(c)
  BY <1>3 DEF Leave
<1> QED BY <1>1, <1>2, <1>3

LEMMA CompletesType == TypeInv /\ Completes => TypeInv'
<1> SUFFICES ASSUME TypeInv, NEW m \in Msg, RecvCompletes(m) \/ SendCompletes(m)
             PROVE  TypeInv'
  BY DEF Completes
<1> USE DEF TypeInv, TypeOK, TodoInv, net, work, wait, stop
<1>1. CASE RecvCompletes(m)
  <2>1. op' \in [Msg -> Operation]
    <3>1. \E r \in {"ok", "short", "full", "eof", "error", "held"} : Complete(m, r)
      BY <1>1 DEF RecvCompletes
    <3>2. PICK r \in {"ok", "short", "full", "eof", "error", "held"} :
                 op' = [op EXCEPT ![m].res = r]
      BY <3>1, Zenon DEF Complete
    <3>3. [op EXCEPT ![m].res = r] \in [Msg -> Operation]
      BY CompleteType
    <3> QED BY <3>2, <3>3, Zenon
  <2>2. data' \in [Client -> Nat] /\ \A c \in Client : data'[c] <= MaxData[c]
    <3>1. CASE UNCHANGED data
      BY <3>1
    <3>2. CASE op[m].who \in Client /\ data[op[m].who] > 0
               /\ data' = [data EXCEPT ![op[m].who] = @ - 1]
      <4>1. data' \in [Client -> Nat]
        BY <3>2
      <4>2. ASSUME NEW d \in Client PROVE data'[d] <= MaxData[d]
        <5>1. MaxData[d] \in Nat /\ data[d] \in Nat /\ data[d] <= MaxData[d]
          BY NetServerWin32Assumption
        <5> QED BY <3>2, <5>1
      <4> QED BY <4>1, <4>2
    <3>3. CASE op[m].who \notin Client /\ data' = [data EXCEPT ![op[m].who] = @ - 1]
      <4>1. data' = data
        BY <3>3
      <4> QED BY <4>1
    <3> QED BY <1>1, <3>1, <3>2, <3>3 DEF RecvCompletes
  <2> QED BY <1>1, <2>1, <2>2 DEF RecvCompletes
<1>2. CASE SendCompletes(m)
  <2>1. op' \in [Msg -> Operation]
    BY <1>2, CompleteType DEF SendCompletes, Complete
  <2> QED BY <1>2, <2>1 DEF SendCompletes
<1> QED BY <1>1, <1>2

LEMMA WaitThreadType == TypeInv /\ WaitThread => TypeInv'
<1> SUFFICES ASSUME TypeInv, WaitThread PROVE TypeInv'
  OBVIOUS
<1> USE DEF TypeInv, TypeOK, TodoInv, net, work, wait, stop
<1>1. CASE WakeForAccept \/ WakeForPost
  BY <1>1 DEF WakeForAccept, WakeForPost
<1>2. CASE EnumNetworkEvents
  <2>1. todo' \in Nat /\ apc' = IF todo' = 0 THEN "wait" ELSE "deliver"
    BY <1>2, NetServerWin32Assumption DEF EnumNetworkEvents, DeliverNum, Asked
  <2>2. todo' > 0 <=> apc' = "deliver"
    BY <2>1
  <2> QED BY <1>2, <2>1, <2>2 DEF EnumNetworkEvents
<1>3. CASE ExchangeRepost
  BY <1>3 DEF ExchangeRepost, DeliverNum, AllOfThem
<1>4. CASE DeliverAccept
  <2>1. Top \in Msg /\ pool' \subseteq Msg
    BY <1>4, TopInPool DEF DeliverAccept, Create
  <2>2. /\ op' \in [Msg -> Operation] /\ owner' \in [Socket -> {"free", "accepting"} \cup Client]
        /\ peer' \in [Client -> {"none", "backlog", "open", "shut", "reset", "gone"}]
        /\ acceptEvent' \in BOOLEAN /\ fdAccept' \in BOOLEAN
    <3> PICK s \in Socket :
           \/ /\ op' = [op EXCEPT ![Top] = Posted("accept", s, NoClient)]
              /\ owner' = [owner EXCEPT ![s] = "accepting"]
              /\ UNCHANGED <<peer, acceptEvent, fdAccept>>
           \/ \E c \in Backlog :
                /\ op' = [op EXCEPT ![Top] = Accepted(s, c)]
                /\ owner' = [owner EXCEPT ![s] = c]
                /\ peer' = [peer EXCEPT ![c] = "open"]
                /\ acceptEvent' = (acceptEvent \/ Backlog # {c})
                /\ fdAccept' = (fdAccept \/ Backlog # {c})
      BY <1>4, Zenon DEF DeliverAccept
    <3>1. CASE UNCHANGED <<peer, acceptEvent, fdAccept>>
               /\ op' = [op EXCEPT ![Top] = Posted("accept", s, NoClient)]
               /\ owner' = [owner EXCEPT ![s] = "accepting"]
      BY <2>1, <3>1, OperationTypes
    <3>2. ASSUME NEW c \in Backlog,
                 op' = [op EXCEPT ![Top] = Accepted(s, c)],
                 owner' = [owner EXCEPT ![s] = c], peer' = [peer EXCEPT ![c] = "open"],
                 acceptEvent' = (acceptEvent \/ Backlog # {c}),
                 fdAccept' = (fdAccept \/ Backlog # {c})
          PROVE  /\ op' \in [Msg -> Operation]
                 /\ owner' \in [Socket -> {"free", "accepting"} \cup Client]
                 /\ peer' \in [Client -> {"none", "backlog", "open", "shut", "reset", "gone"}]
                 /\ acceptEvent' \in BOOLEAN /\ fdAccept' \in BOOLEAN
      <4>1. c \in Client
        BY DEF Backlog
      <4>2. acceptEvent' \in BOOLEAN /\ fdAccept' \in BOOLEAN
        BY <3>2, Zenon
      <4>3. Accepted(s, c) \in Operation
        BY <4>1, OperationTypes
      <4> QED BY <2>1, <3>2, <4>1, <4>2, <4>3
    <3> QED BY <3>1, <3>2, Zenon
  <2>3. todo' \in Nat /\ apc' = IF todo' = 0 THEN "wait" ELSE "deliver"
    BY <1>4 DEF DeliverAccept, DeliverNum
  <2> QED BY <1>4, <2>1, <2>2, <2>3 DEF DeliverAccept
<1>5. CASE DeliverAcceptFails
  <2>1. Top \in Msg /\ pool' \subseteq Msg
    BY <1>5, TopInPool DEF DeliverAcceptFails, Create
  <2>2. op' \in [Msg -> Operation]
    BY <1>5, <2>1, OperationTypes DEF DeliverAcceptFails
  <2>3. todo' \in Nat /\ apc' = IF todo' = 0 THEN "wait" ELSE "deliver"
    BY <1>5 DEF DeliverAcceptFails, DeliverNum
  <2> QED BY <1>5, <2>1, <2>2, <2>3 DEF DeliverAcceptFails
<1> QED BY <1>1, <1>2, <1>3, <1>4, <1>5 DEF WaitThread

(* A worker changes its own place and block only.                          *)
LEMMA KeepType ==
  ASSUME TypeOK, NEW w \in Worker, NEW m \in Msg, NEW pc \in {"free", "repost"},
         Keep(w, m, pc)
  PROVE  /\ wpc' \in [Worker -> {"wait", "count", "signal", "free", "repost"}]
         /\ wmsg' \in [Worker -> Msg \cup {NoMsg}]
         /\ \A v \in Worker : wmsg'[v] = NoMsg <=> wpc'[v] \notin {"free", "repost"}
BY NetServerWin32Assumption DEF Keep, Goto, TypeOK

LEMMA ReturnType ==
  ASSUME TypeOK, NEW w \in Worker, NEW pc \in {"wait", "count", "signal"}, Return(w, pc)
  PROVE  /\ wpc' \in [Worker -> {"wait", "count", "signal", "free", "repost"}]
         /\ wmsg' \in [Worker -> Msg \cup {NoMsg}]
         /\ \A v \in Worker : wmsg'[v] = NoMsg <=> wpc'[v] \notin {"free", "repost"}
BY DEF Return, Keep, Goto, TypeOK

(* FreeAndClose and the two ways to post a receive keep the types of the   *)
(* blocks, the handles and the connections.                                *)
LEMMA FreeAndCloseType ==
  ASSUME TypeOK, NEW m \in Msg, FreeAndClose(m)
  PROVE  /\ op' \in [Msg -> Operation] /\ pool' \subseteq Msg
         /\ owner' \in [Socket -> {"free", "accepting"} \cup Client]
         /\ peer' \in [Client -> {"none", "backlog", "open", "shut", "reset", "gone"}]
<1>1. Aborted(op[m].sock) \in [Msg -> Operation]
  BY AbortedType DEF TypeOK
<1>2. op' \in [Msg -> Operation]
  BY <1>1, OperationTypes DEF FreeAndClose
<1> QED BY <1>2 DEF FreeAndClose, Free, Close, TypeOK

LEMMA DeliverAndFreeType ==
  ASSUME TypeOK, NEW m \in Msg, DeliverAndFree(m)
  PROVE  /\ op' \in [Msg -> Operation] /\ pool' \subseteq Msg /\ UNCHANGED <<peer, owner>>
<1>1. Top \in Msg /\ pool' \subseteq Msg
  BY TopInPool DEF DeliverAndFree, TypeOK
<1>2. op[m].sock \in Socket \cup {NoSocket}
  BY DEF TypeOK, Operation
<1>3. PICK recv \in Receiving(op[m].sock) : op' = [op EXCEPT ![m] = NoOp, ![Top] = recv]
  BY Zenon DEF DeliverAndFree
<1>4. recv \in Operation
  BY <1>2, ReceivingType
<1> QED BY <1>1, <1>3, <1>4, OperationTypes DEF DeliverAndFree, TypeOK

LEMMA DeliverRecvType ==
  ASSUME TypeOK, NEW m \in Msg, DeliverRecv(m)
  PROVE  op' \in [Msg -> Operation]
<1>1. op[m].sock \in Socket \cup {NoSocket}
  BY DEF TypeOK, Operation
<1>2. PICK recv \in Receiving(op[m].sock) : op' = [op EXCEPT ![m] = recv]
  BY Zenon DEF DeliverRecv
<1>3. recv \in Operation
  BY <1>1, ReceivingType
<1> QED BY <1>2, <1>3 DEF TypeOK

LEMMA NotifyRecvFinishType ==
  ASSUME TypeOK, NEW w \in Worker, NEW m \in Msg, NotifyRecvFinish(w, m)
  PROVE  op' \in [Msg -> Operation] /\ pool' \subseteq Msg /\ replies' \in 0..MaxReply
<1>1. CASE op' = [op EXCEPT ![m].res = "held"] /\ UNCHANGED <<pool, replies>>
  BY <1>1, CompleteType DEF TypeOK
<1>2. ASSUME replies < MaxReply, replies' = replies + 1, Create,
             NEW send \in {Posted("send", op[m].sock, c) : c \in Client} \cup {Lost},
             op' = [op EXCEPT ![m].res = "held", ![Top] = send]
      PROVE  op' \in [Msg -> Operation] /\ pool' \subseteq Msg /\ replies' \in 0..MaxReply
  <2>1. op[m].sock \in Socket \cup {NoSocket} /\ Top \in Msg /\ pool' \subseteq Msg
    BY <1>2, TopInPool DEF TypeOK, Operation, Create
  <2>2. send \in Operation
    BY <2>1, OperationTypes
  <2>3. [op EXCEPT ![m].res = "held"] \in [Msg -> Operation]
    BY CompleteType DEF TypeOK
  <2>4. op' = [[op EXCEPT ![m].res = "held"] EXCEPT ![Top] = send]
    BY <1>2, Zenon
  <2>5. replies' \in 0..MaxReply
    BY <1>2, NetServerWin32Assumption DEF TypeOK
  <2> QED BY <2>1, <2>2, <2>3, <2>4, <2>5
<1> QED BY <1>1, <1>2, Zenon DEF NotifyRecvFinish

LEMMA NotifyCloseLinkType ==
  ASSUME TypeOK, NEW w \in Worker, NEW m \in Msg, NotifyCloseLink(w, m)
  PROVE  op' \in [Msg -> Operation] /\ told' \subseteq Socket
BY CompleteType DEF TypeOK, NotifyCloseLink

LEMMA WorkType == \A w \in Worker : TypeInv /\ Work(w) => TypeInv'
<1> SUFFICES ASSUME TypeInv, NEW w \in Worker, Work(w) PROVE TypeInv'
  OBVIOUS
<1> USE DEF TypeInv, TypeOK, TodoInv, net, work, wait, stop
<1>1. ASSUME NEW m \in Msg, AcceptDone(w, m) PROVE TypeInv'
  <2>1. op[m].sock \in Socket \cup {NoSocket} /\ Return(w, "count")
    BY <1>1 DEF AcceptDone, Operation
  <2>2. CASE FreeAndClose(m) /\ UNCHANGED told
    BY <1>1, <2>1, <2>2, FreeAndCloseType, ReturnType DEF AcceptDone
  <2>3. CASE DeliverAndFree(m) /\ told' = told \cup {op[m].sock}
    <3>1. told' \subseteq Socket
      BY <1>1, <2>3 DEF AcceptDone, Operation
    <3> QED BY <1>1, <2>1, <2>3, <3>1, DeliverAndFreeType, ReturnType DEF AcceptDone
  <2> QED BY <1>1, <2>2, <2>3 DEF AcceptDone
<1>2. ASSUME NEW m \in Msg, Broken(w, m) PROVE TypeInv'
  <2>1. NotifyCloseLink(w, m) /\ Keep(w, m, "free")
    BY <1>2 DEF Broken, NotifyCloseLink
  <2> QED BY <1>2, <2>1, NotifyCloseLinkType, KeepType DEF Broken, NotifyCloseLink
<1>3. ASSUME NEW m \in Msg, RecvDone(w, m) PROVE TypeInv'
  <2>1. ASSUME NotifyRecvFinish(w, m) PROVE TypeInv'
    <3>1. Keep(w, m, "repost") /\ UNCHANGED <<peer, owner, told>>
      BY <2>1 DEF NotifyRecvFinish
    <3>2. data' \in [Client -> Nat] /\ \A c \in Client : data'[c] <= MaxData[c]
      <4>1. CASE UNCHANGED data
        BY <4>1
      <4>2. CASE data' = [data EXCEPT ![owner[op[m].sock]] = 0]
        <5>1. data' \in [Client -> Nat]
          BY <4>2
        <5>2. ASSUME NEW c \in Client PROVE data'[c] <= MaxData[c]
          <6>1. MaxData[c] \in Nat /\ data[c] <= MaxData[c]
            BY NetServerWin32Assumption
          <6> QED BY <4>2, <6>1
        <5> QED BY <5>1, <5>2
      <4> QED BY <1>3, <4>1, <4>2 DEF RecvDone, NotifyCloseLink, net
    <3> QED BY <1>3, <2>1, <3>1, <3>2, NotifyRecvFinishType, KeepType DEF RecvDone
  <2>2. ASSUME NotifyCloseLink(w, m) PROVE TypeInv'
    <3>1. Keep(w, m, "free") /\ UNCHANGED <<net, owner, pool, replies>>
      BY <2>2 DEF NotifyCloseLink
    <3> QED BY <1>3, <2>2, <3>1, NotifyCloseLinkType, KeepType DEF RecvDone
  <2>3. ASSUME op' = [op EXCEPT ![m] = Lost], UNCHANGED <<net, owner, pool, told, replies, work>>
        PROVE  TypeInv'
    BY <1>3, <2>3, OperationTypes DEF RecvDone
  <2> QED BY <1>3, <2>1, <2>2, <2>3, Zenon DEF RecvDone
<1>4. ASSUME NEW m \in Msg, SendDone(w, m) PROVE TypeInv'
  BY <1>4, DeliverRecvType DEF SendDone
<1>5. CASE IncrementRepost(w)
  BY <1>5 DEF IncrementRepost, Goto
<1>6. CASE SetPostEvent(w)
  BY <1>6 DEF SetPostEvent, Goto
<1>7. CASE Release(w)
  <2>1. wmsg[w] \in Msg /\ FreeAndClose(wmsg[w]) /\ Return(w, "wait")
    BY <1>7 DEF Release
  <2> QED BY <1>7, <2>1, FreeAndCloseType, ReturnType DEF Release
<1>8. CASE Repost(w)
  <2>1. wmsg[w] \in Msg /\ DeliverRecv(wmsg[w]) /\ Return(w, "wait")
    BY <1>8 DEF Repost
  <2> QED BY <1>8, <2>1, DeliverRecvType, ReturnType DEF Repost
<1> QED BY <1>1, <1>2, <1>3, <1>4, <1>5, <1>6, <1>7, <1>8 DEF Work

LEMMA TypeStep == TypeInv /\ [Next]_vars => TypeInv'
<1> SUFFICES ASSUME TypeInv, [Next]_vars PROVE TypeInv'
  OBVIOUS
<1>1. CASE DestroyServer
  BY <1>1 DEF DestroyServer, SetShutDown, SetAcceptEvent, Joined, TypeInv, TypeOK, TodoInv,
              net, work, wait, stop
<1>2. CASE UNCHANGED vars
  BY <1>2 DEF vars, TypeInv, TypeOK, TodoInv, net, work, wait, stop
<1> QED BY <1>1, <1>2, ClientsType, CompletesType, WaitThreadType, WorkType DEF Next

(* The type invariant of the server over completion ports.                 *)
THEOREM TypeCorrect == Spec => []TypeOK
<1>1. TypeInv => TypeOK
  BY DEF TypeInv
<1> QED BY <1>1, TypeInit, TypeStep, PTL DEF Spec

-----------------------------------------------------------------------------
(* Accepts to be posted again.                                             *)

(* Only a worker that has raised the event leaves "signal".                *)
LEMMA SignalKept ==
  ASSUME TypeOK, NEW w \in Worker, wpc[w] # "signal",
         NEW pc, wpc' = [wpc EXCEPT ![w] = pc],
         \E v \in Worker : wpc[v] = "signal"
  PROVE  \E v \in Worker : wpc'[v] = "signal"
BY DEF TypeOK

LEMMA RepostStep == TypeInv /\ RepostIsSignalled /\ [Next]_vars => RepostIsSignalled'
<1> SUFFICES ASSUME TypeInv, RepostIsSignalled, [Next]_vars PROVE RepostIsSignalled'
  OBVIOUS
<1> USE DEF RepostIsSignalled, net, work, wait, stop
<1>1. CASE Clients \/ Completes \/ DestroyServer
  BY <1>1 DEF Clients, Connect, Write, Leave, Completes, RecvCompletes, SendCompletes,
              DestroyServer, SetShutDown, SetAcceptEvent, Joined
<1>2. CASE WaitThread
  <2>1. CASE WakeForAccept \/ WakeForPost
    BY <2>1 DEF WakeForAccept, WakeForPost
  <2>2. CASE EnumNetworkEvents \/ DeliverAccept \/ DeliverAcceptFails
    BY <2>2 DEF EnumNetworkEvents, DeliverAccept, DeliverAcceptFails, DeliverNum
  <2>3. CASE ExchangeRepost
    BY <2>3 DEF ExchangeRepost, AllOfThem, TypeInv, TypeOK
  <2> QED BY <1>2, <2>1, <2>2, <2>3 DEF WaitThread
<1>3. ASSUME NEW w \in Worker, Work(w) PROVE RepostIsSignalled'
  <2>1. CASE IncrementRepost(w)
    BY <2>1 DEF IncrementRepost, Goto, TypeInv, TypeOK
  <2>2. CASE SetPostEvent(w)
    BY <2>2 DEF SetPostEvent
  <2>3. ASSUME wpc[w] # "signal", NEW pc, wpc' = [wpc EXCEPT ![w] = pc], UNCHANGED <<wait, repost>>
        PROVE  RepostIsSignalled'
    BY <2>3, SignalKept DEF TypeInv
  <2>4. ASSUME UNCHANGED <<wpc, wait, repost>> PROVE RepostIsSignalled'
    BY <2>4
  <2>5. ASSUME NEW m \in Msg, AcceptDone(w, m) \/ Broken(w, m) \/ RecvDone(w, m) \/ SendDone(w, m)
        PROVE  RepostIsSignalled'
    <3>1. wpc[w] = "wait" /\ UNCHANGED <<wait, repost>>
      BY <2>5 DEF AcceptDone, Broken, RecvDone, SendDone
    <3>2. UNCHANGED wpc \/ \E pc : wpc' = [wpc EXCEPT ![w] = pc]
      BY <2>5, Zenon DEF AcceptDone, Broken, RecvDone, SendDone, NotifyRecvFinish,
                         NotifyCloseLink, Return, Keep, Goto
    <3> QED BY <2>3, <2>4, <3>1, <3>2
  <2>6. CASE Release(w) \/ Repost(w)
    BY <2>3, <2>6 DEF Release, Repost, Return, Keep, Goto
  <2> QED BY <1>3, <2>1, <2>2, <2>5, <2>6 DEF Work
<1>4. CASE UNCHANGED vars
  BY <1>4 DEF vars
<1> QED BY <1>1, <1>2, <1>3, <1>4 DEF Next

(* While the wait thread runs, an accept to be posted again is signalled.  *)
THEOREM RepostsAreSignalled == Spec => []RepostIsSignalled
<1>1. Init => RepostIsSignalled
  BY DEF Init, RepostIsSignalled
<1>2. Init => TypeInv
  BY TypeInit
<1> QED BY <1>1, <1>2, TypeStep, RepostStep, PTL DEF Spec

-----------------------------------------------------------------------------
(* Waiting connections.                                                    *)

(* Nobody but Connect and EnumNetworkEvents makes a waiting connection     *)
(* unnoticed.                                                              *)
LEMMA BacklogKept ==
  ASSUME BacklogIsSignalled, Backlog' \subseteq Backlog, UNCHANGED <<wait, shutdown>>
  PROVE  BacklogIsSignalled'
BY DEF BacklogIsSignalled, wait

LEMMA CloseBacklog ==
  ASSUME TypeOK, NEW s, Close(s) PROVE Backlog' \subseteq Backlog
BY DEF Close, Backlog, TypeOK

LEMMA BacklogStep == TypeInv /\ BacklogIsSignalled /\ [Next]_vars => BacklogIsSignalled'
<1> SUFFICES ASSUME TypeInv, BacklogIsSignalled, [Next]_vars PROVE BacklogIsSignalled'
  OBVIOUS
<1> USE DEF net, work, wait, stop
<1>1. CASE Clients
  <2>1. PICK c \in Client : Connect(c) \/ Write(c) \/ Leave(c)
    BY <1>1 DEF Clients
  <2>2. CASE Connect(c) /\ acceptEvent' /\ fdAccept'
    BY <2>2 DEF BacklogIsSignalled
  <2>3. CASE Connect(c) /\ UNCHANGED <<acceptEvent, fdAccept>>
             /\ \E side \in {"open", "gone"} : peer' = [peer EXCEPT ![c] = side]
    <3>1. Backlog' \subseteq Backlog
      BY <2>3 DEF Backlog, TypeInv, TypeOK
    <3> QED BY <2>3, <3>1, BacklogKept DEF Connect
  <2>4. CASE Write(c) \/ Leave(c)
    <3>1. Backlog' \subseteq Backlog
      BY <2>4 DEF Write, Leave, Backlog, TypeInv, TypeOK
    <3> QED BY <2>4, <3>1, BacklogKept DEF Write, Leave
  <2>5. CASE Connect(c)
    <3>1. \/ acceptEvent' /\ fdAccept'
          \/ /\ UNCHANGED <<acceptEvent, fdAccept>>
             /\ \E side \in {"open", "gone"} : peer' = [peer EXCEPT ![c] = side]
      BY <2>5, Zenon DEF Connect
    <3> QED BY <2>2, <2>3, <2>5, <3>1
  <2> QED BY <2>1, <2>4, <2>5
<1>2. CASE Completes
  <2>1. UNCHANGED <<peer, wait, shutdown>>
    BY <1>2 DEF Completes, RecvCompletes, SendCompletes
  <2> QED BY <2>1, BacklogKept DEF Backlog
<1>3. CASE WaitThread
  <2>1. CASE WakeForAccept \/ WakeForPost \/ ExchangeRepost
    <3>1. UNCHANGED peer
      BY <2>1 DEF WakeForAccept, WakeForPost, ExchangeRepost
    <3>2. todo = 0
      BY <2>1 DEF WakeForAccept, WakeForPost, ExchangeRepost, TypeInv, TodoInv, TypeOK
    <3> QED BY <2>1, <3>1, <3>2 DEF WakeForAccept, WakeForPost, ExchangeRepost,
                                    BacklogIsSignalled, Backlog
  <2>2. CASE EnumNetworkEvents
    <3>1. todo = 0 /\ UNCHANGED <<peer, shutdown>> /\ todo' = Asked
      BY <2>2 DEF EnumNetworkEvents, DeliverNum, TypeInv, TodoInv, TypeOK
    <3> QED BY <3>1, NetServerWin32Assumption DEF BacklogIsSignalled, Backlog, Asked
  <2>3. CASE DeliverAccept
    <3>1. CASE Backlog = {} /\ UNCHANGED peer
      BY <3>1 DEF BacklogIsSignalled, Backlog
    <3>2. ASSUME NEW c \in Backlog, peer' = [peer EXCEPT ![c] = "open"],
                 acceptEvent' = (acceptEvent \/ Backlog # {c}),
                 fdAccept' = (fdAccept \/ Backlog # {c})
          PROVE  BacklogIsSignalled'
      <4>1. Backlog' = Backlog \ {c}
        BY <3>2 DEF Backlog, TypeInv, TypeOK
      <4>2. Backlog' # {} => acceptEvent' /\ fdAccept'
        BY <3>2, <4>1, Zenon
      <4> QED BY <4>2 DEF BacklogIsSignalled
    <3> QED BY <2>3, <3>1, <3>2, Zenon DEF DeliverAccept
  <2>4. CASE DeliverAcceptFails
    BY <2>4 DEF DeliverAcceptFails, BacklogIsSignalled
  <2> QED BY <1>3, <2>1, <2>2, <2>3, <2>4 DEF WaitThread
<1>4. ASSUME NEW w \in Worker, Work(w) PROVE BacklogIsSignalled'
  <2>1. ASSUME NEW m \in Msg, AcceptDone(w, m) PROVE BacklogIsSignalled'
    <3>1. UNCHANGED peer \/ Close(op[m].sock)
      BY <2>1 DEF AcceptDone, DeliverAndFree, FreeAndClose
    <3>2. Backlog' \subseteq Backlog
      BY <3>1, CloseBacklog DEF Backlog, TypeInv
    <3> QED BY <2>1, <3>2, BacklogKept DEF AcceptDone
  <2>2. ASSUME NEW m \in Msg, Broken(w, m) \/ RecvDone(w, m) \/ SendDone(w, m)
        PROVE  BacklogIsSignalled'
    <3>1. UNCHANGED <<peer, wait, shutdown>>
      BY <2>2 DEF Broken, RecvDone, SendDone, NotifyCloseLink, NotifyRecvFinish
    <3> QED BY <3>1, BacklogKept DEF Backlog
  <2>3. CASE IncrementRepost(w) \/ Repost(w)
    <3>1. UNCHANGED <<peer, wait, shutdown>>
      BY <2>3 DEF IncrementRepost, Repost
    <3> QED BY <3>1, BacklogKept DEF Backlog
  <2>4. CASE SetPostEvent(w)
    BY <2>4 DEF SetPostEvent, BacklogIsSignalled, Backlog
  <2>5. CASE Release(w)
    <3>1. Backlog' \subseteq Backlog
      BY <2>5, CloseBacklog DEF Release, FreeAndClose, TypeInv
    <3> QED BY <2>5, <3>1, BacklogKept DEF Release
  <2> QED BY <1>4, <2>1, <2>2, <2>3, <2>4, <2>5 DEF Work
<1>5. CASE DestroyServer
  BY <1>5 DEF DestroyServer, SetShutDown, SetAcceptEvent, Joined, BacklogIsSignalled, Backlog
<1>6. CASE UNCHANGED vars
  BY <1>6, BacklogKept DEF vars, Backlog
<1> QED BY <1>1, <1>2, <1>3, <1>4, <1>5, <1>6 DEF Next

(* Until the server gives up, a connection that waits has been signalled,  *)
(* or an accept is about to be posted for it.                              *)
THEOREM BacklogsAreSignalled == Spec => []BacklogIsSignalled
<1>1. Init => BacklogIsSignalled
  BY DEF Init, BacklogIsSignalled, Backlog
<1>2. Init => TypeInv
  BY TypeInit
<1> QED BY <1>1, <1>2, TypeStep, BacklogStep, PTL DEF Spec

-----------------------------------------------------------------------------
(* Blocks.                                                                 *)

(* A step in which no worker takes or gives up a block.                    *)
LEMMA BlocksStay ==
  ASSUME BlockHasOneOwner, TypeOK, UNCHANGED wmsg,
         \A m \in pool' : op'[m] = NoOp \/ (m \in pool /\ op'[m] = op[m]),
         \A m \in Msg : op[m].res = "held" => op'[m] = op[m]
  PROVE  BlockHasOneOwner'
BY DEF BlockHasOneOwner, TypeOK, Held

(* One in which w takes m.                                                 *)
LEMMA BlockTaken ==
  ASSUME BlockHasOneOwner, TypeOK, NEW w \in Worker, NEW m \in Msg,
         wmsg' = [wmsg EXCEPT ![w] = m], op[m].res # "held", op'[m].res = "held",
         \A n \in pool' : n \in pool /\ op'[n] = op[n],
         \A n \in Msg : op[n].res = "held" => op'[n] = op[n]
  PROVE  BlockHasOneOwner'
BY DEF BlockHasOneOwner, TypeOK, Held

(* And one in which w gives up its block.                                  *)
LEMMA BlockGivenUp ==
  ASSUME BlockHasOneOwner, TypeOK, NEW w \in Worker, wmsg[w] # NoMsg,
         wmsg' = [wmsg EXCEPT ![w] = NoMsg],
         \A n \in pool' : op'[n] = NoOp \/ (n \in pool /\ op'[n] = op[n]),
         \A n \in Msg : op[n].res = "held" /\ n # wmsg[w] => op'[n] = op[n]
  PROVE  BlockHasOneOwner'
BY DEF BlockHasOneOwner, TypeOK, Held

(* A block in the pool is neither with Windows nor with a worker.          *)
LEMMA PoolIsIdle ==
  ASSUME BlockHasOneOwner, NEW m \in pool PROVE op[m] = NoOp /\ op[m].res = "idle"
BY DEF BlockHasOneOwner, NoOp

LEMMA BlockStep == TypeInv /\ BlockHasOneOwner /\ [Next]_vars => BlockHasOneOwner'
<1> SUFFICES ASSUME TypeInv, BlockHasOneOwner, [Next]_vars PROVE BlockHasOneOwner'
  OBVIOUS
<1>0. TypeOK /\ op \in [Msg -> Operation] /\ pool \subseteq Msg
  BY DEF TypeInv, TypeOK
<1>1. CASE Clients
  <2>1. UNCHANGED <<pool, wmsg>>
    BY <1>1 DEF Clients, Connect, Write, Leave, work
  <2>2. \A m \in Msg : op[m].res # "posted" => op'[m] = op[m]
    BY <1>0, <1>1 DEF Clients, Connect, Write, Leave, Pending, Complete
  <2> QED BY <1>0, <2>1, <2>2, PoolIsIdle, BlocksStay
<1>2. CASE Completes
  <2>1. UNCHANGED <<pool, wmsg>>
    BY <1>2 DEF Completes, RecvCompletes, SendCompletes, work
  <2>2. \A m \in Msg : op[m].res # "posted" => op'[m] = op[m]
    BY <1>0, <1>2 DEF Completes, RecvCompletes, SendCompletes, Pending, Complete
  <2> QED BY <1>0, <2>1, <2>2, PoolIsIdle, BlocksStay
<1>3. CASE WaitThread
  <2>1. UNCHANGED <<op, pool, wmsg>> \/ DeliverAccept \/ DeliverAcceptFails
    BY <1>3 DEF WaitThread, WakeForAccept, WakeForPost, EnumNetworkEvents, ExchangeRepost, work
  <2>2. CASE UNCHANGED <<op, pool, wmsg>>
    BY <1>0, <2>2, BlocksStay
  <2>3. CASE DeliverAccept \/ DeliverAcceptFails
    <3>1. Top \in pool /\ pool' = pool \ {Top} /\ UNCHANGED wmsg
      BY <2>3, TopInPool DEF DeliverAccept, DeliverAcceptFails, Create, work
    <3>2. \A m \in Msg : m # Top => op'[m] = op[m]
      BY <1>0, <2>3 DEF DeliverAccept, DeliverAcceptFails
    <3> QED BY <1>0, <3>1, <3>2, PoolIsIdle, BlocksStay
  <2> QED BY <2>1, <2>2, <2>3
<1>4. ASSUME NEW w \in Worker, Work(w) PROVE BlockHasOneOwner'
  <2>1. wpc[w] = "wait" => wmsg[w] = NoMsg
    BY <1>0 DEF TypeOK
  <2>2. ASSUME NEW m \in Msg, FreeAndClose(m)
        PROVE  /\ \A n \in pool' : op'[n] = NoOp \/ (n \in pool /\ op'[n] = op[n])
               /\ \A n \in Msg : n # m /\ op[n].res = "held" => op'[n] = op[n]
    <3>1. /\ Aborted(op[m].sock) \in [Msg -> Operation]
          /\ \A n \in Msg : op[n].res # "posted" => Aborted(op[m].sock)[n] = op[n]
      BY <1>0, AbortedType
    <3>2. op' = [Aborted(op[m].sock) EXCEPT ![m] = NoOp] /\ pool' = pool \cup {m}
      BY <2>2 DEF FreeAndClose, Free
    <3>3. op'[m] = NoOp /\ \A n \in Msg : n # m /\ op[n].res # "posted" => op'[n] = op[n]
      BY <3>1, <3>2
    <3> QED BY <1>0, <3>2, <3>3, PoolIsIdle
  <2>3. ASSUME NEW m \in Msg, AcceptDone(w, m) PROVE BlockHasOneOwner'
    <3>1. op[m].res = "ok" /\ UNCHANGED wmsg
      BY <1>0, <2>1, <2>3 DEF AcceptDone, Return, Keep, TypeOK
    <3>2. CASE FreeAndClose(m)
      BY <1>0, <2>2, <3>1, <3>2, BlocksStay
    <3>3. CASE DeliverAndFree(m)
      <4>1. Top \in pool /\ pool' = (pool \ {Top}) \cup {m}
        BY <3>3, TopInPool DEF DeliverAndFree
      <4>2. Top # m
        BY <3>1, <4>1, PoolIsIdle
      <4>3. op'[m] = NoOp /\ \A n \in Msg : n # m /\ n # Top => op'[n] = op[n]
        BY <1>0, <3>3, <4>1, <4>2 DEF DeliverAndFree
      <4> QED BY <1>0, <3>1, <4>1, <4>3, PoolIsIdle, BlocksStay
    <3> QED BY <2>3, <3>2, <3>3 DEF AcceptDone
  <2>4. ASSUME NEW m \in Msg, op[m].res \notin {"idle", "held"}, NotifyCloseLink(w, m)
        PROVE  BlockHasOneOwner'
    <3>1. wmsg' = [wmsg EXCEPT ![w] = m] /\ op'[m].res = "held" /\ UNCHANGED pool
      BY <1>0, <2>4 DEF NotifyCloseLink, Keep, Operation
    <3>2. \A n \in Msg : n # m => op'[n] = op[n]
      BY <1>0, <2>4 DEF NotifyCloseLink
    <3> QED BY <1>0, <2>4, <3>1, <3>2, PoolIsIdle, BlockTaken
  <2>5. ASSUME NEW m \in Msg, op[m].res \notin {"idle", "held"}, NotifyRecvFinish(w, m)
        PROVE  BlockHasOneOwner'
    <3>1. wmsg' = [wmsg EXCEPT ![w] = m]
      BY <2>5 DEF NotifyRecvFinish, Keep
    <3>2. CASE op' = [op EXCEPT ![m].res = "held"] /\ UNCHANGED pool
      <4>1. op'[m].res = "held" /\ \A n \in Msg : n # m => op'[n] = op[n]
        BY <1>0, <3>2 DEF Operation
      <4> QED BY <1>0, <2>5, <3>1, <3>2, <4>1, PoolIsIdle, BlockTaken
    <3>3. ASSUME Create, NEW send, op' = [op EXCEPT ![m].res = "held", ![Top] = send]
          PROVE  BlockHasOneOwner'
      <4>1. Top \in pool /\ pool' = pool \ {Top}
        BY <3>3, TopInPool DEF Create
      <4>2. Top # m
        BY <2>5, <4>1, PoolIsIdle
      <4> DEFINE held == [op EXCEPT ![m].res = "held"]
      <4>3. held[m].res = "held" /\ \A n \in Msg : n # m => held[n] = op[n]
        BY <1>0 DEF Operation
      <4>4. held \in [Msg -> Operation]
        BY <1>0, CompleteType
      <4>5. op' = [held EXCEPT ![Top] = send]
        BY <3>3, Zenon
      <4> HIDE DEF held
      <4>6. op'[m].res = "held" /\ \A n \in Msg : n # m /\ n # Top => op'[n] = op[n]
        BY <4>2, <4>3, <4>4, <4>5
      <4> QED BY <1>0, <2>5, <3>1, <4>1, <4>6, PoolIsIdle, BlockTaken
    <3> QED BY <2>5, <3>2, <3>3, Zenon DEF NotifyRecvFinish
  <2>6. ASSUME NEW m \in Msg, op[m].res \notin {"idle", "held"}, NEW o,
               op' = [op EXCEPT ![m] = o], UNCHANGED <<pool, wmsg>>
        PROVE  BlockHasOneOwner'
    <3>1. \A n \in Msg : n # m => op'[n] = op[n]
      BY <1>0, <2>6
    <3> QED BY <1>0, <2>6, <3>1, PoolIsIdle, BlocksStay
  <2>7. ASSUME NEW m \in Msg, Broken(w, m) \/ RecvDone(w, m) \/ SendDone(w, m)
        PROVE  BlockHasOneOwner'
    <3>1. op[m].res \notin {"idle", "held"}
      BY <2>7 DEF Broken, RecvDone, SendDone
    <3>2. \/ NotifyCloseLink(w, m) \/ NotifyRecvFinish(w, m)
          \/ UNCHANGED <<pool, wmsg>> /\ \E o : op' = [op EXCEPT ![m] = o]
      BY <2>7, Zenon DEF Broken, RecvDone, SendDone, DeliverRecv, work
    <3> QED BY <2>4, <2>5, <2>6, <3>1, <3>2
  <2>8. CASE IncrementRepost(w) \/ SetPostEvent(w)
    <3>1. UNCHANGED <<op, pool, wmsg>>
      BY <2>8 DEF IncrementRepost, SetPostEvent
    <3> QED BY <1>0, <3>1, BlocksStay
  <2>9. CASE Release(w) \/ Repost(w)
    <3>1. wmsg[w] \in Msg /\ wmsg[w] # NoMsg /\ wmsg' = [wmsg EXCEPT ![w] = NoMsg]
      BY <1>0, <2>9 DEF Release, Repost, Return, Keep, TypeOK
    <3>2. CASE Release(w)
      BY <1>0, <2>2, <3>1, <3>2, BlockGivenUp DEF Release
    <3>3. CASE Repost(w)
      <4>1. UNCHANGED pool /\ \A n \in Msg : n # wmsg[w] => op'[n] = op[n]
        BY <1>0, <3>3 DEF Repost, DeliverRecv
      <4>2. wmsg[w] \notin pool
        BY <3>1, PoolIsIdle DEF BlockHasOneOwner, Held
      <4> QED BY <1>0, <3>1, <4>1, <4>2, BlockGivenUp
    <3> QED BY <2>9, <3>2, <3>3
  <2> QED BY <1>4, <2>3, <2>7, <2>8, <2>9 DEF Work
<1>5. CASE DestroyServer
  <2>1. UNCHANGED <<op, pool, wmsg>>
    BY <1>5 DEF DestroyServer, SetShutDown, SetAcceptEvent, Joined, work
  <2> QED BY <1>0, <2>1, BlocksStay
<1>6. CASE UNCHANGED vars
  BY <1>0, <1>6, BlocksStay DEF vars, work
<1> QED BY <1>1, <1>2, <1>3, <1>4, <1>5, <1>6 DEF Next

(* A block has one owner: a block of the pool is in no operation, and no   *)
(* two workers hold one block.                                             *)
THEOREM BlocksHaveOneOwner == Spec => []BlockHasOneOwner
<1>1. Init => BlockHasOneOwner
  <2> SUFFICES ASSUME Init PROVE BlockHasOneOwner
    OBVIOUS
  <2>1. \A m \in pool : op[m] = NoOp
    BY DEF Init
  <2>2. \A w \in Worker : wmsg[w] = NoMsg
    BY DEF Init
  <2> QED BY <2>1, <2>2 DEF BlockHasOneOwner
<1>2. Init => TypeInv
  BY TypeInit
<1> QED BY <1>1, <1>2, TypeStep, BlockStep, PTL DEF Spec
-----------------------------------------------------------------------------
(* What the steps do to the blocks.                                        *)
Becomes(m, res) ==
  /\ op'[m].type = op[m].type /\ op'[m].sock = op[m].sock /\ op'[m].who = op[m].who
  /\ op'[m].res = res
OthersStay(m) == \A n \in Msg \ {m} : op'[n] = op[n]

LEMMA ResultEffect ==
  ASSUME TypeInv, NEW m \in Msg, NEW r, op' = [op EXCEPT ![m].res = r]
  PROVE  Becomes(m, r) /\ OthersStay(m)
BY DEF TypeInv, TypeOK, Operation, Becomes, OthersStay

LEMMA CompletesEffect ==
  ASSUME TypeInv, Completes
  PROVE  /\ UNCHANGED <<peer, owner, told, replies, wpc, wmsg>>
         /\ \E m \in Msg, r \in {"short", "full", "eof", "error", "ok"} :
              /\ op[m].type \in {"recv", "send"} /\ op[m].res = "posted"
              /\ Becomes(m, r) /\ OthersStay(m)
<1>1. PICK m \in Msg : RecvCompletes(m) \/ SendCompletes(m)
  BY DEF Completes
<1>2. PICK r \in {"short", "full", "eof", "error", "ok"} : Complete(m, r)
  BY <1>1 DEF RecvCompletes, SendCompletes
<1>3. Becomes(m, r) /\ OthersStay(m)
  BY <1>2, ResultEffect DEF Complete
<1>4. op[m].type \in {"recv", "send"} /\ op[m].res = "posted"
  BY <1>1 DEF RecvCompletes, SendCompletes, Pending
<1>5. UNCHANGED <<peer, owner, told, replies, wpc, wmsg>>
  BY <1>1 DEF RecvCompletes, SendCompletes, net, work
<1> QED
  BY <1>3, <1>4, <1>5, Zenon

LEMMA FinishEffect ==
  ASSUME TypeInv, BlockHasOneOwner, NEW w \in Worker, NEW m \in Msg, op[m].res # "idle",
         NotifyRecvFinish(w, m)
  PROVE  /\ Becomes(m, "held")
         /\ \/ OthersStay(m) /\ replies' = replies
            \/ /\ replies' = replies + 1
               /\ \A n \in Msg \ {m} :
                    op'[n] = op[n] \/ (op[n] = NoOp /\ op'[n].type \in {"none", "send"})
<1>1. op \in [Msg -> Operation] /\ pool \subseteq Msg
  BY DEF TypeInv, TypeOK
<1>2. CASE op' = [op EXCEPT ![m].res = "held"] /\ UNCHANGED <<pool, replies>>
  BY <1>2, ResultEffect
<1>3. ASSUME Create, replies' = replies + 1, NEW send,
             send = Lost \/ \E c \in Client : send = Posted("send", op[m].sock, c),
             op' = [op EXCEPT ![m].res = "held", ![Top] = send]
      PROVE  /\ Becomes(m, "held") /\ replies' = replies + 1
             /\ \A n \in Msg \ {m} :
                  op'[n] = op[n] \/ (op[n] = NoOp /\ op'[n].type \in {"none", "send"})
  <2>1. Top \in pool /\ op[Top] = NoOp /\ Top # m
    BY <1>3, TopInPool, PoolIsIdle DEF Create
  <2>2. send.type \in {"none", "send"}
    BY <1>3 DEF Lost, NoOp, Posted
  <2> DEFINE held == [op EXCEPT ![m].res = "held"]
  <2>3. /\ held[m].type = op[m].type /\ held[m].sock = op[m].sock /\ held[m].who = op[m].who
        /\ held[m].res = "held" /\ \A n \in Msg \ {m} : held[n] = op[n]
    BY <1>1 DEF Operation
  <2>4. held \in [Msg -> Operation]
    BY <1>1, CompleteType
  <2>5. op' = [held EXCEPT ![Top] = send]
    BY <1>3, Zenon
  <2> HIDE DEF held
  <2>6. op'[Top] = send /\ \A n \in Msg \ {Top} : op'[n] = held[n]
    BY <1>1, <2>1, <2>4, <2>5
  <2> QED
    BY <1>3, <2>1, <2>2, <2>3, <2>6 DEF Becomes
<1>4. \/ op' = [op EXCEPT ![m].res = "held"] /\ UNCHANGED <<pool, replies>>
      \/ /\ Create /\ replies' = replies + 1
         /\ \E send : /\ send = Lost \/ \E c \in Client : send = Posted("send", op[m].sock, c)
                      /\ op' = [op EXCEPT ![m].res = "held", ![Top] = send]
  BY Zenon DEF NotifyRecvFinish
<1> QED
  BY <1>2, <1>3, <1>4, Zenon

LEMMA FreeAndCloseEffect ==
  ASSUME TypeInv, NEW m \in Msg, FreeAndClose(m)
  PROVE  /\ op'[m] = NoOp
         /\ \A n \in Msg \ {m} :
              \/ op'[n] = op[n]
                   /\ ~(op[n].type = "accept" /\ op[n].res = "posted" /\ op[n].sock = op[m].sock)
              \/ op[n].res = "posted" /\ Becomes(n, "error")
         /\ owner' = [owner EXCEPT ![op[m].sock] = "free"]
         /\ \A c \in Client : peer'[c] \in {peer[c], "gone"}
<1>1. op \in [Msg -> Operation] /\ Aborted(op[m].sock) \in [Msg -> Operation]
  BY AbortedType DEF TypeInv, TypeOK
<1>2. op' = [Aborted(op[m].sock) EXCEPT ![m] = NoOp] /\ Close(op[m].sock)
  BY DEF FreeAndClose
<1>3. op'[m] = NoOp /\ \A n \in Msg \ {m} : op'[n] = Aborted(op[m].sock)[n]
  BY <1>1, <1>2
<1>4. ASSUME NEW n \in Msg
      PROVE  \/ Aborted(op[m].sock)[n] = op[n]
                  /\ ~(op[n].type = "accept" /\ op[n].res = "posted" /\ op[n].sock = op[m].sock)
             \/ op[n].res = "posted" /\ Aborted(op[m].sock)[n] = [op[n] EXCEPT !.res = "error"]
  BY DEF Aborted
<1>5. \A n \in Msg : /\ [op[n] EXCEPT !.res = "error"].type = op[n].type
                     /\ [op[n] EXCEPT !.res = "error"].sock = op[n].sock
                     /\ [op[n] EXCEPT !.res = "error"].who = op[n].who
                     /\ [op[n] EXCEPT !.res = "error"].res = "error"
  BY <1>1 DEF Operation
<1>6. owner' = [owner EXCEPT ![op[m].sock] = "free"] /\ \A c \in Client : peer'[c] \in {peer[c], "gone"}
  BY <1>2 DEF Close
<1>7. ASSUME NEW n \in Msg \ {m}
      PROVE  \/ op'[n] = op[n]
                  /\ ~(op[n].type = "accept" /\ op[n].res = "posted" /\ op[n].sock = op[m].sock)
             \/ op[n].res = "posted" /\ Becomes(n, "error")
  <2> DEFINE failed == [op[n] EXCEPT !.res = "error"]
  <2>1. /\ failed.type = op[n].type /\ failed.sock = op[n].sock /\ failed.who = op[n].who
        /\ failed.res = "error"
    BY <1>5
  <2>2. op'[n] = Aborted(op[m].sock)[n]
    BY <1>3
  <2>3. \/ Aborted(op[m].sock)[n] = op[n]
             /\ ~(op[n].type = "accept" /\ op[n].res = "posted" /\ op[n].sock = op[m].sock)
        \/ op[n].res = "posted" /\ Aborted(op[m].sock)[n] = failed
    BY <1>4
  <2> HIDE DEF failed
  <2> QED
    BY <2>1, <2>2, <2>3 DEF Becomes
<1> QED
  BY <1>3, <1>6, <1>7, Zenon

(* What WSARecv leaves of a block: a receive of the connection that has    *)
(* the handle, or a block that is lost.                                    *)
LEMMA ReceivingIs ==
  ASSUME NEW s, NEW recv \in Receiving(s)
  PROVE  \/ /\ recv.type = "recv" /\ recv.res = "posted" /\ recv.sock = s
            /\ recv.who = owner[s] /\ owner[s] \in Client
         \/ recv = Lost /\ (owner[s] \in Client => peer[owner[s]] = "reset")
<1>1. \/ \E c \in Client : owner[s] = c /\ recv = Posted("recv", s, c)
      \/ recv = Lost /\ RecvMayFail(s)
  BY DEF Receiving
<1> QED
  BY <1>1 DEF Posted, RecvMayFail

LEMMA LostIs == Lost.type = "none" /\ Lost.res = "lost" /\ NoOp.type = "none" /\ NoOp.res = "idle"
BY DEF Lost, NoOp

LEMMA DeliverAndFreeEffect ==
  ASSUME TypeInv, BlockHasOneOwner, NEW m \in Msg, op[m].res # "idle", DeliverAndFree(m)
  PROVE  \E t \in Msg \ {m} :
           /\ op[t] = NoOp /\ op'[t] \in Receiving(op[m].sock) /\ op'[m] = NoOp
           /\ \A n \in Msg \ {m, t} : op'[n] = op[n]
<1>1. op \in [Msg -> Operation] /\ pool \subseteq Msg
  BY DEF TypeInv, TypeOK
<1>2. Top \in pool /\ op[Top] = NoOp /\ Top # m
  BY TopInPool, PoolIsIdle DEF DeliverAndFree
<1>3. op'[Top] \in Receiving(op[m].sock) /\ op'[m] = NoOp
      /\ \A n \in Msg \ {m, Top} : op'[n] = op[n]
  BY <1>1, <1>2 DEF DeliverAndFree
<1> QED
  BY <1>1, <1>2, <1>3

-----------------------------------------------------------------------------
(* Handles.  A connection has one, and a posted accept keeps its own.      *)
OwnInv ==
  /\ \A s \in Socket : owner[s] \in Client => peer[owner[s]] \notin {"none", "backlog"}
  /\ \A s, t \in Socket : owner[s] \in Client /\ owner[t] = owner[s] => s = t
  /\ \A m \in Pending("accept") : owner[op[m].sock] = "accepting"
  /\ \A m, n \in Pending("accept") : op[m].sock = op[n].sock => m = n

(* A step that gives no handle away and posts no accept.                   *)
LEMMA OwnKept ==
  ASSUME OwnInv, TypeOK,
         \A s \in Socket : owner'[s] \in Client =>
           owner'[s] = owner[s] /\ peer'[owner[s]] \notin {"none", "backlog"},
         \A m \in Pending("accept")' :
           /\ m \in Pending("accept") /\ op'[m].sock = op[m].sock
           /\ owner'[op[m].sock] = owner[op[m].sock]
  PROVE  OwnInv'
BY DEF OwnInv

LEMMA OwnInit == Init => OwnInv
<1> SUFFICES ASSUME Init PROVE OwnInv
  OBVIOUS
<1> PICK on \in [(CHOOSE F \in SUBSET Msg : Cardinality(F) = First) -> Socket] :
       /\ \A m, n \in DOMAIN on : on[m] = on[n] => m = n
       /\ owner = [s \in Socket |-> IF \E m \in DOMAIN on : on[m] = s
                                    THEN "accepting" ELSE "free"]
       /\ op = [m \in Msg |-> IF m \in DOMAIN on THEN Posted("accept", on[m], NoClient)
                              ELSE NoOp]
  BY Zenon DEF Init
<1>1. \A s \in Socket : owner[s] \notin Client
  BY NetServerWin32Assumption
<1>2. ASSUME NEW m \in Pending("accept")
      PROVE  m \in DOMAIN on /\ op[m].sock = on[m] /\ on[m] \in Socket
  BY DEF Pending, Posted, NoOp
<1>3. \A m \in Pending("accept") : owner[op[m].sock] = "accepting"
  BY <1>2
<1>4. \A m, n \in Pending("accept") : op[m].sock = op[n].sock => m = n
  BY <1>2
<1> QED
  BY <1>1, <1>3, <1>4 DEF OwnInv
LEMMA OwnStep == TypeInv /\ BlockHasOneOwner /\ OwnInv /\ [Next]_vars => OwnInv'
<1> SUFFICES ASSUME TypeInv, BlockHasOneOwner, OwnInv, [Next]_vars PROVE OwnInv'
  OBVIOUS
<1>0. /\ TypeOK /\ op \in [Msg -> Operation] /\ pool \subseteq Msg
      /\ owner \in [Socket -> {"free", "accepting"} \cup Client]
      /\ peer \in [Client -> {"none", "backlog", "open", "shut", "reset", "gone"}]
      /\ {"free", "accepting"} \cap Client = {}
  BY NetServerWin32Assumption DEF TypeInv, TypeOK
<1>1. ASSUME UNCHANGED owner,
             \A c \in Client : peer'[c] = peer[c] \/ peer'[c] \notin {"none", "backlog"}
                                 \/ (peer[c] = "none" /\ peer'[c] = "backlog"),
             \A m \in Msg : op'[m] = op[m] \/ op'[m].res # "posted" \/ op'[m].type # "accept"
      PROVE  OwnInv'
  <2>1. \A s \in Socket : owner[s] \in Client => peer'[owner[s]] \notin {"none", "backlog"}
    BY <1>1 DEF OwnInv
  <2>2. \A m \in Pending("accept")' : m \in Pending("accept") /\ op'[m] = op[m]
    BY <1>1 DEF Pending
  <2> QED
    BY <1>0, <1>1, <2>1, <2>2, OwnKept
<1>2. ASSUME NEW c \in Client, peer[c] \in {"none", "backlog"}, peer' = [peer EXCEPT ![c] = "open"],
             NEW s \in Socket, owner' = [owner EXCEPT ![s] = c], owner[s] \notin Client,
             \A m \in Pending("accept")' :
               m \in Pending("accept") /\ op'[m] = op[m] /\ op[m].sock # s
      PROVE  OwnInv'
  <2>1. owner'[s] = c /\ peer'[c] = "open" /\ \A t \in Socket \ {s} : owner'[t] = owner[t]
    BY <1>0, <1>2
  <2>2. ASSUME NEW t \in Socket \ {s}, owner[t] \in Client PROVE owner[t] # c /\ peer'[owner[t]] = peer[owner[t]]
    BY <1>0, <1>2, <2>2 DEF OwnInv
  <2>3. \A t \in Socket : owner'[t] \in Client => peer'[owner'[t]] \notin {"none", "backlog"}
    BY <2>1, <2>2 DEF OwnInv
  <2>4. \A t, u \in Socket : owner'[t] \in Client /\ owner'[u] = owner'[t] => t = u
    BY <2>1, <2>2 DEF OwnInv
  <2>5. \A m \in Pending("accept")' : owner'[op'[m].sock] = "accepting"
    <3>1. \A m \in Pending("accept") : op[m].sock \in Socket
      BY <1>0 DEF Pending, Operation
    <3> QED
      BY <1>2, <2>1, <3>1 DEF OwnInv
  <2>6. \A m, n \in Pending("accept")' : op'[m].sock = op'[n].sock => m = n
    BY <1>2 DEF OwnInv
  <2> QED
    BY <2>3, <2>4, <2>5, <2>6 DEF OwnInv
<1>3. ASSUME NEW c \in Client, Connect(c) PROVE OwnInv'
  <2>1. peer[c] = "none"
    BY <1>3 DEF Connect
  <2>2. ASSUME NEW m \in Pending("accept"), op' = [op EXCEPT ![m] = Accepted(@.sock, c)],
               owner' = [owner EXCEPT ![op[m].sock] = c], peer' = [peer EXCEPT ![c] = "open"]
        PROVE  OwnInv'
    <3>1. m \in Msg /\ op[m].sock \in Socket /\ owner[op[m].sock] = "accepting"
      BY <1>0 DEF Pending, Operation, OwnInv
    <3>2. op'[m].res = "ok" /\ \A n \in Msg \ {m} : op'[n] = op[n]
      BY <1>0, <2>2, <3>1 DEF Accepted
    <3>3. \A n \in Pending("accept")' : n \in Pending("accept") /\ n # m /\ op'[n] = op[n]
      BY <3>2 DEF Pending
    <3>4. \A n \in Pending("accept")' : op[n].sock # op[m].sock
      BY <3>3 DEF OwnInv
    <3> QED
      BY <1>0, <1>2, <2>1, <2>2, <3>1, <3>3, <3>4
  <2>3. ASSUME NEW m \in Pending("accept"), Complete(m, "error"),
               peer' = [peer EXCEPT ![c] = "gone"], UNCHANGED owner
        PROVE  OwnInv'
    <3>1. op'[m].res = "error" /\ \A n \in Msg \ {m} : op'[n] = op[n]
      BY <2>3, ResultEffect DEF Complete, Pending, Becomes, OthersStay
    <3> QED
      BY <1>0, <1>1, <2>3, <3>1
  <2>4. CASE peer' = [peer EXCEPT ![c] = "backlog"] /\ UNCHANGED <<owner, op>>
    BY <1>0, <1>1, <2>1, <2>4
  <2> QED
    BY <1>3, <2>2, <2>3, <2>4, Zenon DEF Connect
<1>4. ASSUME NEW c \in Client, Write(c) \/ Leave(c) PROVE OwnInv'
  BY <1>0, <1>1, <1>4 DEF Write, Leave
<1>5. CASE Completes
  BY <1>1, <1>5, CompletesEffect DEF Becomes, OthersStay
<1>6. CASE WakeForAccept \/ WakeForPost \/ EnumNetworkEvents \/ ExchangeRepost \/ DestroyServer
           \/ UNCHANGED vars
  <2>1. UNCHANGED <<owner, peer, op>>
    BY <1>6 DEF WakeForAccept, WakeForPost, EnumNetworkEvents, ExchangeRepost, DestroyServer,
                SetShutDown, SetAcceptEvent, Joined, vars, net
  <2> QED
    BY <1>1, <2>1
<1>7. CASE DeliverAcceptFails
  <2>1. Top \in Msg /\ op' = [op EXCEPT ![Top] = Lost] /\ UNCHANGED <<owner, peer>>
    BY <1>0, <1>7, TopInPool DEF DeliverAcceptFails, Create, net
  <2> QED
    BY <1>0, <1>1, <2>1, LostIs
<1>8. CASE DeliverAccept
  <2>1. Top \in Msg /\ op[Top] = NoOp
    BY <1>0, <1>8, TopInPool, PoolIsIdle DEF DeliverAccept, Create
  <2>2. \A m \in Pending("accept") : op[m].sock \in Socket
    BY <1>0 DEF Pending, Operation
  <2>3. ASSUME NEW s \in Socket, owner[s] = "free", op' = [op EXCEPT ![Top] = Posted("accept", s, NoClient)],
               owner' = [owner EXCEPT ![s] = "accepting"], UNCHANGED peer
        PROVE  OwnInv'
    <3>1. op'[Top].sock = s /\ \A n \in Msg \ {Top} : op'[n] = op[n]
      BY <1>0, <2>1, <2>3 DEF Posted
    <3>2. owner'[s] = "accepting" /\ \A t \in Socket \ {s} : owner'[t] = owner[t]
      BY <1>0, <2>3
    <3>3. \A n \in Pending("accept")' : n = Top \/ (n \in Pending("accept") /\ op'[n] = op[n])
      BY <3>1 DEF Pending
    <3>4. \A n \in Pending("accept") : op[n].sock # s
      BY <2>3 DEF OwnInv
    <3>5. \A t \in Socket : owner'[t] \in Client => t # s
      BY <1>0, <3>2
    <3>6. \A n \in Pending("accept")' : owner'[op'[n].sock] = "accepting"
      BY <2>2, <3>1, <3>2, <3>3, <3>4 DEF OwnInv
    <3>7. \A m, n \in Pending("accept")' : op'[m].sock = op'[n].sock => m = n
      BY <3>1, <3>3, <3>4 DEF OwnInv
    <3>8. \A t \in Socket : owner'[t] \in Client => peer'[owner'[t]] \notin {"none", "backlog"}
      BY <2>3, <3>2, <3>5 DEF OwnInv
    <3>9. \A t, u \in Socket : owner'[t] \in Client /\ owner'[u] = owner'[t] => t = u
      BY <3>2, <3>5 DEF OwnInv
    <3> QED
      BY <3>6, <3>7, <3>8, <3>9 DEF OwnInv
  <2>4. ASSUME NEW s \in Socket, owner[s] = "free", NEW c \in Backlog,
               op' = [op EXCEPT ![Top] = Accepted(s, c)],
               owner' = [owner EXCEPT ![s] = c], peer' = [peer EXCEPT ![c] = "open"]
        PROVE  OwnInv'
    <3>1. op'[Top].res = "ok" /\ \A n \in Msg \ {Top} : op'[n] = op[n]
      BY <1>0, <2>1, <2>4 DEF Accepted
    <3>2. \A n \in Pending("accept")' : n \in Pending("accept") /\ op'[n] = op[n]
      BY <3>1 DEF Pending
    <3>3. \A n \in Pending("accept") : op[n].sock # s
      BY <2>4 DEF OwnInv
    <3>4. c \in Client /\ peer[c] = "backlog" /\ owner[s] \notin Client
      BY <1>0, <2>4 DEF Backlog
    <3> QED
      BY <1>2, <2>4, <3>2, <3>3, <3>4
  <2> QED
    BY <1>8, <2>3, <2>4, Zenon DEF DeliverAccept
<1>9. ASSUME NEW m \in Msg, FreeAndClose(m) PROVE OwnInv'
  <2>1. /\ op'[m] = NoOp
        /\ \A n \in Msg \ {m} :
             \/ op'[n] = op[n]
                  /\ ~(op[n].type = "accept" /\ op[n].res = "posted" /\ op[n].sock = op[m].sock)
             \/ op[n].res = "posted" /\ Becomes(n, "error")
        /\ owner' = [owner EXCEPT ![op[m].sock] = "free"]
        /\ \A c \in Client : peer'[c] \in {peer[c], "gone"}
    BY <1>9, FreeAndCloseEffect
  <2>2. \A s \in Socket : owner'[s] \in Client =>
          owner'[s] = owner[s] /\ peer'[owner[s]] \notin {"none", "backlog"}
    BY <1>0, <2>1 DEF OwnInv
  <2>3. ASSUME NEW n \in Pending("accept")'
        PROVE  n \in Pending("accept") /\ op'[n] = op[n] /\ op[n].sock # op[m].sock
    BY <2>1, LostIs DEF Pending, Becomes
  <2>4. \A n \in Pending("accept")' : owner'[op[n].sock] = owner[op[n].sock]
    BY <1>0, <2>1, <2>3
  <2> QED
    BY <1>0, <2>2, <2>3, <2>4, OwnKept
<1>10. ASSUME NEW w \in Worker, Work(w) PROVE OwnInv'
  <2>1. ASSUME NEW m \in Msg, NEW o, op' = [op EXCEPT ![m] = o], o.type # "accept" \/ o.res # "posted",
               UNCHANGED <<peer, owner>>
        PROVE  OwnInv'
    <3>1. op'[m] = o /\ \A n \in Msg \ {m} : op'[n] = op[n]
      BY <1>0, <2>1
    <3> QED
      BY <1>1, <2>1, <3>1
  <2>2. ASSUME NEW m \in Msg, DeliverRecv(m), UNCHANGED <<peer, owner>> PROVE OwnInv'
    <3>1. PICK recv \in Receiving(op[m].sock) : op' = [op EXCEPT ![m] = recv]
      BY <2>2 DEF DeliverRecv
    <3>2. recv.type # "accept"
      BY ReceivingIs, LostIs
    <3> QED
      BY <2>1, <2>2, <3>1, <3>2
  <2>3. ASSUME NEW m \in Msg, AcceptDone(w, m) PROVE OwnInv'
    <3>1. CASE DeliverAndFree(m)
      <4>1. PICK t \in Msg \ {m} :
              /\ op'[t] \in Receiving(op[m].sock) /\ op'[m] = NoOp
              /\ \A n \in Msg \ {m, t} : op'[n] = op[n]
        BY <2>3, <3>1, DeliverAndFreeEffect DEF AcceptDone
      <4>2. op'[t].type # "accept"
        BY <4>1, ReceivingIs, LostIs
      <4>3. UNCHANGED <<peer, owner>>
        BY <3>1 DEF DeliverAndFree
      <4> QED
        BY <1>1, <4>1, <4>2, <4>3, LostIs
    <3> QED
      BY <1>9, <2>3, <3>1 DEF AcceptDone
  <2>4. ASSUME NEW m \in Msg, NotifyCloseLink(w, m) PROVE OwnInv'
    <3>1. Becomes(m, "held") /\ OthersStay(m) /\ UNCHANGED <<peer, owner>>
      BY <2>4, ResultEffect DEF NotifyCloseLink, net
    <3> QED
      BY <1>1, <3>1 DEF Becomes, OthersStay
  <2>5. ASSUME NEW m \in Msg, op[m].res # "idle", NotifyRecvFinish(w, m) PROVE OwnInv'
    <3>1. Becomes(m, "held") /\ UNCHANGED <<peer, owner>>
          /\ \A n \in Msg \ {m} : op'[n] = op[n] \/ op'[n].type \in {"none", "send"}
      BY <2>5, FinishEffect DEF NotifyRecvFinish, OthersStay
    <3> QED
      BY <1>1, <3>1 DEF Becomes
  <2>6. ASSUME NEW m \in Msg, RecvDone(w, m) PROVE OwnInv'
    <3>1. op[m].res # "idle"
      BY <2>6 DEF RecvDone
    <3>2. \/ NotifyRecvFinish(w, m) \/ NotifyCloseLink(w, m)
          \/ op' = [op EXCEPT ![m] = Lost] /\ UNCHANGED <<net, owner>>
      BY <2>6, Zenon DEF RecvDone
    <3> QED
      BY <2>1, <2>4, <2>5, <3>1, <3>2, LostIs DEF net
  <2>7. CASE IncrementRepost(w) \/ SetPostEvent(w)
    BY <1>1, <2>7 DEF IncrementRepost, SetPostEvent, net
  <2>8. CASE Release(w) \/ Repost(w)
    <3>1. wmsg[w] \in Msg
      BY <1>0, <2>8 DEF Release, Repost, TypeOK
    <3> QED
      BY <1>9, <2>2, <2>8, <3>1 DEF Release, Repost, net
  <2> QED
    BY <1>10, <2>2, <2>3, <2>4, <2>6, <2>7, <2>8 DEF Work, Broken, SendDone, net
<1> QED
  BY <1>3, <1>4, <1>5, <1>6, <1>7, <1>8, <1>10 DEF Next, Clients, WaitThread

-----------------------------------------------------------------------------
(* Listening.                                                              *)
Live(s) == owner[s] \in Client /\ peer[owner[s]] = "open"
Hears(m) == op[m].type \in {"accept", "recv"} /\ op[m].res # "lost"
HeardBy(m, s) == op[m].sock = s /\ op[m].who = owner[s] /\ Hears(m)

(* A step that begins no connection and leaves each live one a block.      *)
LEMMA HeardKept ==
  ASSUME NeverDeaf,
         \A s \in Socket : owner'[s] \in Client => owner'[s] = owner[s],
         \A c \in Client : peer'[c] = "open" => peer[c] = "open",
         \A s \in Socket, m \in Msg : Live(s)' /\ HeardBy(m, s) =>
           \/ Hears(m)' /\ op'[m].sock = op[m].sock /\ op'[m].who = op[m].who
           \/ \E n \in Msg : HeardBy(n, s)'
  PROVE  NeverDeaf'
<1> SUFFICES ASSUME NEW s \in Socket, Live(s)' PROVE \E n \in Msg : HeardBy(n, s)'
  BY DEF NeverDeaf, Live, HeardBy, Hears
<1>1. owner'[s] = owner[s] /\ Live(s)
  BY DEF Live
<1>2. PICK m \in Msg : HeardBy(m, s)
  BY <1>1 DEF NeverDeaf, Live, HeardBy, Hears
<1>3. CASE Hears(m)' /\ op'[m].sock = op[m].sock /\ op'[m].who = op[m].who
  <2>1. HeardBy(m, s)'
    BY <1>1, <1>2, <1>3 DEF HeardBy
  <2> QED
    BY <2>1
<1> QED
  BY <1>2, <1>3

(* One that begins a connection in a block that no other is heard by.      *)
LEMMA HeardFirst ==
  ASSUME TypeOK, OwnInv, NeverDeaf, NEW c \in Client, NEW s \in Socket, NEW m \in Msg,
         peer[c] \in {"none", "backlog"}, peer' = [peer EXCEPT ![c] = "open"],
         owner' = [owner EXCEPT ![s] = c], op' = [op EXCEPT ![m] = Accepted(s, c)],
         op[m].sock = s \/ op[m] = NoOp
  PROVE  NeverDeaf'
<1> SUFFICES ASSUME NEW t \in Socket, Live(t)' PROVE \E n \in Msg : HeardBy(n, t)'
  BY DEF NeverDeaf, Live, HeardBy, Hears
<1>1. /\ op'[m] = Accepted(s, c) /\ \A n \in Msg \ {m} : op'[n] = op[n]
      /\ owner'[s] = c /\ \A u \in Socket \ {s} : owner'[u] = owner[u]
  BY DEF TypeOK
<1>2. CASE t = s
  <2>1. HeardBy(m, t)'
    BY <1>1, <1>2 DEF HeardBy, Hears, Accepted
  <2> QED
    BY <2>1
<1>3. CASE t # s
  <2>1. owner'[t] = owner[t] /\ owner[t] \in Client /\ owner[t] # c
    BY <1>1, <1>3 DEF Live, OwnInv
  <2>2. Live(t)
    BY <2>1 DEF Live, TypeOK
  <2>3. PICK n \in Msg : HeardBy(n, t)
    BY <2>2 DEF NeverDeaf, Live, HeardBy, Hears
  <2>4. n # m
    BY <1>3, <2>3, LostIs DEF HeardBy, Hears
  <2> QED
    BY <1>1, <2>1, <2>3, <2>4 DEF HeardBy, Hears
<1> QED
  BY <1>2, <1>3

LEMMA HeardStep ==
  TypeInv /\ BlockHasOneOwner /\ OwnInv /\ NeverDeaf /\ [Next]_vars => NeverDeaf'
<1> SUFFICES ASSUME TypeInv, BlockHasOneOwner, OwnInv, NeverDeaf, [Next]_vars PROVE NeverDeaf'
  OBVIOUS
<1>0. /\ TypeOK /\ op \in [Msg -> Operation] /\ pool \subseteq Msg
      /\ owner \in [Socket -> {"free", "accepting"} \cup Client]
      /\ peer \in [Client -> {"none", "backlog", "open", "shut", "reset", "gone"}]
      /\ {"free", "accepting"} \cap Client = {}
  BY NetServerWin32Assumption DEF TypeInv, TypeOK
<1>1. ASSUME \A s \in Socket : owner'[s] \in Client => owner'[s] = owner[s],
             \A c \in Client : peer'[c] = "open" => peer[c] = "open",
             \A m \in Msg : op'[m] = op[m] \/ op[m] = NoOp
                              \/ \E r \in {"short", "full", "eof", "error", "ok", "held"} : Becomes(m, r)
      PROVE  NeverDeaf'
  <2>1. \A m \in Msg : Hears(m) => Hears(m)' /\ op'[m].sock = op[m].sock /\ op'[m].who = op[m].who
    BY <1>1, LostIs DEF Hears, Becomes
  <2> QED
    BY <1>1, <2>1, HeardKept DEF HeardBy
<1>2. ASSUME NEW c \in Client, Connect(c) PROVE NeverDeaf'
  <2>1. peer[c] = "none"
    BY <1>2 DEF Connect
  <2>2. ASSUME NEW m \in Pending("accept"), op' = [op EXCEPT ![m] = Accepted(@.sock, c)],
               owner' = [owner EXCEPT ![op[m].sock] = c], peer' = [peer EXCEPT ![c] = "open"]
        PROVE  NeverDeaf'
    <3>1. m \in Msg /\ op[m].sock \in Socket
      BY <1>0 DEF Pending, Operation
    <3>2. op' = [op EXCEPT ![m] = Accepted(op[m].sock, c)]
      BY <1>0, <2>2, <3>1
    <3> QED
      BY <1>0, <2>1, <2>2, <3>1, <3>2, HeardFirst
  <2>3. ASSUME NEW m \in Pending("accept"), Complete(m, "error"),
               peer' = [peer EXCEPT ![c] = "gone"], UNCHANGED owner
        PROVE  NeverDeaf'
    <3>1. Becomes(m, "error") /\ OthersStay(m)
      BY <2>3, ResultEffect DEF Complete, Pending
    <3> QED
      BY <1>0, <1>1, <2>3, <3>1 DEF OthersStay
  <2>4. CASE peer' = [peer EXCEPT ![c] = "backlog"] /\ UNCHANGED <<owner, op>>
    BY <1>0, <1>1, <2>4
  <2> QED
    BY <1>2, <2>2, <2>3, <2>4, Zenon DEF Connect
<1>3. ASSUME NEW c \in Client, Write(c) \/ Leave(c) PROVE NeverDeaf'
  BY <1>0, <1>1, <1>3 DEF Write, Leave
<1>4. CASE Completes
  BY <1>1, <1>4, CompletesEffect DEF OthersStay
<1>5. CASE WakeForAccept \/ WakeForPost \/ EnumNetworkEvents \/ ExchangeRepost \/ DestroyServer
           \/ UNCHANGED vars
  <2>1. UNCHANGED <<owner, peer, op>>
    BY <1>5 DEF WakeForAccept, WakeForPost, EnumNetworkEvents, ExchangeRepost, DestroyServer,
                SetShutDown, SetAcceptEvent, Joined, vars, net
  <2> QED
    BY <1>1, <2>1
<1>6. CASE DeliverAccept \/ DeliverAcceptFails
  <2>1. Top \in Msg /\ op[Top] = NoOp
    BY <1>0, <1>6, TopInPool, PoolIsIdle DEF DeliverAccept, DeliverAcceptFails, Create
  <2>2. ASSUME NEW o, op' = [op EXCEPT ![Top] = o], UNCHANGED peer,
               \/ UNCHANGED owner
               \/ \E s \in Socket : owner' = [owner EXCEPT ![s] = "accepting"]
        PROVE  NeverDeaf'
    <3>1. \A n \in Msg \ {Top} : op'[n] = op[n]
      BY <1>0, <2>2
    <3>2. \A s \in Socket : owner'[s] \in Client => owner'[s] = owner[s]
      BY <1>0, <2>2
    <3> QED
      BY <1>1, <2>1, <2>2, <3>1, <3>2
  <2>3. ASSUME NEW s \in Socket, NEW c \in Backlog, op' = [op EXCEPT ![Top] = Accepted(s, c)],
               owner' = [owner EXCEPT ![s] = c], peer' = [peer EXCEPT ![c] = "open"]
        PROVE  NeverDeaf'
    <3>1. c \in Client /\ peer[c] = "backlog"
      BY DEF Backlog
    <3> QED
      BY <1>0, <2>1, <2>3, <3>1, HeardFirst
  <2>4. CASE DeliverAcceptFails
    BY <2>2, <2>4 DEF DeliverAcceptFails, net
  <2>5. CASE DeliverAccept
    BY <2>2, <2>3, <2>5, Zenon DEF DeliverAccept
  <2> QED
    BY <1>6, <2>4, <2>5
<1>7. ASSUME NEW m \in Msg, FreeAndClose(m) PROVE NeverDeaf'
  <2>1. /\ owner' = [owner EXCEPT ![op[m].sock] = "free"]
        /\ \A c \in Client : peer'[c] \in {peer[c], "gone"}
        /\ \A n \in Msg \ {m} : op'[n] = op[n] \/ Becomes(n, "error")
    BY <1>7, FreeAndCloseEffect
  <2>2. \A s \in Socket : owner'[s] \in Client => owner'[s] = owner[s] /\ s # op[m].sock
    BY <1>0, <2>1
  <2>3. \A s \in Socket : HeardBy(m, s) => ~Live(s)'
    BY <2>2 DEF Live, HeardBy
  <2>4. \A n \in Msg \ {m} : Hears(n) => Hears(n)' /\ op'[n].sock = op[n].sock /\ op'[n].who = op[n].who
    BY <2>1 DEF Hears, Becomes
  <2> QED
    BY <2>1, <2>2, <2>3, <2>4, HeardKept DEF HeardBy
<1>8. ASSUME NEW m \in Msg, NEW t \in Msg, op'[t] \in Receiving(op[m].sock), UNCHANGED <<peer, owner>>,
             t = m \/ op[t] = NoOp, \A n \in Msg \ {m, t} : op'[n] = op[n]
      PROVE  NeverDeaf'
  <2>1. ASSUME NEW s \in Socket, HeardBy(m, s), Live(s)' PROVE HeardBy(t, s)'
    BY <1>8, <2>1, ReceivingIs, LostIs DEF Live, HeardBy, Hears
  <2>2. \A n \in Msg \ {m} : Hears(n) => op'[n] = op[n]
    BY <1>8, LostIs DEF Hears
  <2> QED
    BY <1>8, <2>1, <2>2, HeardKept DEF Hears, HeardBy
<1>9. ASSUME NEW w \in Worker, Work(w) PROVE NeverDeaf'
  <2>1. ASSUME NEW m \in Msg, DeliverRecv(m), UNCHANGED <<peer, owner>> PROVE NeverDeaf'
    <3>1. op'[m] \in Receiving(op[m].sock) /\ \A n \in Msg \ {m} : op'[n] = op[n]
      BY <1>0, <2>1 DEF DeliverRecv
    <3> QED
      BY <1>8, <2>1, <3>1
  <2>2. ASSUME NEW m \in Msg, AcceptDone(w, m) PROVE NeverDeaf'
    <3>1. CASE DeliverAndFree(m)
      <4>1. PICK t \in Msg \ {m} :
              /\ op[t] = NoOp /\ op'[t] \in Receiving(op[m].sock)
              /\ \A n \in Msg \ {m, t} : op'[n] = op[n]
        BY <2>2, <3>1, DeliverAndFreeEffect DEF AcceptDone
      <4> QED
        BY <1>8, <3>1, <4>1 DEF DeliverAndFree
    <3> QED
      BY <1>7, <2>2, <3>1 DEF AcceptDone
  <2>3. ASSUME NEW m \in Msg, NotifyCloseLink(w, m) PROVE NeverDeaf'
    <3>1. Becomes(m, "held") /\ OthersStay(m) /\ UNCHANGED <<peer, owner>>
      BY <2>3, ResultEffect DEF NotifyCloseLink, net
    <3> QED
      BY <1>1, <3>1 DEF OthersStay
  <2>4. ASSUME NEW m \in Msg, op[m].res # "idle", NotifyRecvFinish(w, m) PROVE NeverDeaf'
    <3>1. Becomes(m, "held") /\ UNCHANGED <<peer, owner>>
          /\ \A n \in Msg \ {m} : op'[n] = op[n] \/ op[n] = NoOp
      BY <2>4, FinishEffect DEF NotifyRecvFinish, OthersStay
    <3> QED
      BY <1>1, <3>1
  <2>5. ASSUME NEW m \in Msg, RecvDone(w, m) PROVE NeverDeaf'
    <3>1. op[m].res # "idle"
      BY <2>5 DEF RecvDone
    <3>2. CASE /\ op' = [op EXCEPT ![m] = Lost] /\ UNCHANGED <<net, owner>>
               /\ peer[owner[op[m].sock]] = "shut"
      <4>1. \A s \in Socket : HeardBy(m, s) => ~Live(s)'
        BY <3>2 DEF Live, HeardBy, net
      <4>2. \A n \in Msg \ {m} : op'[n] = op[n]
        BY <1>0, <3>2
      <4> QED
        BY <3>2, <4>1, <4>2, HeardKept DEF Hears, HeardBy, net
    <3>3. \/ NotifyRecvFinish(w, m) \/ NotifyCloseLink(w, m)
          \/ /\ op' = [op EXCEPT ![m] = Lost] /\ UNCHANGED <<net, owner>>
             /\ peer[owner[op[m].sock]] = "shut"
      BY <2>5, Zenon DEF RecvDone
    <3> QED
      BY <2>3, <2>4, <3>1, <3>2, <3>3
  <2>6. CASE IncrementRepost(w) \/ SetPostEvent(w)
    BY <1>1, <2>6 DEF IncrementRepost, SetPostEvent, net
  <2>7. CASE Release(w) \/ Repost(w)
    <3>1. wmsg[w] \in Msg
      BY <1>0, <2>7 DEF Release, Repost, TypeOK
    <3> QED
      BY <1>7, <2>1, <2>7, <3>1 DEF Release, Repost, net
  <2> QED
    BY <1>9, <2>1, <2>2, <2>3, <2>5, <2>6, <2>7 DEF Work, Broken, SendDone, net
<1> QED
  BY <1>2, <1>3, <1>4, <1>5, <1>6, <1>9 DEF Next, Clients, WaitThread

-----------------------------------------------------------------------------
(* The time before the first reply.  A handle has one operation at most,   *)
(* which is its connection's; and the user knows of the connections but    *)
(* those a worker is about to tell of or to close.                         *)
Busy(m) == op[m].res \notin {"idle", "lost"}
Placed(m) ==
  /\ op[m].type \in {"accept", "recv"} /\ op[m].sock \in Socket
  /\ op[m].type = "recv" \/ op[m].res = "ok" =>
       op[m].who \in Client /\ owner[op[m].sock] = op[m].who
  /\ op[m].type = "accept" /\ op[m].res # "ok" => owner[op[m].sock] = "accepting"
  /\ op[m].type = "accept" => op[m].sock \notin told
PlaceInv ==
  /\ \A m \in Msg : Busy(m) => Placed(m)
  /\ \A m, n \in Msg : Busy(m) /\ Busy(n) /\ op[m].sock = op[n].sock => m = n

Tells(m, s) == op[m].type = "accept" /\ op[m].res # "idle" /\ op[m].sock = s
Closes(w, s) == wpc[w] = "free" /\ Held(w).sock = s
ToldInv ==
  /\ \A w \in Worker : \A s \in told : ~Closes(w, s)
  /\ \A s \in told : s \in Socket /\ owner[s] \in Client
  /\ \A s \in Socket : owner[s] \in Client /\ s \notin told =>
       (\E m \in Msg : Tells(m, s)) \/ (\E w \in Worker : Closes(w, s))

FirstInv == replies = 0 => PlaceInv /\ ToldInv

LEMMA FirstInit == Init => FirstInv
<1> SUFFICES ASSUME Init PROVE PlaceInv /\ ToldInv
  BY DEF FirstInv
<1> PICK on \in [(CHOOSE F \in SUBSET Msg : Cardinality(F) = First) -> Socket] :
       /\ \A m, n \in DOMAIN on : on[m] = on[n] => m = n
       /\ owner = [s \in Socket |-> IF \E m \in DOMAIN on : on[m] = s
                                    THEN "accepting" ELSE "free"]
       /\ op = [m \in Msg |-> IF m \in DOMAIN on THEN Posted("accept", on[m], NoClient)
                              ELSE NoOp]
  BY Zenon DEF Init
<1>1. \A s \in Socket : owner[s] \notin Client
  BY NetServerWin32Assumption
<1>2. told = {}
  BY DEF Init
<1>3. ASSUME NEW m \in Msg, Busy(m)
      PROVE  /\ m \in DOMAIN on /\ op[m].sock = on[m] /\ on[m] \in Socket
             /\ op[m].type = "accept" /\ op[m].res = "posted"
  BY <1>3 DEF Busy, Posted, NoOp
<1>4. \A m \in Msg : Busy(m) => owner[op[m].sock] = "accepting"
  BY <1>3
<1>5. PlaceInv
  BY <1>2, <1>3, <1>4 DEF PlaceInv, Placed
<1> QED
  BY <1>1, <1>2, <1>5 DEF ToldInv

(* The block of a worker that closes a connection is its own.              *)
LEMMA ClosingBlock ==
  ASSUME TypeOK, BlockHasOneOwner, NEW w \in Worker, wpc[w] \in {"free", "repost"}
  PROVE  /\ wmsg[w] \in Msg /\ op[wmsg[w]].res = "held" /\ Busy(wmsg[w])
         /\ \A v \in Worker : wmsg[v] = wmsg[w] => v = w
BY DEF TypeOK, BlockHasOneOwner, Held, Busy

(* Steps that change at most one operation, and no handle.                 *)
LEMMA PlaceKept ==
  ASSUME PlaceInv, NEW m \in Msg, UNCHANGED owner, told' \subseteq told,
         \A n \in Msg \ {m} : op'[n] = op[n] \/ ~Busy(n)',
         Busy(m)' => Busy(m) /\ op'[m].sock = op[m].sock /\ Placed(m)'
  PROVE  PlaceInv'
<1>1. ASSUME NEW n \in Msg, n # m, Busy(n)' PROVE Busy(n) /\ op'[n] = op[n] /\ Placed(n)'
  BY <1>1 DEF PlaceInv, Busy, Placed
<1>2. \A n \in Msg : Busy(n)' => Busy(n) /\ op'[n].sock = op[n].sock /\ Placed(n)'
  BY <1>1
<1> QED
  BY <1>2 DEF PlaceInv

LEMMA PlacedBecomes ==
  ASSUME NEW m \in Msg, Placed(m), NEW r, Becomes(m, r), UNCHANGED owner, told' \subseteq told,
         op[m].type = "recv" \/ (op[m].res # "ok" /\ r # "ok")
  PROVE  Placed(m)'
BY DEF Placed, Becomes

LEMMA ToldKept ==
  ASSUME ToldInv, UNCHANGED <<owner, told>>,
         \A w \in Worker : /\ wpc'[w] = "free" <=> wpc[w] = "free"
                           /\ wpc[w] = "free" => op'[wmsg'[w]].sock = op[wmsg[w]].sock,
         \A m \in Msg, s \in Socket : Tells(m, s) /\ owner[s] \in Client => Tells(m, s)'
  PROVE  ToldInv'
<1>1. \A w \in Worker : \A s : Closes(w, s)' <=> Closes(w, s)
  BY DEF Closes, Held
<1> QED
  BY <1>1 DEF ToldInv

(* A step that puts an accept, or a connection, on a handle of its own.    *)
LEMMA FirstBegins ==
  ASSUME TypeInv, BlockHasOneOwner, PlaceInv, ToldInv,
         NEW m \in Msg, NEW s \in Socket, NEW o, NEW x, op[m].res # "held",
         op' = [op EXCEPT ![m] = o], owner' = [owner EXCEPT ![s] = x], UNCHANGED <<told, work>>,
         o.type = "accept", o.sock = s,
         \/ o.res = "ok" /\ x \in Client /\ o.who = x
         \/ o.res = "posted" /\ x = "accepting",
         s \notin told, \A n \in Msg \ {m} : Busy(n) => op[n].sock # s,
         op[m] = NoOp \/ op[m].sock = s
  PROVE  PlaceInv' /\ ToldInv'
<1>0. TypeOK /\ "accepting" \notin Client
  BY NetServerWin32Assumption DEF TypeInv
<1>1. /\ op'[m] = o /\ \A n \in Msg \ {m} : op'[n] = op[n]
      /\ owner'[s] = x /\ \A t \in Socket \ {s} : owner'[t] = owner[t]
  BY <1>0 DEF TypeOK
<1>2. ASSUME NEW n \in Msg, n # m, Busy(n)' PROVE Busy(n) /\ op[n].sock # s /\ Placed(n)'
  <2>1. Busy(n) /\ op[n].sock # s /\ Placed(n) /\ op'[n] = op[n]
    BY <1>1, <1>2 DEF Busy, PlaceInv
  <2>2. owner'[op[n].sock] = owner[op[n].sock]
    BY <1>1, <2>1 DEF Placed
  <2> QED
    BY <2>1, <2>2 DEF Placed
<1>3. Placed(m)'
  BY <1>1 DEF Placed
<1>4. PlaceInv'
  BY <1>1, <1>2, <1>3 DEF PlaceInv
<1>5. \A w \in Worker : \A t : Closes(w, t)' <=> Closes(w, t)
  BY <1>0, <1>1, ClosingBlock DEF Closes, Held, work
<1>6. Tells(m, s)'
  BY <1>1 DEF Tells
<1>7. \A n \in Msg, t \in Socket \ {s} : Tells(n, t) => Tells(n, t)'
  BY <1>1, LostIs DEF Tells
<1>8. ToldInv'
  BY <1>1, <1>5, <1>6, <1>7 DEF ToldInv
<1> QED
  BY <1>4, <1>8

(* A step that closes a handle the user does not know of.                  *)
LEMMA FirstEnds ==
  ASSUME TypeInv, BlockHasOneOwner, PlaceInv, ToldInv, UNCHANGED told,
         NEW m \in Msg, Busy(m), FreeAndClose(m), op[m].sock \notin told,
         \A v \in Worker :
           /\ wpc'[v] = "free" <=> wpc[v] = "free" /\ wmsg[v] # m
           /\ wpc'[v] = "free" => wmsg'[v] = wmsg[v]
  PROVE  PlaceInv' /\ ToldInv'
<1> DEFINE s == op[m].sock
<1>0. TypeOK /\ s \in Socket /\ "free" \notin Client
  BY NetServerWin32Assumption DEF TypeInv, PlaceInv, Placed
<1>1. /\ op'[m] = NoOp /\ owner' = [owner EXCEPT ![s] = "free"]
      /\ \A n \in Msg \ {m} : op'[n] = op[n] \/ (op[n].res = "posted" /\ Becomes(n, "error"))
  BY FreeAndCloseEffect
<1>2. owner'[s] = "free" /\ \A t \in Socket \ {s} : owner'[t] = owner[t]
  BY <1>0, <1>1 DEF TypeOK
<1>3. ASSUME NEW n \in Msg, Busy(n)'
      PROVE  Busy(n) /\ op'[n].sock = op[n].sock /\ Placed(n)'
  <2>1. n # m /\ Busy(n) /\ Placed(n)
    BY <1>1, <1>3, LostIs DEF Busy, PlaceInv
  <2>2. op[n].sock # s /\ op[n].sock \in Socket
    BY <2>1 DEF PlaceInv, Placed
  <2>3. owner'[op[n].sock] = owner[op[n].sock]
    BY <1>2, <2>2
  <2>4. CASE op'[n] = op[n]
    BY <2>1, <2>3, <2>4 DEF Placed
  <2>5. CASE op[n].res = "posted" /\ Becomes(n, "error")
    BY <2>1, <2>3, <2>5 DEF Placed, Becomes
  <2> QED
    BY <1>1, <2>1, <2>4, <2>5
<1>4. PlaceInv'
  BY <1>3 DEF PlaceInv
<1>5. ASSUME NEW v \in Worker, wpc[v] = "free", wmsg[v] # m
      PROVE  wpc'[v] = "free" /\ Held(v)' = Held(v)
  <2>1. wmsg[v] \in Msg /\ op[wmsg[v]].res = "held"
    BY <1>0, <1>5, ClosingBlock
  <2> QED
    BY <1>1, <1>5, <2>1 DEF Held
<1>6. ASSUME NEW v \in Worker, NEW t PROVE Closes(v, t)' => Closes(v, t)
  BY <1>5 DEF Closes
<1>7. ASSUME NEW v \in Worker, NEW t \in Socket, t # s PROVE Closes(v, t) => Closes(v, t)'
  BY <1>5, <1>7 DEF Closes, Held
<1>8. ASSUME NEW n \in Msg, NEW t \in Socket, t # s PROVE Tells(n, t) => Tells(n, t)'
  BY <1>1, <1>8 DEF Tells, Becomes
<1>9. \A t \in Socket : owner'[t] \in Client => t # s
  BY <1>0, <1>2
<1>10. \A t \in told : t # s
  OBVIOUS
<1> HIDE DEF s
<1>11. ToldInv'
  BY <1>2, <1>6, <1>7, <1>8, <1>9, <1>10 DEF ToldInv
<1> QED
  BY <1>4, <1>11
(* Replies are counted and never forgotten.                                *)
LEMMA RepliesGrow == ASSUME TypeInv, [Next]_vars, replies' = 0 PROVE replies = 0
<1>0. replies \in Nat
  BY DEF TypeInv, TypeOK
<1>1. CASE Clients \/ Completes \/ WaitThread \/ DestroyServer \/ UNCHANGED vars
  BY <1>1 DEF Clients, Connect, Write, Leave, Completes, RecvCompletes, SendCompletes,
              WaitThread, WakeForAccept, WakeForPost, EnumNetworkEvents, ExchangeRepost,
              DeliverAccept, DeliverAcceptFails, DestroyServer, SetShutDown, SetAcceptEvent,
              Joined, vars
<1>2. ASSUME NEW w \in Worker, Work(w) PROVE replies' = replies \/ replies' = replies + 1
  <2>1. ASSUME NEW m \in Msg, RecvDone(w, m) PROVE replies' = replies \/ replies' = replies + 1
    BY <2>1, Zenon DEF RecvDone, NotifyRecvFinish, NotifyCloseLink
  <2> QED
    BY <1>2, <2>1 DEF Work, AcceptDone, Broken, NotifyCloseLink, SendDone, IncrementRepost,
                      SetPostEvent, Release, Repost
<1> QED
  BY <1>0, <1>1, <1>2 DEF Next

LEMMA FirstStep == TypeInv /\ BlockHasOneOwner /\ FirstInv /\ [Next]_vars => FirstInv'
<1> SUFFICES ASSUME TypeInv, BlockHasOneOwner, PlaceInv, ToldInv, [Next]_vars, replies = replies'
             PROVE  PlaceInv' /\ ToldInv'
  BY RepliesGrow DEF FirstInv
<1>0. /\ TypeOK /\ op \in [Msg -> Operation] /\ pool \subseteq Msg
      /\ wpc \in [Worker -> {"wait", "count", "signal", "free", "repost"}]
      /\ wmsg \in [Worker -> Msg \cup {NoMsg}]
      /\ {"free", "accepting"} \cap Client = {} /\ replies \in Nat
  BY NetServerWin32Assumption DEF TypeInv, TypeOK
<1>1. \A w \in Worker : wpc[w] \in {"free", "repost"} =>
        /\ wmsg[w] \in Msg /\ op[wmsg[w]].res = "held"
        /\ \A v \in Worker : wmsg[v] = wmsg[w] => v = w
  BY <1>0, ClosingBlock
<1>2. ASSUME UNCHANGED <<owner, op, told>>,
             \A w \in Worker : /\ wpc'[w] = "free" <=> wpc[w] = "free"
                               /\ wpc[w] = "free" => wmsg'[w] = wmsg[w]
      PROVE  PlaceInv' /\ ToldInv'
  BY <1>2, ToldKept DEF PlaceInv, Placed, Busy, Tells
<1>3. ASSUME NEW m \in Msg, NEW r, Becomes(m, r), OthersStay(m), UNCHANGED <<owner, told>>,
             Busy(m), r \notin {"idle", "lost"},
             op[m].type = "recv" \/ (op[m].res # "ok" /\ r # "ok"),
             \A w \in Worker : /\ wpc'[w] = "free" <=> wpc[w] = "free"
                               /\ wpc[w] = "free" => wmsg'[w] = wmsg[w]
      PROVE  PlaceInv' /\ ToldInv'
  <2>1. Placed(m)'
    BY <1>3, PlacedBecomes DEF PlaceInv
  <2>2. PlaceInv'
    BY <1>3, <2>1, PlaceKept DEF Becomes, OthersStay
  <2>3. \A n \in Msg : op'[n].type = op[n].type /\ op'[n].sock = op[n].sock
                       /\ (op[n].res # "idle" => op'[n].res # "idle")
    BY <1>3 DEF Becomes, OthersStay
  <2>4. \A n \in Msg, s \in Socket : Tells(n, s) => Tells(n, s)'
    BY <2>3 DEF Tells
  <2>5. \A w \in Worker : wpc[w] = "free" => op'[wmsg'[w]].sock = op[wmsg[w]].sock
    BY <1>1, <1>3, <2>3
  <2>6. ToldInv'
    BY <1>3, <2>4, <2>5, ToldKept
  <2> QED
    BY <2>2, <2>6
<1>4. ASSUME NEW c \in Client, Connect(c) PROVE PlaceInv' /\ ToldInv'
  <2>0. UNCHANGED <<told, work>>
    BY <1>4 DEF Connect
  <2>1. ASSUME NEW m \in Pending("accept"), op' = [op EXCEPT ![m] = Accepted(@.sock, c)],
               owner' = [owner EXCEPT ![op[m].sock] = c]
        PROVE  PlaceInv' /\ ToldInv'
    <3>1. /\ m \in Msg /\ op[m].sock \in Socket /\ op[m].res = "posted" /\ op[m].type = "accept"
          /\ Busy(m)
      BY <1>0 DEF Pending, Operation, Busy
    <3>2. op' = [op EXCEPT ![m] = Accepted(op[m].sock, c)]
      BY <1>0, <2>1, <3>1
    <3>3. op[m].sock \notin told /\ \A n \in Msg \ {m} : Busy(n) => op[n].sock # op[m].sock
      BY <3>1 DEF PlaceInv, Placed
    <3>4. /\ Accepted(op[m].sock, c).type = "accept" /\ Accepted(op[m].sock, c).sock = op[m].sock
          /\ Accepted(op[m].sock, c).res = "ok" /\ Accepted(op[m].sock, c).who = c
      BY DEF Accepted
    <3> QED
      BY <2>0, <2>1, <3>1, <3>2, <3>3, <3>4, FirstBegins
  <2>2. ASSUME NEW m \in Pending("accept"), Complete(m, "error"), UNCHANGED owner
        PROVE  PlaceInv' /\ ToldInv'
    <3>1. m \in Msg /\ op[m].res = "posted" /\ Busy(m)
      BY DEF Pending, Busy
    <3>2. Becomes(m, "error") /\ OthersStay(m)
      BY <2>2, <3>1, ResultEffect DEF Complete
    <3> QED
      BY <1>3, <2>0, <2>2, <3>1, <3>2 DEF work
  <2>3. CASE UNCHANGED <<owner, op>>
    BY <1>2, <2>0, <2>3 DEF work
  <2> QED
    BY <1>4, <2>1, <2>2, <2>3, Zenon DEF Connect
<1>5. CASE Completes
  <2>1. PICK m \in Msg, r \in {"short", "full", "eof", "error", "ok"} :
          /\ op[m].type \in {"recv", "send"} /\ op[m].res = "posted"
          /\ Becomes(m, r) /\ OthersStay(m)
    BY <1>5, CompletesEffect
  <2>2. Busy(m) /\ op[m].type = "recv"
    BY <2>1 DEF Busy, PlaceInv, Placed
  <2> QED
    BY <1>3, <1>5, <2>1, <2>2, CompletesEffect
<1>6. CASE WakeForAccept \/ WakeForPost \/ EnumNetworkEvents \/ ExchangeRepost \/ DestroyServer
           \/ UNCHANGED vars \/ \E c \in Client : Write(c) \/ Leave(c)
  <2>1. UNCHANGED <<owner, op, told, wpc, wmsg>>
    BY <1>6 DEF WakeForAccept, WakeForPost, EnumNetworkEvents, ExchangeRepost, DestroyServer,
                SetShutDown, SetAcceptEvent, Joined, vars, work, Write, Leave
  <2> QED
    BY <1>2, <2>1
<1>7. CASE DeliverAccept \/ DeliverAcceptFails
  <2>0. PICK t \in Msg : t = Top /\ op[t] = NoOp /\ UNCHANGED <<told, work>>
    BY <1>0, <1>7, TopInPool, PoolIsIdle DEF DeliverAccept, DeliverAcceptFails, Create
  <2>1. CASE DeliverAcceptFails
    <3>1. op' = [op EXCEPT ![t] = Lost] /\ UNCHANGED owner
      BY <2>0, <2>1 DEF DeliverAcceptFails
    <3>2. op'[t] = Lost /\ \A n \in Msg \ {t} : op'[n] = op[n]
      BY <1>0, <2>0, <3>1
    <3>3. ~Busy(t)'
      BY <3>2, LostIs DEF Busy
    <3>4. PlaceInv'
      BY <2>0, <3>1, <3>2, <3>3, PlaceKept
    <3>5. \A w \in Worker : wpc[w] = "free" => op'[wmsg[w]] = op[wmsg[w]]
      BY <1>1, <2>0, <3>2, LostIs
    <3>6. \A n \in Msg, s \in Socket : Tells(n, s) => Tells(n, s)'
      BY <2>0, <3>2, LostIs DEF Tells
    <3>7. ToldInv'
      BY <2>0, <3>1, <3>5, <3>6, ToldKept DEF work
    <3> QED
      BY <3>4, <3>7
  <2>2. ASSUME NEW s \in Socket, owner[s] = "free", NEW o, NEW x,
               op' = [op EXCEPT ![t] = o], owner' = [owner EXCEPT ![s] = x],
               o.type = "accept", o.sock = s,
               \/ o.res = "ok" /\ x \in Client /\ o.who = x
               \/ o.res = "posted" /\ x = "accepting"
        PROVE  PlaceInv' /\ ToldInv'
    <3>1. s \notin told
      BY <1>0, <2>2 DEF ToldInv
    <3>2. \A n \in Msg : Busy(n) => op[n].sock # s
      BY <1>0, <2>2 DEF PlaceInv, Placed
    <3> QED
      BY <2>0, <2>2, <3>1, <3>2, LostIs, FirstBegins
  <2>3. CASE DeliverAccept
    <3>1. PICK s \in Socket :
            /\ owner[s] = "free"
            /\ \/ op' = [op EXCEPT ![t] = Posted("accept", s, NoClient)]
                    /\ owner' = [owner EXCEPT ![s] = "accepting"]
               \/ \E c \in Client : op' = [op EXCEPT ![t] = Accepted(s, c)]
                                      /\ owner' = [owner EXCEPT ![s] = c]
      BY <2>0, <2>3, Zenon DEF DeliverAccept, Backlog
    <3>2. CASE /\ op' = [op EXCEPT ![t] = Posted("accept", s, NoClient)]
               /\ owner' = [owner EXCEPT ![s] = "accepting"]
      <4>1. /\ Posted("accept", s, NoClient).type = "accept"
            /\ Posted("accept", s, NoClient).sock = s
            /\ Posted("accept", s, NoClient).res = "posted"
        BY DEF Posted
      <4> QED
        BY <2>2, <3>1, <3>2, <4>1
    <3>3. ASSUME NEW c \in Client, op' = [op EXCEPT ![t] = Accepted(s, c)],
                 owner' = [owner EXCEPT ![s] = c]
          PROVE  PlaceInv' /\ ToldInv'
      <4>1. /\ Accepted(s, c).type = "accept" /\ Accepted(s, c).sock = s
            /\ Accepted(s, c).res = "ok" /\ Accepted(s, c).who = c
        BY DEF Accepted
      <4> QED
        BY <2>2, <3>1, <3>3, <4>1
    <3> QED
      BY <3>1, <3>2, <3>3
  <2> QED
    BY <1>7, <2>1, <2>3
<1>8. ASSUME NEW w \in Worker, Work(w) PROVE PlaceInv' /\ ToldInv'
  <2>1. ASSUME NEW m \in Msg, AcceptDone(w, m) PROVE PlaceInv' /\ ToldInv'
    <3>0. /\ wpc[w] = "wait" /\ op[m].type = "accept" /\ op[m].res = "ok" /\ Busy(m)
          /\ wpc' = [wpc EXCEPT ![w] = "count"] /\ wmsg' = [wmsg EXCEPT ![w] = NoMsg]
      BY <2>1 DEF AcceptDone, Return, Keep, Goto, Busy
    <3>1. \A v \in Worker : /\ wpc'[v] = "free" <=> wpc[v] = "free"
                            /\ wpc[v] = "free" => wmsg'[v] = wmsg[v] /\ wmsg[v] # m
      BY <1>0, <1>1, <3>0
    <3>2. CASE FreeAndClose(m) /\ UNCHANGED told
      <4>1. op[m].sock \notin told
        BY <3>0 DEF PlaceInv, Placed
      <4> QED
        BY <3>0, <3>1, <3>2, <4>1, FirstEnds
    <3>3. CASE told' = told \cup {op[m].sock} /\ DeliverAndFree(m)
      <4>1. PICK t \in Msg \ {m} :
              /\ op[t] = NoOp /\ op'[t] \in Receiving(op[m].sock) /\ op'[m] = NoOp
              /\ \A n \in Msg \ {m, t} : op'[n] = op[n]
        BY <3>0, <3>3, DeliverAndFreeEffect
      <4> DEFINE s == op[m].sock
      <4>2. /\ s \in Socket /\ owner[s] \in Client /\ UNCHANGED owner
            /\ \A n \in Msg \ {m} : Busy(n) => op[n].sock # s
        BY <3>0, <3>3 DEF PlaceInv, Placed, DeliverAndFree
      <4>3. \/ op'[t].type = "recv" /\ op'[t].sock = s /\ op'[t].who = owner[s]
            \/ op'[t] = Lost
        BY <4>1, ReceivingIs
      <4> HIDE DEF s
      <4>4. ASSUME NEW n \in Msg \ {m, t}, Busy(n)' PROVE Busy(n) /\ op'[n] = op[n] /\ op[n].sock # s /\ Placed(n)'
        <5>1. op'[n] = op[n] /\ Busy(n) /\ Placed(n) /\ op[n].sock # s
          BY <4>1, <4>2, <4>4 DEF Busy, PlaceInv
        <5> QED
          BY <3>3, <4>2, <5>1 DEF Placed, s
      <4>5. ~Busy(m)'
        BY <4>1, LostIs DEF Busy
      <4>6. Busy(t)' => Placed(t)' /\ op'[t].sock = s
        BY <4>2, <4>3, LostIs DEF Placed, Busy
      <4>7. \A n \in Msg : Busy(n)' => Placed(n)'
        BY <4>4, <4>5, <4>6
      <4>8. ASSUME NEW n \in Msg, NEW k \in Msg, Busy(n)', Busy(k)', op'[n].sock = op'[k].sock PROVE n = k
        BY <4>4, <4>5, <4>6, <4>8 DEF PlaceInv
      <4>9. PlaceInv'
        BY <4>7, <4>8 DEF PlaceInv
      <4>10. ASSUME NEW v \in Worker, wpc[v] = "free"
             PROVE  wmsg'[v] = wmsg[v] /\ op'[wmsg[v]] = op[wmsg[v]] /\ op[wmsg[v]].sock # s
        <5>1. wmsg[v] \in Msg \ {m, t} /\ op[wmsg[v]].res = "held" /\ wmsg'[v] = wmsg[v]
          BY <1>1, <3>1, <4>1, <4>10, LostIs
        <5> QED
          BY <4>1, <4>2, <5>1 DEF Busy
      <4>11. \A v \in Worker : \A u : Closes(v, u)' <=> Closes(v, u)
        BY <3>1, <4>10 DEF Closes, Held
      <4>12. \A v \in Worker : ~Closes(v, s)
        BY <4>10 DEF Closes, Held
      <4>13. \A n \in Msg, u \in Socket \ {s} : Tells(n, u) => Tells(n, u)'
        BY <4>1, LostIs DEF Tells, s
      <4>14. told' = told \cup {s}
        BY <3>3 DEF s
      <4>15. ToldInv'
        BY <4>2, <4>11, <4>12, <4>13, <4>14 DEF ToldInv
      <4> QED
        BY <4>9, <4>15
    <3> QED
      BY <2>1, <3>2, <3>3 DEF AcceptDone
  <2>2. ASSUME NEW m \in Msg, wpc[w] = "wait", op[m].res \in {"error", "full", "eof"},
               op[m].res # "error" => op[m].type = "recv", NotifyCloseLink(w, m)
        PROVE  PlaceInv' /\ ToldInv'
    <3>1. /\ Becomes(m, "held") /\ OthersStay(m) /\ UNCHANGED owner /\ told' = told \ {op[m].sock}
          /\ wpc' = [wpc EXCEPT ![w] = "free"] /\ wmsg' = [wmsg EXCEPT ![w] = m]
      BY <2>2, ResultEffect DEF NotifyCloseLink, Keep, Goto
    <3>2. Busy(m) /\ Placed(m) /\ op[m].res \notin {"ok", "held"}
      BY <2>2 DEF Busy, PlaceInv
    <3>3. Placed(m)'
      BY <3>1, <3>2, PlacedBecomes
    <3>4. PlaceInv'
      BY <3>1, <3>2, <3>3, PlaceKept DEF Becomes, OthersStay
    <3>5. wpc'[w] = "free" /\ Held(w)'.sock = op[m].sock
      BY <1>0, <3>1 DEF Held, Becomes
    <3>6. ASSUME NEW v \in Worker \ {w}, wpc'[v] = "free"
          PROVE  wpc[v] = "free" /\ Held(v)' = Held(v)
      <4>1. wpc[v] = "free" /\ wmsg'[v] = wmsg[v]
        BY <1>0, <3>1, <3>6
      <4>2. wmsg[v] \in Msg \ {m}
        BY <1>1, <3>2, <4>1
      <4> QED
        BY <3>1, <4>1, <4>2 DEF Held, OthersStay
    <3>7. ASSUME NEW v \in Worker, wpc[v] = "free" PROVE wpc'[v] = "free" /\ Held(v)' = Held(v)
      <4>1. v # w /\ wpc'[v] = "free"
        BY <1>0, <2>2, <3>1, <3>7
      <4> QED
        BY <3>6, <4>1
    <3>8. \A n \in Msg, s \in Socket : Tells(n, s) => Tells(n, s)'
      BY <3>1 DEF Tells, Becomes, OthersStay
    <3>9. \A v \in Worker : \A s : Closes(v, s)' => Closes(v, s) \/ s = op[m].sock
      BY <3>5, <3>6 DEF Closes
    <3>10. \A v \in Worker : \A s : Closes(v, s) => Closes(v, s)'
      BY <3>7 DEF Closes
    <3>11. ASSUME NEW s, s = op[m].sock PROVE Closes(w, s)'
      BY <3>5, <3>11 DEF Closes
    <3>12. ToldInv'
      BY <3>1, <3>8, <3>9, <3>10, <3>11 DEF ToldInv
    <3> QED
      BY <3>4, <3>12
  <2>3. ASSUME NEW m \in Msg, wpc[w] = "wait", op[m].type = "recv", op[m].res \notin {"idle", "lost"},
               NotifyRecvFinish(w, m)
        PROVE  PlaceInv' /\ ToldInv'
    <3>1. Becomes(m, "held") /\ OthersStay(m)
      BY <1>0, <2>3, FinishEffect
    <3>2. /\ UNCHANGED <<owner, told>>
          /\ wpc' = [wpc EXCEPT ![w] = "repost"] /\ wmsg' = [wmsg EXCEPT ![w] = m]
      BY <2>3 DEF NotifyRecvFinish, Keep, Goto
    <3>3. \A v \in Worker : /\ wpc'[v] = "free" <=> wpc[v] = "free"
                            /\ wpc[v] = "free" => wmsg'[v] = wmsg[v]
      BY <1>0, <2>3, <3>2
    <3> QED
      BY <1>3, <2>3, <3>1, <3>2, <3>3 DEF Busy
  <2>4. ASSUME NEW m \in Msg, wpc[w] = "wait", RecvDone(w, m) PROVE PlaceInv' /\ ToldInv'
    <3>1. op[m].type = "recv" /\ op[m].res \in {"short", "full", "eof"}
      BY <2>4 DEF RecvDone
    <3>2. CASE op' = [op EXCEPT ![m] = Lost] /\ UNCHANGED <<owner, told, work>>
               /\ op[m].res \in {"full", "eof"}
      <4>1. op'[m] = Lost /\ \A n \in Msg \ {m} : op'[n] = op[n]
        BY <1>0, <3>2
      <4>2. ~Busy(m)'
        BY <4>1, LostIs DEF Busy
      <4>3. PlaceInv'
        BY <3>2, <4>1, <4>2, PlaceKept
      <4>4. \A v \in Worker : wpc[v] = "free" => op'[wmsg[v]] = op[wmsg[v]]
        BY <1>1, <3>2, <4>1
      <4>5. \A n \in Msg, s \in Socket : Tells(n, s) => Tells(n, s)'
        BY <3>1, <4>1 DEF Tells
      <4>6. ToldInv'
        BY <3>2, <4>4, <4>5, ToldKept DEF work
      <4> QED
        BY <4>3, <4>6
    <3>3. \/ NotifyRecvFinish(w, m)
          \/ NotifyCloseLink(w, m) /\ op[m].res \in {"full", "eof"}
          \/ op' = [op EXCEPT ![m] = Lost] /\ UNCHANGED <<owner, told, work>>
               /\ op[m].res \in {"full", "eof"}
      BY <2>4, Zenon DEF RecvDone
    <3> QED
      BY <2>2, <2>3, <2>4, <3>1, <3>2, <3>3
  <2>5. ASSUME NEW m \in Msg, Broken(w, m) PROVE PlaceInv' /\ ToldInv'
    BY <2>2, <2>5 DEF Broken
  <2>6. ASSUME NEW m \in Msg, SendDone(w, m) PROVE FALSE
    BY <2>6 DEF SendDone, PlaceInv, Placed, Busy
  <2>7. CASE IncrementRepost(w) \/ SetPostEvent(w)
    <3>1. /\ UNCHANGED <<owner, op, told, wmsg>> /\ wpc[w] \in {"count", "signal"}
          /\ \E pc \in {"signal", "wait"} : wpc' = [wpc EXCEPT ![w] = pc]
      BY <2>7 DEF IncrementRepost, SetPostEvent, Goto
    <3>2. \A v \in Worker : wpc'[v] = "free" <=> wpc[v] = "free"
      BY <1>0, <3>1
    <3> QED
      BY <1>2, <3>1, <3>2
  <2>8. CASE Release(w)
    <3>1. /\ wpc[w] = "free" /\ FreeAndClose(wmsg[w]) /\ UNCHANGED told
          /\ wpc' = [wpc EXCEPT ![w] = "wait"] /\ wmsg' = [wmsg EXCEPT ![w] = NoMsg]
      BY <2>8 DEF Release, Return, Keep, Goto
    <3>2. wmsg[w] \in Msg /\ Busy(wmsg[w]) /\ \A v \in Worker : wmsg[v] = wmsg[w] => v = w
      BY <1>0, <3>1, ClosingBlock
    <3>3. op[wmsg[w]].sock \notin told
      BY <3>1 DEF ToldInv, Closes, Held
    <3>4. \A v \in Worker : /\ wpc'[v] = "free" <=> wpc[v] = "free" /\ wmsg[v] # wmsg[w]
                            /\ wpc'[v] = "free" => wmsg'[v] = wmsg[v]
      BY <1>0, <3>1, <3>2
    <3> QED
      BY <3>1, <3>2, <3>3, <3>4, FirstEnds
  <2>9. CASE Repost(w)
    <3>1. PICK m \in Msg :
            /\ m = wmsg[w] /\ wpc[w] = "repost" /\ DeliverRecv(m) /\ UNCHANGED <<owner, told>>
            /\ wpc' = [wpc EXCEPT ![w] = "wait"] /\ wmsg' = [wmsg EXCEPT ![w] = NoMsg]
      BY <1>1, <2>9 DEF Repost, Return, Keep, Goto
    <3>2. Busy(m) /\ Placed(m) /\ op[m].res = "held"
          /\ \A v \in Worker : wmsg[v] = m => v = w
      BY <1>0, <3>1, ClosingBlock DEF PlaceInv
    <3>3. op'[m] \in Receiving(op[m].sock) /\ \A n \in Msg \ {m} : op'[n] = op[n]
      BY <1>0, <3>1, <3>2 DEF DeliverRecv
    <3>4. \/ /\ op'[m].type = "recv" /\ op'[m].sock = op[m].sock
             /\ op'[m].who = owner[op[m].sock] /\ owner[op[m].sock] \in Client
          \/ op'[m] = Lost
      BY <3>3, ReceivingIs
    <3>5. Busy(m)' => op'[m].sock = op[m].sock /\ Placed(m)'
      BY <3>1, <3>2, <3>4, LostIs DEF Busy, Placed
    <3>6. PlaceInv'
      BY <3>1, <3>2, <3>3, <3>5, PlaceKept
    <3>7. \A v \in Worker : wpc[v] = "free" => v # w /\ wmsg[v] # m
      BY <3>1, <3>2
    <3>8. \A v \in Worker : /\ wpc'[v] = "free" <=> wpc[v] = "free"
                            /\ wpc[v] = "free" => wmsg'[v] = wmsg[v]
      BY <1>0, <3>1, <3>7
    <3>9. \A v \in Worker : wpc[v] = "free" => op'[wmsg[v]] = op[wmsg[v]]
      BY <1>1, <3>3, <3>7
    <3>10. ASSUME NEW n \in Msg, NEW s \in Socket, Tells(n, s), owner[s] \in Client PROVE Tells(n, s)'
      <4>1. n # m
        BY <1>0, <3>2, <3>10 DEF Tells, Placed
      <4> QED
        BY <3>3, <3>10, <4>1 DEF Tells
    <3>11. ToldInv'
      BY <3>1, <3>8, <3>9, <3>10, ToldKept
    <3> QED
      BY <3>6, <3>11
  <2>10. \A m \in Msg : RecvDone(w, m) => wpc[w] = "wait"
    BY DEF RecvDone
  <2> QED
    BY <1>8, <2>1, <2>4, <2>5, <2>6, <2>7, <2>8, <2>9, <2>10 DEF Work
<1> QED
  BY <1>4, <1>5, <1>6, <1>7, <1>8 DEF Next, Clients, WaitThread

(* Every live connection is listened to; and until a reply is sent, by one *)
(* receive of its own and with the user's knowledge, whatever handles are  *)
(* given out again (NetServer_Win32.cpp:475-566).                          *)
THEOREM ConnectionsAreHeard == Spec => []HeardOnce
<1>1. Init => TypeInv /\ BlockHasOneOwner /\ OwnInv /\ NeverDeaf /\ FirstInv
  <2> SUFFICES ASSUME Init PROVE BlockHasOneOwner /\ NeverDeaf
    BY TypeInit, OwnInit, FirstInit
  <2>1. \A m \in pool : op[m] = NoOp
    BY DEF Init
  <2>2. \A w \in Worker : wmsg[w] = NoMsg
    BY DEF Init
  <2>3. \A c \in Client : peer[c] = "none"
    BY DEF Init
  <2> QED
    BY <2>1, <2>2, <2>3 DEF BlockHasOneOwner, NeverDeaf
<1>2. TypeInv /\ FirstInv /\ NeverDeaf => HeardOnce
  <2> SUFFICES ASSUME TypeInv, PlaceInv, ToldInv PROVE OneReceive /\ TellsOpenSockets
    BY DEF FirstInv, HeardOnce
  <2>1. OneReceive
    BY DEF PlaceInv, Placed, Busy, OneReceive, InUse
  <2>2. TellsOpenSockets
    BY DEF ToldInv, TellsOpenSockets, Telling, Closing, Tells, Closes
  <2> QED
    BY <2>1, <2>2
<1> QED
  BY <1>1, <1>2, TypeStep, BlockStep, OwnStep, HeardStep, FirstStep, PTL DEF Spec
=============================================================================
