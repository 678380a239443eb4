---------------------------- MODULE NetServerWin32 ----------------------------
(***************************************************************************)
(* The TCP server over I/O completion ports: worker threads take completed *)
(* operations from the port, a wait thread posts accepts when one of two   *)
(* auto-reset events is set, and the main thread stops the wait thread.    *)
(* An operation is a block of g_OperationMsgPool; a socket is known by its *)
(* handle, which Windows gives out again once it is closed.                *)
(* The text of a message is abstracted to how much of the receive buffer   *)
(* it fills: part of it ("short") or all of it ("full").                   *)
(***************************************************************************)
EXTENDS Naturals, FiniteSets

CONSTANTS
  Client, Socket,  \* the peers, each of which connects once, and the handles
  Worker,          \* the threads of _WorkerThreadProc
  Msg,             \* the blocks that can be allocated
  NoClient, NoSocket, NoMsg,
  First, Batch,    \* NET_FIRST_DELIVER_ACCEPTMSG, NET_ONECE_DELIVER_ACCEPTMSG
  MaxData,         \* bound: messages of each client in flight
  MaxReply         \* bound: replies sent to all clients

ASSUME NetServerWin32Assumption ==
  /\ NoClient \notin Client /\ NoSocket \notin Socket /\ NoMsg \notin Msg
  /\ {"free", "accepting"} \cap Client = {}
  /\ First \in Nat /\ Batch \in Nat \ {0}
  /\ MaxData \in [Client -> Nat] /\ MaxReply \in Nat

VARIABLES
  peer,        \* each client's side of its connection
  data,        \* messages in its TCP receive buffer
  owner,       \* what each handle is: "free", "accepting", or a connection
  op,          \* each block's operation, and what Windows did with it
  pool,        \* m_pPoolArray, and the blocks not allocated yet
  told,        \* sockets between NotifyEstablishLink and NotifyCloseLink
  replies,     \* how many replies were sent
  wpc, wmsg,   \* where each worker is, and the block in its hands
  apc, todo,   \* where the wait thread is, and nDeliverNum - i
  acceptEvent, postEvent, \* g_hAcceptEvent and g_hPostEvent are set
  fdAccept,    \* FD_ACCEPT is recorded for the listening socket
  repost,      \* g_iRepostCount
  shutdown,    \* m_bShutDown
  main         \* the main thread in DestroyServer

net  == <<peer, data>>
work == <<wpc, wmsg>>
wait == <<apc, todo, acceptEvent, postEvent, fdAccept>>
stop == <<shutdown, main>>
vars == <<net, owner, op, pool, told, replies, work, wait, repost, stop>>

Operation ==
  {o \in [type: {"none", "accept", "recv", "send"}, sock: Socket \cup {NoSocket},
          who: Client \cup {NoClient},
          res: {"idle", "posted", "ok", "short", "full", "eof", "error", "held", "lost"}] :
     o.type = "accept" => o.sock \in Socket}
NoOp == [type |-> "none", sock |-> NoSocket, who |-> NoClient, res |-> "idle"]
Lost == [NoOp EXCEPT !.res = "lost"]
Posted(type, s, c) == [type |-> type, sock |-> s, who |-> c, res |-> "posted"]
Accepted(s, c) == [type |-> "accept", sock |-> s, who |-> c, res |-> "ok"]
Complete(m, result) == op' = [op EXCEPT ![m].res = result]

Backlog == {c \in Client : peer[c] = "backlog"}
Pending(type) == {m \in Msg : op[m].type = type /\ op[m].res = "posted"}

TypeOK ==
  /\ peer \in [Client -> {"none", "backlog", "open", "shut", "reset", "gone"}]
  /\ data \in [Client -> Nat] /\ \A c \in Client : data[c] <= MaxData[c]
  /\ replies \in 0..MaxReply
  /\ owner \in [Socket -> {"free", "accepting"} \cup Client]
  /\ op \in [Msg -> Operation] /\ pool \subseteq Msg
  /\ told \subseteq Socket
  /\ wpc \in [Worker -> {"wait", "count", "signal", "free", "repost"}]
  /\ wmsg \in [Worker -> Msg \cup {NoMsg}]
  /\ \A w \in Worker : wmsg[w] = NoMsg <=> wpc[w] \notin {"free", "repost"}
  /\ apc \in {"wait", "enum", "exchange", "deliver", "ended"} /\ todo \in Nat
  /\ acceptEvent \in BOOLEAN /\ postEvent \in BOOLEAN /\ fdAccept \in BOOLEAN
  /\ repost \in Nat /\ shutdown \in BOOLEAN /\ main \in {"run", "set", "join", "done"}

(* CreateServer has posted the first accepts and started the wait thread,  *)
(* which has started the workers.                                          *)
Init ==
  /\ peer = [c \in Client |-> "none"] /\ data = [c \in Client |-> 0]
  /\ \E on \in [(CHOOSE F \in SUBSET Msg : Cardinality(F) = First) -> Socket] :
       /\ \A m, n \in DOMAIN on : on[m] = on[n] => m = n
       /\ owner = [s \in Socket |-> IF \E m \in DOMAIN on : on[m] = s
                                    THEN "accepting" ELSE "free"]
       /\ op = [m \in Msg |-> IF m \in DOMAIN on THEN Posted("accept", on[m], NoClient)
                              ELSE NoOp]
       /\ pool = Msg \ DOMAIN on
  /\ told = {} /\ replies = 0
  /\ wpc = [w \in Worker |-> "wait"] /\ wmsg = [w \in Worker |-> NoMsg]
  /\ apc = "wait" /\ todo = 0
  /\ acceptEvent = FALSE /\ postEvent = FALSE /\ fdAccept = FALSE
  /\ repost = 0 /\ shutdown = FALSE /\ main = "run"

-----------------------------------------------------------------------------
(* The pool (UtilsMemPool) hands out a block that is in it, or that it     *)
(* allocates; which one makes no difference.                               *)
Top == CHOOSE m \in pool : TRUE
Create == pool # {} /\ pool' = pool \ {Top}

-----------------------------------------------------------------------------
(* Windows and the clients.                                                *)

(* A connection completes a posted accept, with an error if it breaks at   *)
(* once; without one it waits and FD_ACCEPT is signalled.                  *)
Connect(c) ==
  /\ peer[c] = "none"
  /\ \/ \E m \in Pending("accept") :
          \/ /\ op' = [op EXCEPT ![m] = Accepted(@.sock, c)]
             /\ owner' = [owner EXCEPT ![op[m].sock] = c]
             /\ peer' = [peer EXCEPT ![c] = "open"]
          \/ /\ Complete(m, "error")
             /\ peer' = [peer EXCEPT ![c] = "gone"] /\ UNCHANGED owner
        /\ UNCHANGED <<acceptEvent, fdAccept>>
     \/ /\ Pending("accept") = {}
        /\ peer' = [peer EXCEPT ![c] = "backlog"]
        /\ acceptEvent' = TRUE /\ fdAccept' = TRUE
        /\ UNCHANGED <<owner, op>>
  /\ UNCHANGED <<data, pool, told, replies, work, apc, todo, postEvent, repost, stop>>

Write(c) ==
  /\ peer[c] = "open" /\ data[c] < MaxData[c]
  /\ data' = [data EXCEPT ![c] = @ + 1]
  /\ UNCHANGED <<peer, owner, op, pool, told, replies, work, wait, repost, stop>>

(* The client closes its side, or the connection breaks (the keep-alive of *)
(* DisposeHeartbeat finds out).                                            *)
Leave(c) ==
  /\ peer[c] \in {"open", "shut"}
  /\ \E side \in {"shut", "reset"} \ {peer[c]} : peer' = [peer EXCEPT ![c] = side]
  /\ UNCHANGED <<data, owner, op, pool, told, replies, work, wait, repost, stop>>

RecvCompletes(m) ==
  LET c == op[m].who IN
  /\ m \in Pending("recv")
  /\ \/ /\ peer[c] \in {"open", "shut"} /\ data[c] > 0
        /\ \E size \in {"short", "full"} : Complete(m, size)
        /\ data' = [data EXCEPT ![c] = @ - 1]
     \/ /\ peer[c] = "shut" /\ data[c] = 0
        /\ Complete(m, "eof") /\ UNCHANGED data
     \/ /\ peer[c] = "reset"
        /\ Complete(m, "error") /\ UNCHANGED data
  /\ UNCHANGED <<peer, owner, pool, told, replies, work, wait, repost, stop>>

SendCompletes(m) ==
  /\ m \in Pending("send")
  /\ Complete(m, IF peer[op[m].who] = "reset" THEN "error" ELSE "ok")
  /\ UNCHANGED <<net, owner, pool, told, replies, work, wait, repost, stop>>

(* closesocket: the connection ends and its operations are aborted.        *)
Aborted(s) ==
  [m \in Msg |->
     IF /\ op[m].res = "posted"
        /\ IF op[m].type = "accept" THEN op[m].sock = s ELSE op[m].who = owner[s]
     THEN [op[m] EXCEPT !.res = "error"] ELSE op[m]]
Close(s) ==
  /\ owner' = [owner EXCEPT ![s] = "free"]
  /\ peer' = [c \in Client |-> IF owner[s] = c THEN "gone" ELSE peer[c]]

-----------------------------------------------------------------------------
(* The wait thread.                                                        *)

(* WSAWaitForMultipleEvents resets the event that it reports, the first of *)
(* those set; m_bShutDown is looked at next.                               *)
WakeForAccept ==
  /\ apc = "wait" /\ acceptEvent
  /\ acceptEvent' = FALSE /\ apc' = IF shutdown THEN "ended" ELSE "enum"
  /\ UNCHANGED <<net, owner, op, pool, told, replies, work, todo, postEvent, fdAccept,
                 repost, stop>>

WakeForPost ==
  /\ apc = "wait" /\ ~acceptEvent /\ postEvent
  /\ postEvent' = FALSE /\ apc' = IF shutdown THEN "ended" ELSE "exchange"
  /\ UNCHANGED <<net, owner, op, pool, told, replies, work, todo, acceptEvent, fdAccept,
                 repost, stop>>

(* Mutated form: the loop tests its condition at the end. *)
DeliverOnce(n) == todo' = n /\ apc' = IF n = 0 /\ apc = "deliver" THEN "wait" ELSE "deliver"
DeliverNum(n) == todo' = n /\ apc' = IF n = 0 THEN "wait" ELSE "deliver"

(* Mutated form: the events are asked for after they were cleared. *)
NoneLeft == 0
Asked == IF fdAccept THEN Batch ELSE 0

(* WSAEnumNetworkEvents clears what is recorded and resets the event.      *)
EnumNetworkEvents ==
  /\ apc = "enum" /\ DeliverNum(Asked)
  /\ acceptEvent' = FALSE /\ fdAccept' = FALSE
  /\ UNCHANGED <<net, owner, op, pool, told, replies, work, postEvent, repost, stop>>

(* Mutated form: one accept is posted for each signal. *)
OneOfThem == IF repost = 0 THEN 0 ELSE 1
AllOfThem == repost

ExchangeRepost ==
  /\ apc = "exchange" /\ DeliverNum(AllOfThem)
  /\ repost' = repost - AllOfThem
  /\ UNCHANGED <<net, owner, op, pool, told, replies, work, acceptEvent, postEvent,
                 fdAccept, stop>>

(* DeliverAccept, on a new socket; a connection that waits is taken at     *)
(* once, and FD_ACCEPT signalled for the ones after it.                    *)
DeliverAccept ==
  /\ apc = "deliver" /\ Create /\ DeliverNum(todo - 1)
  /\ \E s \in Socket :
       /\ owner[s] = "free"
       /\ \/ /\ Backlog = {}
             /\ op' = [op EXCEPT ![Top] = Posted("accept", s, NoClient)]
             /\ owner' = [owner EXCEPT ![s] = "accepting"]
             /\ UNCHANGED <<peer, acceptEvent, fdAccept>>
          \/ \E c \in Backlog :
               /\ op' = [op EXCEPT ![Top] = Accepted(s, c)]
               /\ owner' = [owner EXCEPT ![s] = c]
               /\ peer' = [peer EXCEPT ![c] = "open"]
               /\ acceptEvent' = (acceptEvent \/ Backlog # {c})
               /\ fdAccept' = (fdAccept \/ Backlog # {c})
  /\ UNCHANGED <<data, told, replies, work, postEvent, repost, stop>>

(* No socket, or AcceptEx failed: the block is not returned. *)
DeliverAcceptFails ==
  /\ apc = "deliver" /\ Create /\ DeliverNum(todo - 1)
  /\ op' = [op EXCEPT ![Top] = Lost]
  /\ shutdown' = TRUE
  /\ UNCHANGED <<net, owner, told, replies, work, acceptEvent, postEvent, fdAccept,
                 repost, main>>

-----------------------------------------------------------------------------
(* The workers: GetQueuedCompletionStatus and DisposeIOMsg.  A worker's    *)
(* step begins where it takes a completed operation, which stays in the    *)
(* port till then.                                                         *)

Goto(w, pc) == wpc' = [wpc EXCEPT ![w] = pc]
Keep(w, m, pc) == Goto(w, pc) /\ wmsg' = [wmsg EXCEPT ![w] = m]
Return(w, pc) == Keep(w, NoMsg, pc)
Held(w) == op[wmsg[w]]
Free(m) == pool' = pool \cup {m}

(* WSARecv fails on a handle that is closed or not connected, and may fail *)
(* on a broken connection; the block is then in nobody's hands.            *)
RecvMayFail(s) == owner[s] \in Client => peer[owner[s]] = "reset"
Receiving(s) ==
  {Posted("recv", s, c) : c \in {c \in Client : owner[s] = c}}
    \cup {Lost : x \in {x \in {s} : RecvMayFail(x)}}

FreeAndClose(m) ==
  /\ Free(m) /\ Close(op[m].sock)
  /\ op' = [Aborted(op[m].sock) EXCEPT ![m] = NoOp]

(* Mutated forms: the receive is posted in the block of the accept, which  *)
(* is freed all the same; the block is freed with FreeOperationMsgFunc.    *)
DeliverInPlace(m) ==
  /\ \E recv \in Receiving(op[m].sock) : op' = [op EXCEPT ![m] = recv]
  /\ Free(m) /\ UNCHANGED <<peer, owner>>
DeliverAndClose(m) ==
  /\ pool # {} /\ pool' = (pool \ {Top}) \cup {m} /\ Close(op[m].sock)
  /\ op' = [op EXCEPT ![m] = NoOp, ![Top] = [@ EXCEPT !.type = "recv", !.sock = op[m].sock,
                                              !.who = op[m].who, !.res = "error"]]
DeliverAndFree(m) ==
  /\ pool # {} /\ pool' = (pool \ {Top}) \cup {m}
  /\ \E recv \in Receiving(op[m].sock) : op' = [op EXCEPT ![m] = NoOp, ![Top] = recv]
  /\ UNCHANGED <<peer, owner>>

(* An accept: the user is told and a receive is posted in a block of its   *)
(* own, or the heartbeat cannot be set and the socket is closed.           *)
AcceptDone(w, m) ==
  /\ wpc[w] = "wait" /\ op[m].type = "accept" /\ op[m].res = "ok"
  /\ \/ told' = told \cup {op[m].sock} /\ DeliverAndFree(m)
     \/ FreeAndClose(m) /\ UNCHANGED told
  /\ Return(w, "count")
  /\ UNCHANGED <<data, replies, wait, repost, stop>>

IncrementRepost(w) ==
  /\ wpc[w] = "count"
  /\ repost' = repost + 1 /\ Goto(w, "signal")
  /\ UNCHANGED <<net, owner, op, pool, told, replies, wmsg, wait, stop>>

SetPostEvent(w) ==
  /\ wpc[w] = "signal"
  /\ postEvent' = TRUE /\ Goto(w, "wait")
  /\ UNCHANGED <<net, owner, op, pool, told, replies, wmsg, apc, todo, acceptEvent,
                 fdAccept, repost, stop>>


(* The end of a connection: NotifyCloseLink, and then Free, which closes   *)
(* the socket.                                                             *)
NotifyCloseLink(w, m) ==
  /\ Keep(w, m, "free") /\ told' = told \ {op[m].sock}
  /\ op' = [op EXCEPT ![m].res = "held"]
  /\ UNCHANGED <<net, owner, pool, replies>>

Broken(w, m) ==
  /\ wpc[w] = "wait" /\ op[m].res = "error" /\ NotifyCloseLink(w, m)
  /\ UNCHANGED <<wait, repost, stop>>

Release(w) ==
  /\ wpc[w] = "free" /\ FreeAndClose(wmsg[w]) /\ Return(w, "wait")
  /\ UNCHANGED <<data, told, replies, wait, repost, stop>>

(* NotifyRecvFinish, whose user may answer with SendText.  A send that     *)
(* fails at once keeps its block.                                          *)
NotifyRecvFinish(w, m) ==
  /\ Keep(w, m, "repost")
  /\ \/ op' = [op EXCEPT ![m].res = "held"] /\ UNCHANGED <<pool, replies>>
     \/ /\ replies < MaxReply /\ replies' = replies + 1 /\ Create
        /\ \E send \in {Posted("send", op[m].sock, c) : c \in Client} \cup {Lost} :
             /\ send.who = owner[op[m].sock] \/ (send = Lost /\ owner[op[m].sock] \notin Client)
             /\ op' = [op EXCEPT ![m].res = "held", ![Top] = send]
  /\ UNCHANGED <<peer, owner, told>>

(* A receive.  fu_socket_recv takes a part of the buffer for the message   *)
(* and otherwise calls recv: more has come; or nothing has, or the handle  *)
(* is no connection, which ends the connection; or the peer has closed its *)
(* side, and the block and the socket are left as they are.                *)
RecvDone(w, m) ==
  LET c == owner[op[m].sock] IN
  /\ wpc[w] = "wait" /\ op[m].type = "recv"
  /\ \/ op[m].res = "short" /\ NotifyRecvFinish(w, m) /\ UNCHANGED data
     \/ /\ op[m].res \in {"full", "eof"}
        /\ \/ /\ c \in Client /\ peer[c] # "reset" /\ data[c] > 0
              /\ data' = [data EXCEPT ![c] = 0] /\ NotifyRecvFinish(w, m)
           \/ /\ c \in Client => peer[c] = "reset" \/ (peer[c] = "open" /\ data[c] = 0)
              /\ NotifyCloseLink(w, m)
           \/ /\ c \in Client /\ peer[c] = "shut" /\ data[c] = 0
              /\ op' = [op EXCEPT ![m] = Lost]
              /\ UNCHANGED <<net, owner, pool, told, replies, work>>
  /\ UNCHANGED <<wait, repost, stop>>

DeliverRecv(m) == \E recv \in Receiving(op[m].sock) : op' = [op EXCEPT ![m] = recv]

Repost(w) ==
  /\ wpc[w] = "repost" /\ DeliverRecv(wmsg[w]) /\ Return(w, "wait")
  /\ UNCHANGED <<net, owner, pool, told, replies, wait, repost, stop>>

(* A send: its block, too, goes on as a receive. *)
SendDone(w, m) ==
  /\ wpc[w] = "wait" /\ op[m].type = "send" /\ op[m].res = "ok" /\ DeliverRecv(m)
  /\ UNCHANGED <<net, owner, pool, told, replies, work, wait, repost, stop>>

-----------------------------------------------------------------------------
(* The main thread: DestroyServer.                                         *)
SetShutDown ==
  /\ main = "run" /\ shutdown' = TRUE /\ main' = "set"
  /\ UNCHANGED <<net, owner, op, pool, told, replies, work, wait, repost>>

SetAcceptEvent ==
  /\ main = "set" /\ acceptEvent' = TRUE /\ main' = "join"
  /\ UNCHANGED <<net, owner, op, pool, told, replies, work, apc, todo, postEvent,
                 fdAccept, repost, shutdown>>

Joined ==
  /\ main = "join" /\ apc = "ended" /\ main' = "done"
  /\ UNCHANGED <<net, owner, op, pool, told, replies, work, wait, repost, shutdown>>

-----------------------------------------------------------------------------
Clients == \E c \in Client : Connect(c) \/ Write(c) \/ Leave(c)
Completes == \E m \in Msg : RecvCompletes(m) \/ SendCompletes(m)
WaitThread ==
  \/ WakeForAccept \/ WakeForPost \/ EnumNetworkEvents \/ ExchangeRepost
  \/ DeliverAccept \/ DeliverAcceptFails
Work(w) ==
  \/ \E m \in Msg : AcceptDone(w, m) \/ Broken(w, m) \/ RecvDone(w, m) \/ SendDone(w, m)
  \/ IncrementRepost(w) \/ SetPostEvent(w) \/ Release(w) \/ Repost(w)
DestroyServer == SetShutDown \/ SetAcceptEvent \/ Joined

Next == Clients \/ Completes \/ WaitThread \/ DestroyServer \/ \E w \in Worker : Work(w)
Spec == Init /\ [][Next]_vars

(* Windows completes operations and schedules the threads.                 *)
FairSpec ==
  /\ Spec /\ WF_vars(Completes) /\ WF_vars(WaitThread)
  /\ WF_vars(SetAcceptEvent \/ Joined) /\ \A w \in Worker : WF_vars(Work(w))

-----------------------------------------------------------------------------
(* No wake-up for an accept to be posted again is lost: while the wait     *)
(* thread runs, g_iRepostCount is zero, or the event is set, or the thread *)
(* is about to take the count, or a worker about to set the event          *)
(* (NetServer_Win32.cpp:243, 525-526).                                     *)
RepostIsSignalled ==
  repost > 0 /\ apc # "ended" =>
    postEvent \/ apc = "exchange" \/ \E w \in Worker : wpc[w] = "signal"

(* A block has one owner: the pool, one worker, or Windows; it is given    *)
(* back once on every path of DisposeIOMsg (477, 522, 538-549, 557-564)    *)
(* and so never handed out while in use.                                   *)
BlockHasOneOwner ==
  /\ \A m \in pool : op[m] = NoOp
  /\ \A w \in Worker : wmsg[w] # NoMsg =>
       /\ Held(w).res = "held"
       /\ \A v \in Worker : wmsg[v] = wmsg[w] => v = w

(* The server listens to every live connection: a receive of it is posted, *)
(* completed or in a worker's hands, or its accept is (508-514, 549).      *)
NeverDeaf ==
  \A s \in Socket : owner[s] \in Client /\ peer[owner[s]] = "open" =>
    \E m \in Msg : /\ op[m].sock = s /\ op[m].who = owner[s]
                   /\ op[m].type \in {"accept", "recv"} /\ op[m].res # "lost"

(* A connection has one receive at most, so that its messages are handed   *)
(* over in order, and no operation uses a handle that was closed and       *)
(* perhaps given to another connection.                                    *)
InUse(m) == op[m].type = "recv" /\ op[m].res \notin {"idle", "lost"}
OneReceive ==
  \A m \in Msg : InUse(m) =>
    /\ owner[op[m].sock] = op[m].who
    /\ \A n \in Msg : InUse(n) /\ op[n].sock = op[m].sock => m = n

(* The sockets the user was told of are the open ones, but for those a     *)
(* worker is about to tell of or to close: a handle is reported closed     *)
(* before Windows can give it out again (476-477).                         *)
Telling == {op[m].sock : m \in {n \in Msg : op[n].type = "accept" /\ op[n].res # "idle"}}
Closing == {Held(w).sock : w \in {v \in Worker : wpc[v] = "free"}}
TellsOpenSockets ==
  LET open == {s \in Socket : owner[s] \in Client} IN
  told \subseteq open /\ open \subseteq told \cup Telling \cup Closing

(* Every live connection is listened to, and until a reply is sent, whose  *)
(* block goes on as a second receive (564), by one receive of its own and  *)
(* with the user's knowledge.                                              *)
HeardOnce == NeverDeaf /\ (replies = 0 => OneReceive /\ TellsOpenSockets)

(* No connection waits unnoticed: FD_ACCEPT is recorded and the event set, *)
(* or the wait thread is about to ask for it, or has accepts to post,      *)
(* unless it has given up (232-259).                                       *)
BacklogIsSignalled ==
  Backlog # {} =>
    \/ fdAccept /\ (acceptEvent \/ apc = "enum")
    \/ todo > 0 \/ shutdown

-----------------------------------------------------------------------------
(* "Tell the listening thread to stop at once" and "wait until it has      *)
(* ended" (NetServer_Win32.cpp:175-178): DestroyServer returns.            *)
DestroyReturns == main = "join" ~> main = "done"
=============================================================================
