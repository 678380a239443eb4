----------------------------- MODULE FUNetServer -----------------------------
(***************************************************************************)
(* The server program: the main thread (Server.cpp: GameStart, GameEnd)    *)
(* and the libevent loop thread, which accepts connections, reads          *)
(* requests, checks their protocol id, hands them to the login logic and   *)
(* replies.  Both threads use the event base, the server object and the    *)
(* list of protocol definitions, without a lock.                           *)
(* A request is two halves on the wire.  What a use of freed memory does   *)
(* is not specified: the model stops there, crashed.                       *)
(***************************************************************************)
EXTENDS Naturals, Sequences, FiniteSets

CONSTANTS
  Client, Handle,      \* peers (and their ip), addresses of a bufferevent
  NoClient, NoHandle,
  MaxRequests,         \* bound: requests each client sends
  Split,               \* TCP may deliver a part of a request
  Pipelined,           \* clients may send before the last reply
  MayFail,             \* whether memory for a bufferevent may run out
  MayQuit              \* whether "quit" may be typed

ASSUME FUNetServerAssumption ==
  /\ NoClient \notin Client /\ NoHandle \notin Handle
  /\ MaxRequests \in [Client -> Nat] /\ {Split, Pipelined, MayFail, MayQuit} \subseteq BOOLEAN

(* login: 1001; known: an id of the protocol files that no game logic      *)
(* handles; undefined: any other; bad: no JSON, or no msgId or msgData.    *)
Kind == {"login", "known", "undefined", "bad"}
Reply == {"1002", "100", "101", "null", "1002 without msgId"}

VARIABLES
  peer,      \* each client's connection, seen from the client
  link,      \* its bufferevent
  linkList,  \* st_LinkSocketList: the ip of each handle
  sent,      \* requests the client sent
  nread,     \* halves of them the server has read
  inbox,     \* replies the client was sent
  prots,     \* g_JsonProtList: "loaded", its elements "deleted", "cleared"
  loop,      \* the loop thread
  pend,      \* the message its read callback is at
  main,      \* the main thread
  isStart,   \* m_bStart
  freed,     \* what the main thread has freed
  crashed    \* freed memory was used

wire   == <<peer, link, sent, nread, inbox>>
server == <<prots, main, isStart, freed>>
vars   == <<wire, linkList, server, loop, pend, crashed>>

NoMessage == [client |-> NoClient, kind |-> "bad"]

TypeOK ==
  /\ peer \in [Client -> {"none", "connecting", "open", "closing"}]
  /\ link \in [Client -> Handle \cup {NoHandle}]
  /\ linkList \in [Handle -> Client \cup {NoClient}]
  /\ \A c \in Client :
       /\ sent[c] \in Seq(Kind) /\ Len(sent[c]) <= MaxRequests[c]
       /\ nread[c] \in 0..(2 * Len(sent[c]))
       /\ inbox[c] \in Seq(Reply) /\ Len(inbox[c]) <= nread[c]
  /\ prots \in {"loaded", "deleted", "cleared"}
  /\ loop \in {"none", "created", "dispatch", "reply", "ended"}
  /\ pend \in [client: Client \cup {NoClient}, kind: Kind]
  /\ main \in {"run", "protocols", "destroy", "loopexit", "basefree", "stopped",
               "delete", "last", "gone", "exit"}
  /\ isStart \in BOOLEAN /\ crashed \in BOOLEAN
  /\ freed \subseteq {"listener", "base", "logic", "server"}

(* GameStart is over: the protocols are loaded and the thread is created,  *)
(* unless CreateServer failed, which GameStart does not look at.           *)
Init ==
  /\ peer = [c \in Client |-> "none"] /\ link = [c \in Client |-> NoHandle]
  /\ linkList = [h \in Handle |-> NoClient]
  /\ sent = [c \in Client |-> <<>>] /\ nread = [c \in Client |-> 0]
  /\ inbox = [c \in Client |-> <<>>]
  /\ prots = "loaded" /\ loop \in {"none", "created"} /\ pend = NoMessage
  /\ main = "run" /\ isStart = FALSE /\ freed = {} /\ crashed = FALSE

Alive == main # "exit" /\ ~crashed

-----------------------------------------------------------------------------
(* The clients.                                                            *)

Connect(c) ==
  /\ peer[c] = "none" /\ "listener" \notin freed /\ loop # "none"
  /\ peer' = [peer EXCEPT ![c] = "connecting"]
  /\ UNCHANGED <<link, linkList, sent, nread, inbox, server, loop, pend, crashed>>

Send(c, k) ==
  /\ peer[c] \in {"connecting", "open"} /\ Len(sent[c]) < MaxRequests[c]
  /\ Pipelined \/ Len(inbox[c]) = Len(sent[c])
  /\ sent' = [sent EXCEPT ![c] = Append(@, k)]
  /\ UNCHANGED <<peer, link, linkList, nread, inbox, server, loop, pend, crashed>>

Close(c) ==
  /\ peer[c] = "open"
  /\ peer' = [peer EXCEPT ![c] = "closing"]
  /\ UNCHANGED <<link, linkList, sent, nread, inbox, server, loop, pend, crashed>>

-----------------------------------------------------------------------------
(* The loop thread.  Whatever it does, it does with the base and the       *)
(* server object.                                                          *)
Usable == {"base", "logic", "server"} \cap freed = {}
Loops == loop = "dispatch" /\ Usable

ThreadStart ==
  /\ loop = "created" /\ "server" \notin freed
  /\ isStart' = TRUE /\ loop' = "dispatch"
  /\ UNCHANGED <<wire, linkList, prots, main, freed, pend, crashed>>

(* Mutated form: a handle that is in the list keeps its entry for good.    *)
KeepEntry(h) == UNCHANGED linkList
RidLinkSock(h) == linkList' = [linkList EXCEPT ![h] = NoClient]

Accept(c, h) ==
  /\ Loops /\ peer[c] = "connecting" /\ "listener" \notin freed
  /\ \A d \in Client : link[d] # h
  /\ peer' = [peer EXCEPT ![c] = "open"] /\ link' = [link EXCEPT ![c] = h]
  /\ linkList' = IF linkList[h] = NoClient THEN [linkList EXCEPT ![h] = c] ELSE linkList
  /\ UNCHANGED <<sent, nread, inbox, server, loop, pend, crashed>>

(* No bufferevent could be made: the loop is left for good. *)
AcceptFails ==
  /\ Loops /\ MayFail /\ \E c \in Client : peer[c] = "connecting"
  /\ loop' = "ended"
  /\ UNCHANGED <<wire, linkList, server, pend, crashed>>

(* Mutated form: what was read stays in the input buffer. *)
Undrained(c, n) == nread' = nread
Drained(c, n) == nread' = [nread EXCEPT ![c] = n]

(* What the server reads is one message, up to half n of the requests: the *)
(* JSON parser takes the request it begins with and ignores the rest; a    *)
(* part of a request is no JSON.                                           *)
Parsed(c, n) ==
  IF nread[c] % 2 = 0 /\ n >= nread[c] + 2 THEN sent[c][nread[c] \div 2 + 1] ELSE "bad"

(* RecvProt looks the id up in the protocol files. *)
RecvProt(kind) ==
  IF kind # "bad" /\ prots = "cleared" THEN "undefined" ELSE kind

ReadFinish(c, n) ==
  /\ Loops /\ peer[c] \in {"open", "closing"} /\ link[c] # NoHandle
  /\ n > nread[c] /\ (Split \/ n % 2 = 0)
  /\ IF Parsed(c, n) # "bad" /\ prots = "deleted"
     THEN crashed' = TRUE /\ UNCHANGED <<loop, pend, nread>>
     ELSE /\ pend' = [client |-> c, kind |-> RecvProt(Parsed(c, n))]
          /\ loop' = "reply"
          /\ Drained(c, n) /\ UNCHANGED crashed
  /\ UNCHANGED <<peer, link, linkList, sent, inbox, server>>

(* SendError and CreateProt: without its definition an error is the JSON   *)
(* value null, and the answer to a login has only the field it sets.       *)
Defined(reply, otherwise) == IF prots = "loaded" THEN <<reply>> ELSE <<otherwise>>

(* Mutated form: the codes -1 and -2 are swapped. *)
AnswerSwapped(kind) ==
  CASE kind = "bad"       -> Defined("101", "null")
    [] kind = "undefined" -> Defined("100", "null")
    [] kind = "login"     -> Defined("1002", "1002 without msgId")
    [] kind = "known"     -> <<>>

Answer(kind) ==
  CASE kind = "bad"       -> Defined("100", "null")
    [] kind = "undefined" -> Defined("101", "null")
    [] kind = "login"     -> Defined("1002", "1002 without msgId")
    [] kind = "known"     -> <<>>

(* CheckProtocolBuffer, from what RecvProt returned on, and SendText. *)
CheckProtocol ==
  LET c == pend.client IN
  /\ loop = "reply" /\ Usable
  /\ IF pend.kind # "known" /\ prots = "deleted"
     THEN crashed' = TRUE /\ UNCHANGED <<loop, pend, inbox>>
     ELSE /\ inbox' = [inbox EXCEPT ![c] = @ \o Answer(pend.kind)]
          /\ loop' = "dispatch" /\ pend' = NoMessage
          /\ UNCHANGED crashed
  /\ UNCHANGED <<peer, link, linkList, sent, nread, server>>

(* EOF or an error on the connection.  The client may come back.           *)
Disconnect(c) ==
  /\ Loops /\ peer[c] = "closing"
  /\ RidLinkSock(link[c])
  /\ link' = [link EXCEPT ![c] = NoHandle] /\ peer' = [peer EXCEPT ![c] = "none"]
  /\ sent' = [sent EXCEPT ![c] = <<>>] /\ nread' = [nread EXCEPT ![c] = 0]
  /\ inbox' = [inbox EXCEPT ![c] = <<>>]
  /\ UNCHANGED <<server, loop, pend, crashed>>

LoopEnd ==
  /\ Loops /\ main = "basefree"
  /\ loop' = "ended"
  /\ UNCHANGED <<wire, linkList, server, pend, crashed>>

(* The thread goes on with what is no longer there. *)
UseAfterFree ==
  /\ \/ loop = "created" /\ "server" \in freed
     \/ loop \in {"dispatch", "reply"} /\ ~Usable
  /\ crashed' = TRUE
  /\ UNCHANGED <<wire, linkList, server, loop, pend>>

-----------------------------------------------------------------------------
(* The main thread after "quit": GameEnd.                                  *)

MainStep(from, to) == main = from /\ main' = to

(* FUProtocol::Destroy deletes the definitions ... *)
Quit ==
  /\ MayQuit /\ MainStep("run", "protocols") /\ prots' = "deleted"
  /\ UNCHANGED <<wire, linkList, isStart, freed, loop, pend, crashed>>

(* ... and empties the list. *)
ClearProts ==
  /\ MainStep("protocols", "destroy") /\ prots' = "cleared"
  /\ UNCHANGED <<wire, linkList, isStart, freed, loop, pend, crashed>>

(* DestroyServer, called by Destroy and again by the destructor, does      *)
(* nothing before the loop thread has set m_bStart.                        *)
DestroyServer ==
  /\ main \in {"destroy", "last"}
  /\ IF isStart
     THEN /\ main' = "loopexit" /\ freed' = freed \cup {"listener"}
     ELSE /\ main' = IF main = "destroy" THEN "delete" ELSE "gone"
          /\ freed' = IF main = "destroy" THEN freed ELSE freed \cup {"server"}
  /\ UNCHANGED <<wire, linkList, prots, isStart, loop, pend, crashed>>

LoopExit ==
  /\ MainStep("loopexit", "basefree")
  /\ UNCHANGED <<wire, linkList, prots, isStart, freed, loop, pend, crashed>>

BaseFree ==
  /\ MainStep("basefree", "stopped") /\ freed' = freed \cup {"base"}
  /\ UNCHANGED <<wire, linkList, prots, isStart, loop, pend, crashed>>

(* Mutated form: m_bStart is left set. *)
StayStarted == UNCHANGED isStart
ResetStart == isStart' = FALSE

(* UtilsThread::Destroy(false) does not wait for the loop thread. *)
Stopped ==
  /\ main = "stopped" /\ ResetStart
  /\ main' = IF "logic" \in freed THEN "last" ELSE "delete"
  /\ UNCHANGED <<wire, linkList, prots, freed, loop, pend, crashed>>

(* ~FUNetServer, before ~NetServer_Libevent. *)
Delete ==
  /\ MainStep("delete", "last") /\ freed' = freed \cup {"logic"}
  /\ linkList' = [h \in Handle |-> NoClient]
  /\ UNCHANGED <<wire, prots, isStart, loop, pend, crashed>>

(* The end of GameEnd and of main: the process ends with its threads. *)
Exit ==
  /\ MainStep("gone", "exit")
  /\ UNCHANGED <<wire, linkList, prots, isStart, freed, loop, pend, crashed>>

-----------------------------------------------------------------------------
Clients == \E c \in Client : Connect(c) \/ Close(c) \/ \E k \in Kind : Send(c, k)

Serve(c) ==
  \/ \E h \in Handle : Accept(c, h)
  \/ \E n \in 1..(2 * Len(sent[c])) : ReadFinish(c, n)
  \/ Disconnect(c)

Loop ==
  \/ ThreadStart \/ AcceptFails \/ CheckProtocol \/ LoopEnd \/ UseAfterFree
  \/ \E c \in Client : Serve(c)

Main == Quit \/ ClearProts \/ DestroyServer \/ LoopExit \/ BaseFree \/ Stopped \/ Delete \/ Exit

Next == Alive /\ (Clients \/ Loop \/ Main)
Spec == Init /\ [][Next]_vars

(* The OS schedules the loop thread, which waits only when there is        *)
(* nothing to read or accept, and each turn of libevent's loop runs the    *)
(* callbacks of every connection that is ready.                            *)
FairSpec ==
  Spec /\ WF_vars(Alive /\ Loop) /\ \A c \in Client : SF_vars(Alive /\ Serve(c))

-----------------------------------------------------------------------------
Count(seq, R) == Cardinality({i \in 1..Len(seq) : seq[i] \in R})
ReadOf(c) == {i \in 1..Len(sent[c]) : 2 * i <= nread[c]}

(* st_LinkSocketList has the open connections and no other, each under the *)
(* address of its bufferevent with the ip of its peer, although addresses  *)
(* are used again (FUNetServer.cpp:19-34, NetServer_Libevent.cpp:59-91).   *)
LinkListExact ==
  "logic" \notin freed =>
    \A h \in Handle, c \in Client : linkList[h] = c <=> link[c] = h

(* However the requests are cut and joined on their way, a client gets no  *)
(* more answers to a login than it sent logins that the server has read    *)
(* (NetServer_Libevent.cpp:32-45, FUNetServer.cpp:35-63).                  *)
LoginAnsweredOnce ==
  \A c \in Client :
    Count(inbox[c], {"1002", "1002 without msgId"})
      <= Cardinality({i \in ReadOf(c) : sent[c][i] = "login"})

(* DestroyServer runs twice, for Destroy and for the destructor, and the   *)
(* event base is freed at most once (NetServer_Libevent.cpp:102-105,       *)
(* 144-162, Server.cpp:41-42).                                             *)
BaseFreedOnce == [][BaseFree => "base" \notin freed]_vars

(* A client that sends whole requests, one at a time, and stays connected  *)
(* is answered whatever it asks, with the answer that belongs to it, but   *)
(* for the ids that no game logic handles (FUNetServer.cpp:35-63).         *)
AnswerTo == [bad |-> "100", undefined |-> "101", login |-> "1002"]
Served(c) ==
  /\ Len(inbox[c]) = Count(sent[c], DOMAIN AnswerTo)
  /\ \A kind \in DOMAIN AnswerTo :
       Count(inbox[c], {AnswerTo[kind]}) = Count(sent[c], {kind})
Answered == \A c \in Client : []<>(peer[c] # "open" \/ Served(c))
=============================================================================
