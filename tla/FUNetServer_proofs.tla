-------------------------- MODULE FUNetServer_proofs --------------------------
(***************************************************************************)
(* The link list, the answers to logins and the two runs of DestroyServer, *)
(* for any number of clients, addresses and requests.                      *)
(***************************************************************************)
EXTENDS FUNetServer, TLAPS, FiniteSetTheorems

(* A connection has a bufferevent from its acceptance to its end; while    *)
(* the list is there it mirrors them.                                      *)
LinkInv ==
  /\ link \in [Client -> Handle \cup {NoHandle}]
  /\ linkList \in [Handle -> Client \cup {NoClient}]
  /\ peer \in [Client -> {"none", "connecting", "open", "closing"}]
  /\ \A c \in Client : link[c] = NoHandle <=> peer[c] \in {"none", "connecting"}
  /\ LinkListExact

(* m_bStart is set once, by the thread's start: a DestroyServer that saw   *)
(* it set is the last to see it.                                           *)
StartInv ==
  /\ isStart => loop # "created"
  /\ main \in {"loopexit", "basefree"} => loop # "created" /\ "base" \notin freed
  /\ main = "stopped" => loop # "created"
  /\ "base" \in freed => loop # "created" /\ (isStart => main = "stopped")

LEMMA LinkInit == Init => LinkInv
BY FUNetServerAssumption DEF Init, LinkInv, LinkListExact

LEMMA LinkStep == LinkInv /\ [Next]_vars => LinkInv'
<1> SUFFICES ASSUME LinkInv, [Next]_vars PROVE LinkInv'
  OBVIOUS
<1> USE FUNetServerAssumption DEF LinkInv, LinkListExact, wire, server
<1>1. ASSUME NEW c \in Client, Connect(c) \/ Close(c) PROVE LinkInv'
  BY <1>1 DEF Connect, Close
<1>2. ASSUME NEW c \in Client, NEW h \in Handle, Accept(c, h) PROVE LinkInv'
  <2>1. link[c] = NoHandle /\ "logic" \notin freed /\ linkList[h] = NoClient
    BY <1>2 DEF Accept, Loops, Usable
  <2> QED
    BY <1>2, <2>1 DEF Accept
<1>3. ASSUME NEW c \in Client, Disconnect(c) PROVE LinkInv'
  <2>1. link[c] \in Handle /\ "logic" \notin freed
    BY <1>3 DEF Disconnect, Loops, Usable
  <2> QED
    BY <1>3, <2>1 DEF Disconnect, RidLinkSock
<1>4. CASE Delete
  BY <1>4 DEF Delete, MainStep
<1>5. CASE DestroyServer \/ BaseFree
  BY <1>5 DEF DestroyServer, BaseFree
<1>6. ASSUME UNCHANGED <<peer, link, linkList, freed>> PROVE LinkInv'
  BY <1>6
<1> HIDE DEF LinkInv, LinkListExact
<1>7. ASSUME NEW c \in Client, NEW k \in Kind, Send(c, k) PROVE LinkInv'
  BY <1>6, <1>7 DEF Send
<1>8. ASSUME NEW c \in Client, NEW n \in 1..(2 * Len(sent[c])), ReadFinish(c, n)
      PROVE  LinkInv'
  BY <1>6, <1>8 DEF ReadFinish
<1>9. CASE ThreadStart \/ AcceptFails \/ CheckProtocol \/ LoopEnd \/ UseAfterFree
  BY <1>6, <1>9 DEF ThreadStart, AcceptFails, CheckProtocol, LoopEnd, UseAfterFree
<1>10. CASE Quit \/ ClearProts \/ LoopExit \/ Stopped \/ Exit \/ UNCHANGED vars
  BY <1>6, <1>10 DEF Quit, ClearProts, LoopExit, Stopped, Exit, vars
<1> QED
  BY <1>1, <1>2, <1>3, <1>4, <1>5, <1>7, <1>8, <1>9, <1>10
     DEF Next, Clients, Loop, Serve, Main

LEMMA StartInit == Init => StartInv
BY DEF Init, StartInv

LEMMA StartStep == StartInv /\ [Next]_vars => StartInv'
<1> SUFFICES ASSUME StartInv, [Next]_vars PROVE StartInv'
  OBVIOUS
<1> USE DEF StartInv, wire, server, MainStep
<1>1. CASE Clients
  BY <1>1 DEF Clients, Connect, Send, Close
<1>2. CASE Loop
  <2>1. CASE ThreadStart
    BY <2>1 DEF ThreadStart
  <2>2. ASSUME UNCHANGED server, loop' = loop \/ loop' # "created" PROVE StartInv'
    BY <2>2
  <2>3. CASE AcceptFails \/ CheckProtocol \/ LoopEnd \/ UseAfterFree
    BY <2>2, <2>3 DEF AcceptFails, CheckProtocol, LoopEnd, UseAfterFree
  <2>4. ASSUME NEW c \in Client, Serve(c) PROVE StartInv'
    BY <2>2, <2>4 DEF Serve, Accept, ReadFinish, Disconnect
  <2> QED
    BY <1>2, <2>1, <2>3, <2>4 DEF Loop
<1>3. CASE Main
  BY <1>3 DEF Main, Quit, ClearProts, DestroyServer, LoopExit, BaseFree, Stopped, ResetStart,
              Delete, Exit
<1>4. CASE UNCHANGED vars
  BY <1>4 DEF vars
<1> QED
  BY <1>1, <1>2, <1>3, <1>4 DEF Next

(* What a client sent, what was read of it and answered; the message the   *)
(* read callback is at was read and not answered.                          *)
WireInv ==
  /\ sent \in [Client -> Seq(Kind)] /\ nread \in [Client -> Nat]
  /\ inbox \in [Client -> Seq(Reply)]
  /\ \A c \in Client : /\ Len(sent[c]) <= MaxRequests[c]
                       /\ nread[c] <= 2 * Len(sent[c])
                       /\ Len(inbox[c]) <= nread[c]
  /\ pend \in [client: Client \cup {NoClient}, kind: Kind]
  /\ loop = "reply" =>
       pend.client \in Client /\ Len(inbox[pend.client]) < nread[pend.client]

LEMMA WireInit == Init => WireInv
BY FUNetServerAssumption DEF Init, WireInv, NoMessage, Kind

LEMMA Answers ==
  ASSUME NEW kind \in Kind
  PROVE  Answer(kind) = <<>> \/ \E r \in Reply : Answer(kind) = <<r>>
BY DEF Answer, Defined, Kind, Reply

LEMMA ParsedIsKind ==
  ASSUME WireInv, NEW c \in Client, NEW n \in 1..(2 * Len(sent[c]))
  PROVE  /\ Parsed(c, n) \in Kind
         /\ RecvProt(Parsed(c, n)) \in Kind
<1>1. sent[c] \in Seq(Kind) /\ nread[c] \in Nat /\ Len(sent[c]) \in Nat
  BY DEF WireInv
<1>2. CASE nread[c] % 2 = 0 /\ n >= nread[c] + 2
  <2>1. nread[c] \div 2 + 1 \in 1..Len(sent[c])
    BY <1>1, <1>2
  <2>2. Parsed(c, n) \in Kind
    BY <1>1, <1>2, <2>1 DEF Parsed
  <2> QED
    BY <2>2 DEF RecvProt, Kind
<1>3. CASE ~(nread[c] % 2 = 0 /\ n >= nread[c] + 2)
  BY <1>3 DEF Parsed, RecvProt, Kind
<1> QED
  BY <1>2, <1>3

LEMMA WireStep == WireInv /\ [Next]_vars => WireInv'
<1> SUFFICES ASSUME WireInv, [Next]_vars PROVE WireInv'
  OBVIOUS
<1> USE FUNetServerAssumption
<1>0. \A c \in Client : /\ Len(sent[c]) \in Nat /\ Len(inbox[c]) \in Nat
                        /\ nread[c] \in Nat /\ MaxRequests[c] \in Nat
  BY DEF WireInv
<1>1. ASSUME UNCHANGED <<sent, nread, inbox, pend>>, loop' # "reply" \/ loop' = loop
      PROVE  WireInv'
  BY <1>1 DEF WireInv
<1>2. ASSUME NEW c \in Client, Connect(c) \/ Close(c) \/ \E h \in Handle : Accept(c, h)
      PROVE  WireInv'
  BY <1>1, <1>2 DEF Connect, Close, Accept
<1>3. ASSUME NEW c \in Client, NEW k \in Kind, Send(c, k) PROVE WireInv'
  <2>1. /\ sent' = [sent EXCEPT ![c] = Append(@, k)] /\ Len(sent[c]) < MaxRequests[c]
        /\ UNCHANGED <<nread, inbox, loop, pend>>
    BY <1>3 DEF Send
  <2>2. sent[c] \in Seq(Kind)
    BY DEF WireInv
  <2>3. Append(sent[c], k) \in Seq(Kind) /\ Len(Append(sent[c], k)) = Len(sent[c]) + 1
    BY <2>2
  <2> QED
    BY <1>0, <2>1, <2>3 DEF WireInv
<1>4. ASSUME NEW c \in Client, NEW n \in 1..(2 * Len(sent[c])), ReadFinish(c, n)
      PROVE  WireInv'
  <2>1. /\ UNCHANGED <<sent, inbox>> /\ n > nread[c] /\ loop = "dispatch"
    BY <1>4 DEF ReadFinish, Loops
  <2>2. CASE UNCHANGED <<loop, pend, nread>>
    BY <1>1, <2>1, <2>2
  <2>3. CASE /\ pend' = [client |-> c, kind |-> RecvProt(Parsed(c, n))]
             /\ nread' = [nread EXCEPT ![c] = n]
    <3>1. pend' \in [client: Client \cup {NoClient}, kind: Kind] /\ pend'.client = c
      BY <2>3, ParsedIsKind
    <3>2. n \in Nat /\ n <= 2 * Len(sent[c]) /\ Len(inbox[c]) < n
      BY <1>0, <2>1 DEF WireInv
    <3> QED
      BY <1>0, <2>1, <2>3, <3>1, <3>2 DEF WireInv
  <2> QED
    BY <1>4, <2>2, <2>3 DEF ReadFinish, Drained
<1>5. CASE CheckProtocol
  <2>1. CASE crashed' /\ UNCHANGED <<loop, pend, inbox>>
    BY <1>1, <1>5, <2>1 DEF CheckProtocol
  <2>2. CASE /\ inbox' = [inbox EXCEPT ![pend.client] = @ \o Answer(pend.kind)]
             /\ loop' = "dispatch" /\ pend' = NoMessage
    <3>1. /\ loop = "reply" /\ UNCHANGED <<sent, nread>>
      BY <1>5 DEF CheckProtocol
    <3>2. /\ pend.client \in Client /\ Len(inbox[pend.client]) < nread[pend.client]
          /\ pend.kind \in Kind /\ inbox[pend.client] \in Seq(Reply)
      BY <3>1 DEF WireInv
    <3>3. /\ inbox[pend.client] \o Answer(pend.kind) \in Seq(Reply)
          /\ Len(inbox[pend.client] \o Answer(pend.kind)) <= Len(inbox[pend.client]) + 1
      <4>1. ASSUME Answer(pend.kind) = <<>>
            PROVE  /\ inbox[pend.client] \o Answer(pend.kind) \in Seq(Reply)
                   /\ Len(inbox[pend.client] \o Answer(pend.kind)) <= Len(inbox[pend.client]) + 1
        BY <3>2, <4>1
      <4>2. ASSUME NEW r \in Reply, Answer(pend.kind) = <<r>>
            PROVE  /\ inbox[pend.client] \o Answer(pend.kind) \in Seq(Reply)
                   /\ Len(inbox[pend.client] \o Answer(pend.kind)) <= Len(inbox[pend.client]) + 1
        <5>1. inbox[pend.client] \o <<r>> = Append(inbox[pend.client], r)
          BY <3>2
        <5> QED
          BY <3>2, <4>2, <5>1
      <4> QED
        BY <3>2, <4>1, <4>2, Answers, Zenon
    <3>4. NoMessage \in [client: Client \cup {NoClient}, kind: Kind]
      BY DEF NoMessage, Kind
    <3> QED
      BY <1>0, <2>2, <3>1, <3>2, <3>3, <3>4 DEF WireInv
  <2> QED
    BY <1>5, <2>1, <2>2 DEF CheckProtocol
<1>6. ASSUME NEW c \in Client, Disconnect(c) PROVE WireInv'
  BY <1>0, <1>6 DEF Disconnect, Loops, WireInv
<1>7. CASE ThreadStart \/ AcceptFails \/ LoopEnd \/ UseAfterFree
  BY <1>1, <1>7 DEF ThreadStart, AcceptFails, LoopEnd, UseAfterFree, wire
<1>8. CASE Main \/ UNCHANGED vars
  BY <1>1, <1>8 DEF Main, Quit, ClearProts, DestroyServer, LoopExit, BaseFree, Stopped,
                    Delete, Exit, vars, wire
<1> QED
  BY <1>2, <1>3, <1>4, <1>5, <1>6, <1>7, <1>8 DEF Next, Clients, Loop, Serve

RestType ==
  /\ prots \in {"loaded", "deleted", "cleared"}
  /\ loop \in {"none", "created", "dispatch", "reply", "ended"}
  /\ main \in {"run", "protocols", "destroy", "loopexit", "basefree", "stopped",
               "delete", "last", "gone", "exit"}
  /\ isStart \in BOOLEAN /\ crashed \in BOOLEAN
  /\ freed \subseteq {"listener", "base", "logic", "server"}

LEMMA RestInit == Init => RestType
BY DEF Init, RestType

LEMMA RestStep == RestType /\ [Next]_vars => RestType'
<1> SUFFICES ASSUME RestType, [Next]_vars PROVE RestType'
  OBVIOUS
<1> USE DEF RestType, wire, server
<1>1. ASSUME UNCHANGED <<server, loop, crashed>> PROVE RestType'
  BY <1>1
<1>2. CASE Clients
  BY <1>1, <1>2 DEF Clients, Connect, Send, Close
<1>3. CASE Loop
  <2>1. CASE ThreadStart \/ AcceptFails \/ CheckProtocol \/ LoopEnd \/ UseAfterFree
    BY <2>1 DEF ThreadStart, AcceptFails, CheckProtocol, LoopEnd, UseAfterFree
  <2>2. ASSUME NEW c \in Client, Serve(c) PROVE RestType'
    BY <2>2 DEF Serve, Accept, ReadFinish, Disconnect
  <2> QED
    BY <1>3, <2>1, <2>2 DEF Loop
<1>4. CASE Main
  BY <1>4 DEF Main, MainStep, Quit, ClearProts, DestroyServer, LoopExit, BaseFree, Stopped,
              ResetStart, Delete, Exit
<1>5. CASE UNCHANGED vars
  BY <1>5 DEF vars
<1> QED
  BY <1>2, <1>3, <1>4, <1>5 DEF Next

(* The types of the server's state; in particular, no client is sent more  *)
(* answers than halves of requests of it were read                         *)
(* (NetServer_Libevent.cpp:26-46, FUNetServer.cpp:35-63).                  *)
THEOREM TypeCorrect == Spec => []TypeOK
<1>1. LinkInv /\ WireInv /\ RestType => TypeOK
  <2> SUFFICES ASSUME LinkInv, WireInv, RestType PROVE TypeOK
    OBVIOUS
  <2>1. \A c \in Client :
          /\ sent[c] \in Seq(Kind) /\ Len(sent[c]) <= MaxRequests[c]
          /\ nread[c] \in 0..(2 * Len(sent[c]))
          /\ inbox[c] \in Seq(Reply) /\ Len(inbox[c]) <= nread[c]
    BY DEF WireInv
  <2> QED
    BY <2>1 DEF TypeOK, LinkInv, WireInv, RestType
<1> QED
  BY LinkInit, LinkStep, WireInit, WireStep, RestInit, RestStep, <1>1, PTL DEF Spec

-----------------------------------------------------------------------------
(* Answers to logins: those a client was sent, and the one that is about   *)
(* to be, are no more than the logins of it that were read.                *)
LoginReply == {"1002", "1002 without msgId"}
Logins(c) == {i \in ReadOf(c) : sent[c][i] = "login"}
Due(c) == loop = "reply" /\ pend.client = c /\ pend.kind = "login"
LoginInv ==
  \A c \in Client :
    Count(inbox[c], LoginReply) + (IF Due(c) THEN 1 ELSE 0) <= Cardinality(Logins(c))

LEMMA CountIsNat ==
  ASSUME NEW s \in Seq(Reply), NEW R
  PROVE  /\ IsFiniteSet({i \in 1..Len(s) : s[i] \in R})
         /\ Count(s, R) \in Nat
<1>1. IsFiniteSet(1..Len(s))
  BY FS_Interval
<1>2. IsFiniteSet({i \in 1..Len(s) : s[i] \in R})
  BY <1>1, FS_Subset
<1> QED
  BY <1>2, FS_CardinalityType DEF Count

LEMMA CountAppend ==
  ASSUME NEW s \in Seq(Reply), NEW r \in Reply, NEW R
  PROVE  IF r \in R THEN Count(Append(s, r), R) = Count(s, R) + 1
                    ELSE Count(Append(s, r), R) = Count(s, R)
<1> DEFINE In(t) == {i \in 1..Len(t) : t[i] \in R}
<1>1. IsFiniteSet(In(s))
  BY CountIsNat
<1>2. CASE r \in R
  <2>1. In(Append(s, r)) = In(s) \cup {Len(s) + 1} /\ Len(s) + 1 \notin In(s)
    BY <1>2
  <2> QED
    BY <1>1, <1>2, <2>1, FS_AddElement DEF Count
<1>3. CASE r \notin R
  <2>1. In(Append(s, r)) = In(s)
    BY <1>3
  <2> QED
    BY <1>3, <2>1 DEF Count
<1> QED
  BY <1>2, <1>3

LEMMA IndicesFinite == ASSUME NEW s \in Seq(Kind) PROVE IsFiniteSet(1..Len(s))
BY FS_Interval

LEMMA CountEmpty == ASSUME NEW R PROVE Count(<<>>, R) = 0
<1>1. {i \in 1..Len(<<>>) : <<>>[i] \in R} = {}
  OBVIOUS
<1> QED
  BY <1>1, FS_EmptySet DEF Count

LEMMA LoginsFinite ==
  ASSUME WireInv, NEW c \in Client
  PROVE  IsFiniteSet(Logins(c)) /\ Cardinality(Logins(c)) \in Nat
<1>1. IsFiniteSet(1..Len(sent[c]))
  BY IndicesFinite DEF WireInv
<1>2. Logins(c) \subseteq 1..Len(sent[c])
  BY DEF Logins, ReadOf
<1>3. IsFiniteSet(Logins(c))
  BY <1>1, <1>2, FS_Subset
<1> QED
  BY <1>3, FS_CardinalityType

LEMMA AnswerToLogin ==
  ASSUME NEW kind \in Kind, NEW s \in Seq(Reply)
  PROVE  Count(s \o Answer(kind), LoginReply)
           = Count(s, LoginReply) + (IF kind = "login" THEN 1 ELSE 0)
<1>1. \A r \in Reply : s \o <<r>> = Append(s, r)
  OBVIOUS
<1>2. Count(s, LoginReply) \in Nat
  BY CountIsNat
<1>3. CASE Answer(kind) = <<>>
  <2>1. kind # "login"
    BY <1>3 DEF Answer, Defined
  <2>2. s \o <<>> = s
    OBVIOUS
  <2>3. s \o Answer(kind) = s
    BY <1>3, <2>2, Zenon
  <2> QED
    BY <1>2, <2>1, <2>3
<1>4. ASSUME NEW r \in Reply, Answer(kind) = <<r>>
      PROVE  Count(s \o Answer(kind), LoginReply)
               = Count(s, LoginReply) + (IF kind = "login" THEN 1 ELSE 0)
  <2>1. r \in LoginReply <=> kind = "login"
    BY <1>4 DEF Answer, Defined, Kind, LoginReply
  <2>2. s \o Answer(kind) = Append(s, r)
    BY <1>1, <1>4
  <2> QED
    BY <1>2, <2>1, <2>2, CountAppend
<1> QED
  BY <1>3, <1>4, Answers, Zenon

LEMMA LoginInit == Init => LoginInv
<1> SUFFICES ASSUME Init, NEW c \in Client
             PROVE  Count(inbox[c], LoginReply) + (IF Due(c) THEN 1 ELSE 0)
                      <= Cardinality(Logins(c))
  BY DEF LoginInv
<1>1. inbox[c] = <<>> /\ ~Due(c)
  BY DEF Init, Due
<1>2. Cardinality(Logins(c)) \in Nat
  BY WireInit, LoginsFinite
<1>3. 0 <= Cardinality(Logins(c))
  BY <1>2
<1>4. Count(inbox[c], LoginReply) = 0
  BY <1>1, CountEmpty
<1> QED
  BY <1>1, <1>3, <1>4

LEMMA LoginStep == WireInv /\ LoginInv /\ [Next]_vars => LoginInv'
<1> SUFFICES ASSUME WireInv, LoginInv, [Next]_vars, NEW d \in Client
             PROVE  (Count(inbox[d], LoginReply) + (IF Due(d) THEN 1 ELSE 0)
                       <= Cardinality(Logins(d)))'
  BY DEF LoginInv
<1> DEFINE Bound == Count(inbox[d], LoginReply) + (IF Due(d) THEN 1 ELSE 0)
                      <= Cardinality(Logins(d))
<1>0. /\ Bound /\ Count(inbox[d], LoginReply) \in Nat
      /\ IsFiniteSet(Logins(d)) /\ Cardinality(Logins(d)) \in Nat
      /\ sent[d] \in Seq(Kind) /\ inbox[d] \in Seq(Reply) /\ Len(sent[d]) \in Nat
      /\ nread[d] \in Nat /\ nread[d] <= 2 * Len(sent[d])
  <2>1. /\ sent[d] \in Seq(Kind) /\ inbox[d] \in Seq(Reply) /\ Len(sent[d]) \in Nat
        /\ nread[d] \in Nat /\ nread[d] <= 2 * Len(sent[d])
    BY DEF WireInv
  <2>2. Bound
    BY DEF LoginInv
  <2>3. Count(inbox[d], LoginReply) \in Nat
    BY <2>1, CountIsNat
  <2>4. IsFiniteSet(Logins(d)) /\ Cardinality(Logins(d)) \in Nat
    BY LoginsFinite
  <2> QED
    BY <2>1, <2>2, <2>3, <2>4
<1>1. ASSUME inbox'[d] = inbox[d], Logins(d)' = Logins(d), Due(d)' => Due(d) PROVE Bound'
  BY <1>0, <1>1 DEF Count
<1>2. ASSUME UNCHANGED <<sent, nread>> PROVE Logins(d)' = Logins(d)
  BY <1>2 DEF Logins, ReadOf
<1>3. ASSUME UNCHANGED <<sent, nread, inbox, pend>>, loop' # "reply" \/ loop' = loop
      PROVE  Bound'
  <2>1. Due(d)' => Due(d)
    BY <1>3 DEF Due
  <2> QED
    BY <1>1, <1>2, <1>3, <2>1
<1>4. ASSUME NEW c \in Client, Connect(c) \/ Close(c) \/ \E h \in Handle : Accept(c, h)
      PROVE  Bound'
  BY <1>3, <1>4 DEF Connect, Close, Accept
<1>5. ASSUME NEW c \in Client, NEW k \in Kind, Send(c, k) PROVE Bound'
  <2>1. sent' = [sent EXCEPT ![c] = Append(@, k)] /\ UNCHANGED <<nread, inbox, loop, pend>>
    BY <1>5 DEF Send
  <2>2. Due(d)' => Due(d)
    BY <2>1 DEF Due
  <2>3. CASE d # c
    <3>1. sent'[d] = sent[d]
      BY <2>1, <2>3 DEF WireInv
    <3> QED
      BY <1>1, <2>1, <2>2, <3>1 DEF Logins, ReadOf
  <2>4. CASE d = c
    <3>1. sent'[d] = Append(sent[d], k)
      BY <2>1, <2>4 DEF WireInv
    <3>2. /\ Len(sent'[d]) = Len(sent[d]) + 1
          /\ \A i \in 1..Len(sent[d]) : sent'[d][i] = sent[d][i]
      BY <1>0, <3>1
    <3>3. ReadOf(d)' = ReadOf(d)
      BY <1>0, <2>1, <3>2 DEF ReadOf
    <3>4. Logins(d)' = Logins(d)
      BY <3>2, <3>3 DEF Logins, ReadOf
    <3> QED
      BY <1>1, <2>1, <2>2, <3>4
  <2> QED
    BY <2>3, <2>4
<1>6. ASSUME NEW c \in Client, NEW n \in 1..(2 * Len(sent[c])), ReadFinish(c, n)
      PROVE  Bound'
  <2>1. UNCHANGED <<sent, inbox>> /\ n > nread[c] /\ ~Due(d)
    BY <1>6 DEF ReadFinish, Loops, Due
  <2>2. CASE UNCHANGED <<loop, pend, nread>>
    BY <1>3, <2>1, <2>2
  <2>3. CASE /\ pend' = [client |-> c, kind |-> RecvProt(Parsed(c, n))]
             /\ nread' = [nread EXCEPT ![c] = n]
    <3>1. CASE d # c
      <4>1. nread'[d] = nread[d] /\ ~Due(d)'
        BY <2>3, <3>1 DEF WireInv, Due
      <4> QED
        BY <1>1, <2>1, <4>1 DEF Logins, ReadOf
    <3>2. CASE d = c
      <4>1. nread'[d] = n /\ n \in Nat
        BY <2>3, <3>2 DEF WireInv
      <4>2. Logins(d) \subseteq Logins(d)'
        BY <1>0, <2>1, <3>2, <4>1 DEF Logins, ReadOf
      <4>3. IsFiniteSet(Logins(d)') /\ Cardinality(Logins(d)') \in Nat
        <5>1. IsFiniteSet(1..Len(sent[d]))
          BY <1>0, IndicesFinite
        <5>2. Logins(d)' \subseteq 1..Len(sent[d])
          BY <2>1 DEF Logins, ReadOf
        <5> QED
          BY <5>1, <5>2, FS_Subset, FS_CardinalityType
      <4>4. Cardinality(Logins(d)) <= Cardinality(Logins(d)')
        BY <4>2, <4>3, FS_Subset
      <4>5. Count(inbox[d], LoginReply)' = Count(inbox[d], LoginReply)
        BY <2>1
      <4>6. CASE ~Due(d)'
        BY <1>0, <2>1, <4>3, <4>4, <4>5, <4>6
      <4>7. CASE Due(d)'
        <5> DEFINE j == nread[d] \div 2 + 1
        <5>1. Parsed(c, n) = "login"
          BY <2>3, <4>7 DEF Due, RecvProt
        <5>2. nread[d] % 2 = 0 /\ n >= nread[d] + 2 /\ sent[d][j] = "login"
          BY <3>2, <5>1 DEF Parsed
        <5>3. j \in 1..Len(sent[d]) /\ 2 * j = nread[d] + 2
          BY <1>0, <3>2, <5>2
        <5> HIDE DEF j
        <5>4. j \in Logins(d)' /\ j \notin Logins(d)
          BY <1>0, <2>1, <4>1, <5>2, <5>3 DEF Logins, ReadOf
        <5>5. Cardinality(Logins(d) \cup {j}) = Cardinality(Logins(d)) + 1
          BY <1>0, <5>4, FS_AddElement
        <5>6. Cardinality(Logins(d) \cup {j}) <= Cardinality(Logins(d)')
          BY <4>2, <4>3, <5>4, FS_Subset
        <5> QED
          BY <1>0, <2>1, <4>3, <4>5, <5>5, <5>6
      <4> QED
        BY <4>6, <4>7
    <3> QED
      BY <3>1, <3>2
  <2> QED
    BY <1>6, <2>2, <2>3 DEF ReadFinish, Drained
<1>7. CASE CheckProtocol
  <2>1. /\ loop = "reply" /\ UNCHANGED <<sent, nread>> /\ Logins(d)' = Logins(d)
    BY <1>2, <1>7 DEF CheckProtocol
  <2>2. CASE UNCHANGED <<loop, pend, inbox>>
    BY <1>3, <2>1, <2>2
  <2>3. CASE /\ inbox' = [inbox EXCEPT ![pend.client] = @ \o Answer(pend.kind)]
             /\ loop' = "dispatch"
    <3>1. ~Due(d)' /\ pend.kind \in Kind
      BY <2>3 DEF Due, WireInv
    <3>2. CASE d # pend.client
      <4>1. inbox'[d] = inbox[d]
        BY <2>3, <3>2 DEF WireInv
      <4> QED
        BY <1>1, <2>1, <3>1, <4>1
    <3>3. CASE d = pend.client
      <4>1. inbox'[d] = inbox[d] \o Answer(pend.kind)
        BY <2>3, <3>3 DEF WireInv
      <4>2. Count(inbox'[d], LoginReply)
              = Count(inbox[d], LoginReply) + (IF pend.kind = "login" THEN 1 ELSE 0)
        BY <1>0, <3>1, <4>1, AnswerToLogin
      <4>3. Due(d) <=> pend.kind = "login"
        BY <2>1, <3>3 DEF Due
      <4>4. Count(inbox[d], LoginReply)' = Count(inbox'[d], LoginReply)
        BY DEF Count, LoginReply
      <4> QED
        BY <1>0, <2>1, <3>1, <4>2, <4>3, <4>4
    <3> QED
      BY <3>2, <3>3
  <2> QED
    BY <1>7, <2>2, <2>3 DEF CheckProtocol
<1>8. ASSUME NEW c \in Client, Disconnect(c) PROVE Bound'
  <2>1. ~Due(d)' /\ ~Due(d)
    BY <1>8 DEF Disconnect, Loops, Due
  <2>2. CASE d # c
    <3>1. sent'[d] = sent[d] /\ nread'[d] = nread[d] /\ inbox'[d] = inbox[d]
      BY <1>8, <2>2 DEF Disconnect, WireInv
    <3> QED
      BY <1>1, <2>1, <3>1 DEF Logins, ReadOf
  <2>3. CASE d = c
    <3>1. inbox'[d] = <<>> /\ sent'[d] = <<>>
      BY <1>8, <2>3 DEF Disconnect, WireInv
    <3>2. Count(inbox[d], LoginReply)' = 0
      BY <3>1, CountEmpty DEF Count
    <3>3. Logins(d)' = {}
      BY <3>1 DEF Logins, ReadOf
    <3>4. Cardinality(Logins(d)') = 0
      BY <3>3, FS_EmptySet
    <3> QED
      BY <2>1, <3>2, <3>4
  <2> QED
    BY <2>2, <2>3
<1>9. CASE ThreadStart \/ AcceptFails \/ LoopEnd \/ UseAfterFree
  BY <1>3, <1>9 DEF ThreadStart, AcceptFails, LoopEnd, UseAfterFree, wire
<1>10. CASE Main \/ UNCHANGED vars
  BY <1>3, <1>10 DEF Main, Quit, ClearProts, DestroyServer, LoopExit, BaseFree, Stopped,
                     Delete, Exit, vars, wire
<1> QED
  BY <1>4, <1>5, <1>6, <1>7, <1>8, <1>9, <1>10 DEF Next, Clients, Loop, Serve

(* However the requests are cut and joined on their way, and whatever the  *)
(* protocol list goes through meanwhile, a client gets no more answers to  *)
(* a login than it sent logins that the server has read                    *)
(* (NetServer_Libevent.cpp:32-45, FUNetServer.cpp:35-63).                  *)
THEOREM LoginsAnsweredOnce == Spec => []LoginAnsweredOnce
<1>1. LoginInv /\ WireInv => LoginAnsweredOnce
  <2> SUFFICES ASSUME LoginInv, WireInv, NEW c \in Client
               PROVE  Count(inbox[c], LoginReply) <= Cardinality(Logins(c))
    BY DEF LoginAnsweredOnce, LoginReply, Logins
  <2>1. /\ Count(inbox[c], LoginReply) \in Nat /\ Cardinality(Logins(c)) \in Nat
        /\ Count(inbox[c], LoginReply) + (IF Due(c) THEN 1 ELSE 0) <= Cardinality(Logins(c))
    BY LoginsFinite, CountIsNat DEF WireInv, LoginInv
  <2> QED
    BY <2>1
<1> QED
  BY LoginInit, LoginStep, WireInit, WireStep, <1>1, PTL DEF Spec

(* The list of links is exactly the open connections, however addresses    *)
(* are used again.                                                         *)
THEOREM LinksAreExact == Spec => []LinkListExact
<1>1. LinkInv => LinkListExact
  BY DEF LinkInv
<1> QED
  BY LinkInit, LinkStep, <1>1, PTL DEF Spec

(* No order of quit, thread start and destructor frees the base twice.     *)
THEOREM NoSecondFree == Spec => BaseFreedOnce
<1>1. StartInv => [BaseFree => "base" \notin freed]_vars
  BY DEF StartInv, BaseFree, MainStep
<1> QED
  BY StartInit, StartStep, <1>1, PTL DEF Spec, BaseFreedOnce
=============================================================================
