-------------------------- MODULE ProxyServerProofs --------------------------
(***************************************************************************)
(* What the server keeps true by itself, whoever is connected to it, for   *)
(* every number of connections and whatever they write: the types, the     *)
(* vector, the roster of its sessions.  Then, among peers of any kind,     *)
(* that nobody's commands reach the card before the credentials have.      *)
(***************************************************************************)
EXTENDS ProxyPeers, SequenceTheorems, TLAPS

(* Reading takes at most the first packet off a queue.                     *)
LEMMA RestType ==
  ASSUME NEW S, NEW q \in Seq(S)
  PROVE  Rest(q) \in Seq(S)
BY DEF Rest

(* Socket::write of p leaves a queue of packets of the same kind.          *)
LEMMA SendType ==
  ASSUME NEW S, NEW f \in [Conn -> Seq(S)], NEW c \in Conn, NEW p \in S
  PROVE  [f EXCEPT ![c] = Append(@, p)] \in [Conn -> Seq(S)]
OBVIOUS

(* A read leaves a queue of packets of the same kind.                      *)
LEMMA ReadType ==
  ASSUME NEW S, NEW f \in [Conn -> Seq(S)], NEW c \in Conn
  PROVE  [f EXCEPT ![c] = Rest(@)] \in [Conn -> Seq(S)]
<1>1. Rest(f[c]) \in Seq(S)
  BY RestType
<1> QED BY <1>1

(* vector::erase moves pointers inside the storage: its length stays.      *)
LEMMA EraseType ==
  ASSUME NEW S, NEW s \in Seq(S), NEW i \in Nat \ {0}, NEW n \in Nat,
         i <= n, n <= Len(s)
  PROVE  Erase(s, i, n) \in Seq(S) /\ Len(Erase(s, i, n)) = Len(s)
<1>1. SubSeq(s, 1, i - 1) \in Seq(S) /\ Len(SubSeq(s, 1, i - 1)) = i - 1
  BY SubSeqProperties
<1>2. SubSeq(s, i + 1, n) \in Seq(S) /\ Len(SubSeq(s, i + 1, n)) = n - i
  BY SubSeqProperties
<1>3. SubSeq(s, n, Len(s)) \in Seq(S) /\ Len(SubSeq(s, n, Len(s))) = Len(s) - n + 1
  BY SubSeqProperties
<1> QED BY <1>1, <1>2, <1>3, ConcatProperties DEF Erase

(* What a read may yield at the client: a reply, or what was in data, or   *)
(* a header that parses as nothing.                                        *)
LEMMA ReadResultCases ==
  ASSUME NEW q, NEW shut, NEW data, NEW r \in ReadResults(q, shut, data)
  PROVE  \/ q # <<>> /\ r.data = Head(q)
         \/ ~ r.ok /\ (r.data = data \/ ~ r.data.whole)
<1>1. CASE q = <<>>
  BY <1>1 DEF ReadResults
<1>2. CASE q # <<>>
  BY <1>2 DEF ReadResults, Header
<1> QED BY <1>1, <1>2

(* Only a CMD_REQUEST parses as one, and its body is a command.            *)
LEMMA CmdRequestBody ==
  ASSUME NEW q \in Seq(Request), NEW shut, NEW r \in ReadResults(q, shut, NoData),
         r.ok, parseCmdRequest(r.data)
  PROVE  q # <<>> /\ r.data = Head(q) /\ r.data.body \in Cmd /\ r.data = CmdRequest(r.data.body)
<1>1. r.data = Head(q) /\ q # <<>>
  BY ReadResultCases
<1>4. Head(q) \in Request
  BY <1>1
<1>2. r.data.type = "CMD_REQUEST"
  BY DEF parseCmdRequest, Sane
<1>3. PICK k \in Cmd : r.data = CmdRequest(k)
  BY <1>1, <1>2, <1>4 DEF Request, Prepare, Auth, ResetRequest, CmdRequest
<1> QED BY <1>1, <1>3 DEF CmdRequest, Prepare

(* A request is taken only for what it is.                                 *)
LEMMA RequestParsed ==
  ASSUME NEW q \in Seq(Request), NEW shut, NEW r \in ReadResults(q, shut, NoData), r.ok
  PROVE  /\ q # <<>> /\ r.data = Head(q) /\ Head(q) \in Request
         /\ parseAuth(r.data) <=> Head(q) = Auth("good")
         /\ parseResetRequest(r.data) <=> Head(q) = ResetRequest
         /\ parseCmdRequest(r.data) => r.data.body \in Cmd /\ Head(q) = CmdRequest(r.data.body)
<1>1. q # <<>> /\ r.data = Head(q)
  BY ReadResultCases
<1>2. Head(q) \in Request
  BY <1>1
<1>3. parseAuth(r.data) <=> Head(q) = Auth("good")
  BY <1>1, <1>2 DEF parseAuth, Sane, Request, Auth, ResetRequest, CmdRequest, Prepare
<1>4. parseResetRequest(r.data) <=> Head(q) = ResetRequest
  BY <1>1, <1>2 DEF parseResetRequest, Sane, Request, Auth, ResetRequest, CmdRequest, Prepare
<1>5. parseCmdRequest(r.data) => r.data.body \in Cmd /\ Head(q) = CmdRequest(r.data.body)
  BY <1>1, CmdRequestBody
<1> QED BY <1>1, <1>2, <1>3, <1>4, <1>5

(* What the server writes are replies.                                     *)
LEMMA ReplyKinds ==
  /\ AuthReply(TRUE) \in Answer /\ AuthReply(FALSE) \in Answer /\ ResetReply \in Answer
  /\ \A k \in Cmd : CmdReply(k) \in Answer
BY DEF Answer

-----------------------------------------------------------------------------
(* The types.                                                              *)

(* What is inductive: the types, and that the vector fits its storage.     *)
ServerTypeInv == ConnTypeOK /\ ServerTypeOK /\ size <= Len(clients)

(* The end of the server's process keeps the types.                        *)
LEMMA ProcessEndsTypes ==
  ASSUME ServerTypeInv, ProcessEnds,
         toServer' \in [Conn -> Seq(Request)], toClient' \in [Conn -> Seq(Answer)],
         cardLog' \in Seq(Conn \X Cmd), UNCHANGED clientShut
  PROVE  ServerTypeInv'
<1>1. ConnTypeOK'
  BY DEF ServerTypeInv, ConnTypeOK, ProcessEnds
<1>2. ServerTypeOK' /\ size' <= Len(clients')
  <2>1. <<>> \in Seq(Conn) /\ Len(<<>>) = 0
    OBVIOUS
  <2>2. pc' = "dead" /\ it' = 1 /\ size' = 0 /\ clients' = <<>>
    BY DEF ProcessEnds
  <2>3. sstate' \in [Conn -> {"none", "INIT", "AUTHORIZED", "CLOSED", "freed"}]
    BY DEF ProcessEnds
  <2>4. it' \in Nat \ {0} /\ size' \in Nat /\ clients' \in Seq(Conn) /\ size' <= Len(clients')
    BY <2>1, <2>2
  <2> QED BY <2>2, <2>3, <2>4 DEF ServerTypeOK
<1> QED BY <1>1, <1>2 DEF ServerTypeInv

(* The ways a Client::tick that read something ends.                       *)
LEMMA TickEndsTypes ==
  ASSUME ServerTypeInv, NEW c \in Conn, NEW s \in {"AUTHORIZED", "CLOSED"}, NEW p \in Answer,
         toServer' \in [Conn -> Seq(Request)], cardLog' \in Seq(Conn \X Cmd),
         UNCHANGED clientShut, NoReply(c) \/ Reply(c, s, p)
  PROVE  ServerTypeInv'
<1> USE DEF ServerTypeInv, ConnTypeOK, ServerTypeOK
<1>1. CASE NoReply(c)
  BY <1>1 DEF NoReply, NextClient, Become
<1>2. CASE Become(c, s) /\ ServerSend(c, p) /\ NextClient
  <2>1. toClient' \in [Conn -> Seq(Answer)]
    BY <1>2, SendType DEF ServerSend
  <2>2. ConnTypeOK'
    BY <1>2, <2>1 DEF NextClient
  <2>3. ServerTypeOK' /\ size' <= Len(clients')
    BY <1>2 DEF NextClient, Become
  <2> QED BY <2>2, <2>3
<1>3. CASE ProcessEnds /\ UNCHANGED toClient
  BY <1>3, ProcessEndsTypes
<1> QED BY <1>1, <1>2, <1>3 DEF Reply

(* Each step of the server keeps the types.                                *)
LEMMA ServerTypes ==
  ASSUME ServerTypeInv, ServerStep \/ PSCProxySignalHandler, UNCHANGED clientShut
  PROVE  ServerTypeInv'
<1> USE DEF ServerTypeInv, ConnTypeOK, ServerTypeOK
<1> DEFINE c == clients[it]
<1>1. CASE acceptClient
  BY <1>1 DEF acceptClient, Become
<1>2. CASE endAccept
  BY <1>2 DEF endAccept
<1>3. CASE acceptThrows
  BY <1>3, ProcessEndsTypes DEF acceptThrows
<1>4. CASE checkAuth
  <2>1. c \in Conn
    BY <1>4 DEF checkAuth, Ticking, Ticked
  <2>2. toServer' = [toServer EXCEPT ![c] = Rest(@)] /\ UNCHANGED cardLog
    BY <1>4 DEF checkAuth, ServerRead, Ticked
  <2>3. toServer' \in [Conn -> Seq(Request)]
    BY <2>1, <2>2, ReadType
  <2>4. \/ NoReply(c)
        \/ Reply(c, "AUTHORIZED", AuthReply(TRUE))
        \/ Reply(c, "CLOSED", AuthReply(FALSE))
    BY <1>4 DEF checkAuth, Ticked
  <2> HIDE DEF c
  <2> QED BY <2>1, <2>2, <2>3, <2>4, TickEndsTypes, ReplyKinds
<1>5. CASE handleClientRequests
  <2>1. c \in Conn
    BY <1>5 DEF handleClientRequests, Ticking, Ticked
  <2>2. PICK r \in ReadResults(toServer[c], clientShut[c], NoData) :
          /\ ServerRead(c, r)
          /\ \/ /\ Reply(c, "AUTHORIZED", ResetReply)
                /\ UNCHANGED cardLog
             \/ /\ r.ok /\ parseCmdRequest(r.data)
                /\ cardLog' = Append(cardLog, <<c, r.data.body>>)
                /\ Reply(c, "AUTHORIZED", CmdReply(r.data.body))
             \/ NoReply(c) /\ UNCHANGED cardLog
    BY <1>5 DEF handleClientRequests, Ticked
  <2> HIDE DEF c
  <2>3. toServer' \in [Conn -> Seq(Request)]
    BY <2>1, <2>2, ReadType DEF ServerRead
  <2>4. CASE UNCHANGED cardLog /\ (NoReply(c) \/ Reply(c, "AUTHORIZED", ResetReply))
    BY <2>1, <2>3, <2>4, TickEndsTypes, ReplyKinds
  <2>5. CASE /\ r.ok /\ parseCmdRequest(r.data)
             /\ cardLog' = Append(cardLog, <<c, r.data.body>>)
             /\ Reply(c, "AUTHORIZED", CmdReply(r.data.body))
    <3>1. r.data.body \in Cmd
      BY <2>1, <2>5, CmdRequestBody
    <3>2. cardLog' \in Seq(Conn \X Cmd)
      BY <2>1, <2>5, <3>1
    <3> QED BY <2>1, <2>3, <2>5, <3>1, <3>2, TickEndsTypes, ReplyKinds
  <2> QED BY <2>2, <2>4, <2>5
<1>6. CASE skipClient
  BY <1>6 DEF skipClient, NextClient
<1>7. CASE selectFails
  BY <1>7 DEF selectFails
<1>8. CASE endTick
  BY <1>8 DEF endTick
<1>9. CASE keepClient
  <2>1. ConnTypeOK'
    BY <1>9 DEF keepClient
  <2>2. ServerTypeOK' /\ size' <= Len(clients')
    BY <1>9 DEF keepClient
  <2> QED BY <2>1, <2>2
<1>10. CASE eraseClient
  <2>1. clients' \in Seq(Conn) /\ Len(clients') = Len(clients)
    BY <1>10, EraseType DEF eraseClient
  <2>2. ConnTypeOK'
    BY <1>10 DEF eraseClient
  <2>3. size' \in Nat /\ size' <= Len(clients') /\ it' \in Nat \ {0}
    <3>1. it <= size /\ size' = size - 1 /\ it' = it + 1
      BY <1>10 DEF eraseClient
    <3>2. it \in Nat \ {0} /\ size \in Nat /\ size <= Len(clients)
      OBVIOUS
    <3>3. it' \in Nat \ {0}
      BY <3>1, <3>2
    <3>4. size' \in Nat
      BY <3>1, <3>2
    <3>5. size' <= Len(clients')
      BY <2>1, <3>1, <3>2
    <3> QED BY <3>3, <3>4, <3>5
  <2>4. ServerTypeOK'
    BY <1>10, <2>1, <2>3 DEF eraseClient, Become
  <2> QED BY <2>2, <2>3, <2>4
<1>11. CASE useFreed
  BY <1>11 DEF useFreed
<1>12. CASE endReap
  <2>1. SubSeq(clients, 1, size) \in Seq(Conn)
    BY SubSeqProperties
  <2>2. clients' \in Seq(Conn) /\ size' = 0 /\ it' = 1 /\ pc' = "accept" /\ UNCHANGED <<sstate, cardLog>>
    BY <1>12, <2>1 DEF endReap
  <2>3. ConnTypeOK'
    BY <1>12 DEF endReap
  <2> QED BY <2>2, <2>3
<1>13. CASE PSCProxySignalHandler
  BY <1>13, ProcessEndsTypes DEF PSCProxySignalHandler
<1> QED
  BY <1>1, <1>2, <1>3, <1>4, <1>5, <1>6, <1>7, <1>8, <1>9, <1>10, <1>11, <1>12, <1>13
     DEF ServerStep

-----------------------------------------------------------------------------
(* The steps, by what they do to the sessions.                             *)

Open(c) == sstate[c] \in {"INIT", "AUTHORIZED"}

(* Client::tick of the session it stands at; it stays open or is closed.   *)
Ticks ==
  /\ it \in 1 .. Len(clients) /\ Open(Ticked) /\ pc \in {"tick", "read"}
  /\ \E s \in {"AUTHORIZED", "CLOSED"} : Become(Ticked, s)
  /\ NextClient

(* The loops go on, and no session or slot is touched.                     *)
Goes ==
  /\ UNCHANGED <<clients, sstate, waiting>>
  /\ pc' = "undefined" \/ VectorSize' = VectorSize
  /\ size' <= Len(clients)

(* There are no other steps.                                               *)
LEMMA ServerCases ==
  ASSUME ServerTypeInv, ServerStep \/ PSCProxySignalHandler
  PROVE  acceptClient \/ Ticks \/ Goes \/ eraseClient \/ endReap \/ ProcessEnds
<1>0. it \in Nat \ {0} /\ Len(clients) \in Nat /\ size <= Len(clients) /\ Len(clients) <= Len(clients)
  BY DEF ServerTypeInv, ServerTypeOK
<1>1. CASE acceptThrows \/ PSCProxySignalHandler
  BY <1>1 DEF acceptThrows, PSCProxySignalHandler
<1>2. CASE endAccept \/ skipClient \/ selectFails \/ endTick \/ keepClient \/ useFreed
  BY <1>0, <1>2 DEF endAccept, skipClient, NextClient, selectFails, endTick, keepClient, useFreed,
                    Goes, VectorSize
<1>3. CASE checkAuth \/ handleClientRequests
  <2>1. it <= Len(clients) /\ Open(Ticked) /\ pc \in {"tick", "read"}
    BY <1>3 DEF checkAuth, handleClientRequests, Ticking, Open
  <2>3. it \in 1 .. Len(clients)
    BY <1>0, <2>1
  <2>2. \/ ProcessEnds
        \/ NextClient /\ \E s \in {"AUTHORIZED", "CLOSED"} : Become(Ticked, s)
    BY <1>3 DEF checkAuth, handleClientRequests, NoReply, Reply
  <2> QED BY <2>1, <2>2, <2>3 DEF Ticks
<1> QED BY <1>1, <1>2, <1>3 DEF ServerStep

-----------------------------------------------------------------------------
(* The vector and the queue of those who wait.                             *)

(* The end of the process leaves neither, and no session.                  *)
LEMMA EndKeeps ==
  ASSUME ProcessEnds
  PROVE  ServerInv' /\ Len(waiting') = 0
<1>1. Len(<<>>) = 0
  OBVIOUS
<1>2. /\ size' = 0 /\ clients' = <<>> /\ waiting' = <<>> /\ pc' = "dead"
      /\ \A c \in Conn : sstate'[c] = "none"
  BY DEF ProcessEnds
<1> QED BY <1>1, <1>2 DEF ServerInv, VectorInv, WaitingInv, RosterInv, VectorSize

(* Every slot that vector::erase leaves holds what some slot held before.  *)
LEMMA EraseElements ==
  ASSUME NEW S, NEW s \in Seq(S), NEW i \in Nat \ {0}, NEW n \in Nat,
         i <= n, n <= Len(s), NEW m \in 1 .. Len(Erase(s, i, n))
  PROVE  \E j \in 1 .. Len(s) : Erase(s, i, n)[m] = s[j]
<1> DEFINE T == {s[j] : j \in 1 .. Len(s)}
<1>1. SubSeq(s, 1, i - 1) \in Seq(T)
  BY SubSeqProperties
<1>2. SubSeq(s, i + 1, n) \in Seq(T)
  BY SubSeqProperties
<1>3. SubSeq(s, n, Len(s)) \in Seq(T)
  BY SubSeqProperties
<1>4. Erase(s, i, n) \in Seq(T)
  BY <1>1, <1>2, <1>3, ConcatProperties DEF Erase
<1>5. Erase(s, i, n)[m] \in T
  BY <1>4
<1> QED BY <1>5

(* Slots are moved and dropped, and added for who gets a session.          *)
LEMMA VectorNext ==
  ASSUME ServerTypeInv, VectorInv, ServerStep \/ PSCProxySignalHandler
  PROVE  VectorInv'
<1>1. /\ clients \in Seq(Conn) /\ it \in Nat \ {0} /\ size \in Nat /\ size <= Len(clients)
      /\ sstate \in [Conn -> {"none", "INIT", "AUTHORIZED", "CLOSED", "freed"}]
      /\ waiting \in Seq(Conn)
      /\ \A i \in 1 .. Len(clients) : clients[i] \in Conn /\ sstate[clients[i]] # "none"
  BY DEF ServerTypeInv, ServerTypeOK, ConnTypeOK, VectorInv
<1>2. CASE acceptClient
  <2>1. PICK c \in Conn : c = Head(waiting)
    BY <1>1, <1>2 DEF acceptClient
  <2>2. /\ clients' = Append(clients, c) /\ sstate' = [sstate EXCEPT ![c] = "INIT"]
        /\ size' = size
    BY <1>2, <2>1 DEF acceptClient, Become
  <2>3. /\ Len(clients') = Len(clients) + 1 /\ clients'[Len(clients) + 1] = c
        /\ \A i \in 1 .. Len(clients) : clients'[i] = clients[i]
    BY <1>1, <2>2
  <2>4. size' <= Len(clients')
    BY <1>1, <2>2, <2>3
  <2>5. \A i \in 1 .. Len(clients') : i \in 1 .. Len(clients) \/ i = Len(clients) + 1
    BY <1>1, <2>3
  <2>6. \A i \in 1 .. Len(clients') : sstate'[clients'[i]] # "none"
    BY <1>1, <2>2, <2>3, <2>5
  <2> QED BY <2>4, <2>6 DEF VectorInv
<1>3. CASE Ticks
  BY <1>1, <1>3 DEF Ticks, NextClient, Become, VectorInv
<1>4. CASE Goes
  BY <1>1, <1>4 DEF Goes, VectorInv
<1>5. CASE eraseClient
  <2>1. /\ it <= size /\ clients' = Erase(clients, it, size) /\ size' = size - 1
        /\ sstate' = [sstate EXCEPT ![Victim] = "freed"]
    BY <1>5 DEF eraseClient, Become
  <2>2. clients' \in Seq(Conn) /\ Len(clients') = Len(clients)
    BY <1>1, <2>1, EraseType
  <2>3. \A m \in 1 .. Len(clients') : \E j \in 1 .. Len(clients) : clients'[m] = clients[j]
    BY <1>1, <2>1, EraseElements
  <2>4. \A m \in 1 .. Len(clients') : sstate'[clients'[m]] # "none"
    BY <1>1, <2>1, <2>3
  <2>5. size' <= Len(clients')
    BY <1>1, <2>1, <2>2
  <2> QED BY <2>4, <2>5 DEF VectorInv
<1>6. CASE endReap
  <2>1. clients' = SubSeq(clients, 1, size) /\ size' = 0 /\ UNCHANGED sstate
    BY <1>6 DEF endReap
  <2>2. Len(clients') = size /\ \A i \in 1 .. size : clients'[i] = clients[i]
    BY <1>1, <2>1, SubSeqProperties
  <2>3. size' <= Len(clients')
    BY <1>1, <2>1, <2>2
  <2>4. \A i \in 1 .. Len(clients') : i \in 1 .. Len(clients) /\ clients'[i] = clients[i]
    BY <1>1, <2>2
  <2> QED BY <1>1, <2>1, <2>3, <2>4 DEF VectorInv
<1>7. CASE ProcessEnds
  BY <1>7, EndKeeps DEF ServerInv
<1> QED BY <1>2, <1>3, <1>4, <1>5, <1>6, <1>7, ServerCases

(* Whichever Client is deleted, it is one that had a session.              *)
LEMMA VictimHasSession ==
  ASSUME ServerTypeInv, VectorInv, eraseClient
  PROVE  Victim \in Conn /\ sstate[Victim] # "none"
<1>1. /\ clients \in Seq(Conn) /\ it \in Nat \ {0} /\ size \in Nat
      /\ it <= size /\ size <= Len(clients)
  BY DEF ServerTypeInv, ServerTypeOK, eraseClient
<1>2. it \in 1 .. Len(Erase(clients, it, size))
  BY <1>1, EraseType
<1>3. PICK j \in 1 .. Len(clients) : Victim = clients[j]
  BY <1>1, <1>2, EraseElements DEF Victim
<1> QED BY <1>1, <1>3 DEF VectorInv

(* Nobody begins to wait, and who still waits has no session.              *)
LEMMA WaitingNext ==
  ASSUME ServerTypeInv, VectorInv, WaitingInv, ServerStep \/ PSCProxySignalHandler
  PROVE  /\ WaitingInv'
         /\ \A d \in Conn : \A i \in 1 .. Len(waiting') : waiting'[i] = d =>
              \E j \in 1 .. Len(waiting) : waiting[j] = d
<1>1. /\ waiting \in Seq(Conn) /\ clients \in Seq(Conn)
      /\ sstate \in [Conn -> {"none", "INIT", "AUTHORIZED", "CLOSED", "freed"}]
  BY DEF ServerTypeInv, ServerTypeOK, ConnTypeOK
<1>2. ASSUME NEW c \in Conn, NEW s, sstate[c] # "none", Become(c, s), UNCHANGED waiting
      PROVE  WaitingInv'
  <2>1. \A i \in 1 .. Len(waiting) : waiting[i] # c /\ waiting[i] \in Conn
    BY <1>1, <1>2 DEF WaitingInv
  <2> QED BY <1>1, <1>2, <2>1 DEF WaitingInv, Become
<1>3. CASE acceptClient
  <2>1. PICK c \in Conn : c = waiting[1] /\ Become(c, "INIT")
    BY <1>1, <1>3 DEF acceptClient
  <2>2. /\ waiting' = Tail(waiting) /\ waiting # <<>>
        /\ waiting' \in Seq(Conn) /\ Len(waiting') = Len(waiting) - 1
        /\ \A i \in 1 .. Len(waiting') : waiting'[i] = waiting[i + 1]
        /\ Len(waiting) \in Nat /\ Len(waiting) >= 1
    BY <1>1, <1>3, HeadTailProperties DEF acceptClient
  <2>3. \A i \in 1 .. Len(waiting') : i + 1 \in 1 .. Len(waiting) /\ i + 1 # 1 /\ 1 \in 1 .. Len(waiting)
    BY <2>2
  <2>4. \A i \in 1 .. Len(waiting') : waiting'[i] # c /\ waiting'[i] \in Conn
    BY <1>1, <2>1, <2>2, <2>3 DEF WaitingInv
  <2>5. \A i, j \in 1 .. Len(waiting') : waiting'[i] = waiting'[j] => i = j
    <3> SUFFICES ASSUME NEW i \in 1 .. Len(waiting'), NEW j \in 1 .. Len(waiting'),
                        waiting'[i] = waiting'[j]
                 PROVE  i = j
      OBVIOUS
    <3>1. i + 1 = j + 1
      BY <2>2, <2>3 DEF WaitingInv
    <3> QED BY <2>2, <3>1
  <2>6. \A i \in 1 .. Len(waiting') : sstate'[waiting'[i]] = "none"
    BY <1>1, <2>1, <2>2, <2>3, <2>4 DEF WaitingInv, Become
  <2> QED BY <2>2, <2>3, <2>5, <2>6 DEF WaitingInv
<1>4. CASE Ticks
  <2>1. Ticked \in Conn /\ sstate[Ticked] # "none"
    BY <1>1, <1>4 DEF Ticks, Ticked, Open
  <2>2. UNCHANGED waiting
    BY <1>4 DEF Ticks, NextClient
  <2> QED BY <1>2, <1>4, <2>1, <2>2 DEF Ticks
<1>5. CASE Goes \/ endReap
  BY <1>5 DEF Goes, endReap, WaitingInv
<1>6. CASE eraseClient
  <2>1. Become(Victim, "freed") /\ UNCHANGED waiting
    BY <1>6 DEF eraseClient
  <2> QED BY <1>2, <1>6, <2>1, VictimHasSession
<1>7. CASE ProcessEnds
  BY <1>7, EndKeeps DEF ServerInv
<1> QED BY <1>3, <1>4, <1>5, <1>6, <1>7, ServerCases

-----------------------------------------------------------------------------
(* The roster.                                                             *)

(* A step that leaves the vector alone and opens no session.               *)
LEMMA RosterFrame ==
  ASSUME RosterInv, pc # "undefined", UNCHANGED clients, VectorSize' = VectorSize,
         \A c \in Conn : Open(c)' => Open(c)
  PROVE  RosterInv'
BY DEF RosterInv, Open

(* A client that is taken in was nowhere in the vector.                    *)
LEMMA RosterAccept ==
  ASSUME ServerTypeInv, ServerInv, acceptClient
  PROVE  RosterInv'
<1>1. /\ waiting \in Seq(Conn) /\ waiting # <<>> /\ clients \in Seq(Conn)
      /\ sstate \in [Conn -> {"none", "INIT", "AUTHORIZED", "CLOSED", "freed"}]
      /\ VectorInv /\ RosterInv /\ pc = "accept" /\ pc' = pc
  BY DEF ServerTypeInv, ServerInv, ConnTypeOK, ServerTypeOK, acceptClient
<1>2. PICK c \in Conn : c = Head(waiting) /\ sstate[c] = "none"
  <2>1. Head(waiting) \in Conn /\ Head(waiting) = waiting[1] /\ 1 \in 1 .. Len(waiting)
    BY <1>1
  <2> QED BY <2>1 DEF ServerInv, WaitingInv
<1>3. clients' = Append(clients, c) /\ sstate' = [sstate EXCEPT ![c] = "INIT"]
  BY <1>2 DEF acceptClient, Become
<1>4. PICK n \in Nat : n = Len(clients)
  BY <1>1
<1>5. /\ VectorSize = n /\ VectorSize' = n + 1
      /\ clients'[n + 1] = c /\ \A i \in 1 .. n : clients'[i] = clients[i] /\ clients[i] # c
  BY <1>1, <1>2, <1>3, <1>4 DEF VectorSize, VectorInv
<1>6. \A i \in 1 .. n + 1 : i \in 1 .. n \/ i = n + 1
  OBVIOUS
<1>7. \A i, j \in 1 .. n + 1 : clients'[i] = clients'[j] => i = j
  BY <1>1, <1>5, <1>6 DEF RosterInv
<1>8. ASSUME NEW d \in Conn, Open(d)'
      PROVE  \E i \in 1 .. n + 1 : clients'[i] = d
  <2>1. CASE d = c
    BY <1>5, <2>1
  <2>2. CASE d # c
    <3>1. PICK i \in 1 .. n : clients[i] = d
      BY <1>1, <1>3, <1>5, <1>8, <2>2 DEF RosterInv, Open
    <3>2. i \in 1 .. n + 1 /\ clients'[i] = d
      BY <1>5, <3>1
    <3> QED BY <3>2
  <2> QED BY <2>1, <2>2
<1> QED BY <1>5, <1>7, <1>8 DEF RosterInv, Open

(* What erase leaves in the slots of the vector: what was there without    *)
(* the i-th, in the same order.                                            *)
LEMMA EraseSlots ==
  ASSUME NEW S, NEW s \in Seq(S), NEW i \in Nat \ {0}, NEW n \in Nat,
         i <= n, n <= Len(s), NEW m \in 1 .. n - 1
  PROVE  Erase(s, i, n)[m] = IF m < i THEN s[m] ELSE s[m + 1]
<1> DEFINE a == SubSeq(s, 1, i - 1)
           b == SubSeq(s, i + 1, n)
           z == SubSeq(s, n, Len(s))
<1>1. /\ a \in Seq(S) /\ Len(a) = i - 1 /\ \A j \in 1 .. i - 1 : a[j] = s[j]
  BY SubSeqProperties
<1>2. /\ b \in Seq(S) /\ Len(b) = n - i /\ \A j \in 1 .. n - i : b[j] = s[i + j]
  BY SubSeqProperties
<1>3. z \in Seq(S) /\ Len(z) \in Nat
  BY SubSeqProperties
<1> HIDE DEF a, b, z
<1>4. /\ a \o b \in Seq(S) /\ Len(a \o b) = n - 1
      /\ (a \o b)[m] = IF m <= i - 1 THEN a[m] ELSE b[m - (i - 1)]
  <2>1. (i - 1) + (n - i) = n - 1
    OBVIOUS
  <2>2. /\ a \o b \in Seq(S) /\ Len(a \o b) = Len(a) + Len(b)
        /\ \A j \in 1 .. Len(a) + Len(b) : (a \o b)[j] = IF j <= Len(a) THEN a[j] ELSE b[j - Len(a)]
    BY <1>1, <1>2, ConcatProperties
  <2>3. Len(a) = i - 1 /\ Len(a) + Len(b) = n - 1
    BY <1>1, <1>2, <2>1
  <2> QED BY <2>2, <2>3
<1>5. ((a \o b) \o z)[m] = (a \o b)[m]
  <2>1. m \in 1 .. Len(a \o b) + Len(z) /\ m <= Len(a \o b)
    BY <1>3, <1>4
  <2> QED BY <1>3, <1>4, <2>1, ConcatProperties
<1>6. (a \o b)[m] = IF m < i THEN s[m] ELSE s[m + 1]
  <2>1. CASE m < i
    BY <1>1, <1>4, <2>1
  <2>2. CASE ~ (m < i)
    <3>1. m - (i - 1) \in 1 .. n - i /\ i + (m - (i - 1)) = m + 1 /\ ~ (m <= i - 1)
      BY <2>2
    <3> QED BY <1>2, <1>4, <2>2, <3>1
  <2> QED BY <2>1, <2>2
<1>7. Erase(s, i, n) = (a \o b) \o z
  BY DEF Erase, a, b, z
<1> QED BY <1>5, <1>6, <1>7

(* A closed session leaves the vector, and one of the others is deleted:   *)
(* the rest of the vector is as it was.                                    *)
LEMMA RosterErase ==
  ASSUME ServerTypeInv, ServerInv, eraseClient
  PROVE  RosterInv'
<1>1. /\ clients \in Seq(Conn) /\ it \in Nat \ {0} /\ size \in Nat /\ size <= Len(clients)
      /\ sstate \in [Conn -> {"none", "INIT", "AUTHORIZED", "CLOSED", "freed"}]
      /\ it <= size /\ pc = "reap" /\ pc' = pc
      /\ clients' = Erase(clients, it, size) /\ size' = size - 1
      /\ sstate[clients[it]] = "CLOSED" /\ sstate' = [sstate EXCEPT ![Victim] = "freed"]
      /\ RosterInv
  BY DEF ServerTypeInv, ServerTypeOK, ServerInv, eraseClient, Become, Ticked
<1>2. VectorSize = size /\ VectorSize' = size - 1
  BY <1>1 DEF VectorSize
<1>3. \A m \in 1 .. size - 1 : clients'[m] = IF m < it THEN clients[m] ELSE clients[m + 1]
  BY <1>1, EraseSlots
<1>4. ASSUME NEW i \in 1 .. size - 1, NEW j \in 1 .. size - 1, clients'[i] = clients'[j]
      PROVE  i = j
  <2>1. PICK k \in 1 .. size, l \in 1 .. size :
          /\ k = (IF i < it THEN i ELSE i + 1) /\ l = (IF j < it THEN j ELSE j + 1)
    BY <1>1
  <2>2. clients[k] = clients[l]
    BY <1>3, <1>4, <2>1
  <2>3. k = l
    BY <1>1, <1>2, <2>2 DEF RosterInv
  <2> QED BY <1>1, <2>1, <2>3
<1>5. ASSUME NEW c \in Conn, Open(c)'
      PROVE  \E i \in 1 .. size - 1 : clients'[i] = c
  <2>1. Open(c)
    BY <1>1, <1>5 DEF Open
  <2>2. PICK k \in 1 .. size : clients[k] = c
    BY <1>1, <1>2, <2>1 DEF RosterInv, Open
  <2>3. k # it
    BY <1>1, <2>1, <2>2 DEF Open
  <2>4. CASE k < it
    <3>1. k \in 1 .. size - 1 /\ clients'[k] = c
      BY <1>1, <1>3, <2>2, <2>4
    <3> QED BY <3>1
  <2>5. CASE k > it
    <3>1. k - 1 \in 1 .. size - 1 /\ ~ (k - 1 < it) /\ (k - 1) + 1 = k
      BY <1>1, <2>5
    <3>2. clients'[k - 1] = c
      BY <1>3, <2>2, <3>1
    <3> QED BY <3>1, <3>2
  <2> QED BY <1>1, <2>3, <2>4, <2>5
<1> QED BY <1>2, <1>4, <1>5 DEF RosterInv, Open

(* The vector keeps its first slots when the loop that reaps is over.      *)
LEMMA RosterReaped ==
  ASSUME ServerTypeInv, ServerInv, endReap
  PROVE  RosterInv'
<1>1. /\ clients \in Seq(Conn) /\ size \in Nat /\ size <= Len(clients) /\ RosterInv
      /\ pc = "reap" /\ pc' = "accept" /\ clients' = SubSeq(clients, 1, size) /\ UNCHANGED sstate
  BY DEF ServerTypeInv, ServerTypeOK, ServerInv, endReap
<1>2. Len(clients') = size /\ \A i \in 1 .. size : clients'[i] = clients[i]
  BY <1>1, SubSeqProperties
<1>3. VectorSize = size /\ VectorSize' = size
  BY <1>1, <1>2 DEF VectorSize
<1> QED BY <1>1, <1>2, <1>3 DEF RosterInv

(* Client::tick closes the session or leaves it open; none is opened.      *)
LEMMA RosterTick ==
  ASSUME ServerTypeInv, ServerInv, Ticks
  PROVE  RosterInv'
<1>1. \A c \in Conn : Open(c)' => Open(c)
  BY DEF ServerTypeInv, ServerTypeOK, Ticks, Become, Open
<1>2. UNCHANGED clients /\ VectorSize' = VectorSize /\ pc # "undefined" /\ RosterInv
  BY DEF Ticks, NextClient, VectorSize, ServerInv
<1> QED BY <1>1, <1>2, RosterFrame

(* The server keeps its types and its vector, whatever was written to it.  *)
LEMMA ServerKeepsInv ==
  ASSUME ServerTypeInv, ServerInv, pc # "undefined",
         ServerStep \/ PSCProxySignalHandler, UNCHANGED clientShut
  PROVE  ServerTypeInv' /\ ServerInv'
<1>1. ServerTypeInv'
  BY ServerTypes
<1>2. VectorInv' /\ WaitingInv'
  BY VectorNext, WaitingNext DEF ServerInv
<1>3. ASSUME Goes PROVE RosterInv'
  <2>1. CASE pc' = "undefined"
    BY <2>1 DEF RosterInv
  <2>2. CASE VectorSize' = VectorSize
    BY <1>3, <2>2, RosterFrame DEF Goes, Open, ServerInv
  <2> QED BY <1>3, <2>1, <2>2 DEF Goes
<1>4. ASSUME ProcessEnds PROVE RosterInv'
  BY <1>4, EndKeeps DEF ServerInv
<1>5. RosterInv'
  BY <1>3, <1>4, ServerCases, RosterAccept, RosterTick, RosterErase, RosterReaped DEF ServerInv
<1> QED BY <1>1, <1>2, <1>5 DEF ServerInv

(* Who connects begins to wait, and the server's own is as it was.         *)
LEMMA ConnectKeepsInv ==
  ASSUME waiting \in Seq(Conn), ServerInv, NEW c \in Conn, sstate[c] = "none",
         \A i \in 1 .. Len(waiting) : waiting[i] # c,
         waiting' = Append(waiting, c), UNCHANGED serverVars
  PROVE  ServerInv'
<1>1. VectorInv' /\ RosterInv'
  BY DEF ServerInv, VectorInv, RosterInv, VectorSize, serverVars
<1>2. /\ Len(waiting') = Len(waiting) + 1 /\ waiting'[Len(waiting) + 1] = c
      /\ \A i \in 1 .. Len(waiting) : waiting'[i] = waiting[i]
      /\ Len(waiting) \in Nat
  OBVIOUS
<1>3. \A i \in 1 .. Len(waiting') : i \in 1 .. Len(waiting) \/ i = Len(waiting) + 1
  BY <1>2
<1>4. WaitingInv'
  BY <1>2, <1>3 DEF ServerInv, WaitingInv, serverVars
<1> QED BY <1>1, <1>4 DEF ServerInv

(* What does not touch the server's variables does not touch it either.    *)
LEMMA OthersKeepInv ==
  ASSUME ServerInv, UNCHANGED <<waiting, serverVars>>
  PROVE  ServerInv'
BY DEF ServerInv, VectorInv, WaitingInv, RosterInv, VectorSize, serverVars

(* It holds before anybody connects.                                       *)
LEMMA InitServerInv ==
  ASSUME ConnInit, ServerInit
  PROVE  ServerTypeInv /\ ServerInv
<1>1. <<>> \in Seq(Conn) /\ <<>> \in Seq(Conn \X Cmd) /\ Len(<<>>) = 0
  OBVIOUS
<1>2. ConnTypeOK
  BY DEF ConnInit, ConnTypeOK
<1>3. ServerTypeOK /\ size <= Len(clients)
  <2>1. it \in Nat \ {0} /\ size \in Nat /\ size <= Len(clients)
    BY <1>1 DEF ServerInit
  <2> QED BY <1>1, <2>1 DEF ServerInit, ServerTypeOK
<1>4. ServerInv
  BY <1>1 DEF ConnInit, ServerInit, ServerInv, VectorInv, WaitingInv, RosterInv, VectorSize
<1> QED BY <1>2, <1>3, <1>4 DEF ServerTypeInv

(* Between two turns of the loop that reaps, the vector is the roster.     *)
LEMMA RosterOf == ASSUME ServerInv PROVE Roster
<1> SUFFICES ASSUME pc \in {"accept", "tick", "read"}, NEW c \in Conn
             PROVE  /\ sstate[c] \in {"INIT", "AUTHORIZED"} => \E i \in Slots(c) : Slots(c) = {i}
                    /\ sstate[c] = "none" => Slots(c) = {}
  BY DEF Roster
<1>1. VectorSize = Len(clients) /\ RosterInv /\ VectorInv
  BY DEF VectorSize, ServerInv
<1>2. ASSUME sstate[c] \in {"INIT", "AUTHORIZED"}
      PROVE  \E i \in Slots(c) : Slots(c) = {i}
  <2>1. PICK i \in 1 .. Len(clients) : clients[i] = c
    BY <1>1, <1>2 DEF RosterInv
  <2>2. \A j \in Slots(c) : j = i
    BY <1>1, <2>1 DEF RosterInv, Slots
  <2> QED BY <2>1, <2>2 DEF Slots
<1>3. ASSUME sstate[c] = "none" PROVE Slots(c) = {}
  BY <1>1, <1>3 DEF VectorInv, Slots
<1> QED BY <1>2, <1>3

-----------------------------------------------------------------------------
(* The server among peers of any kind.                                     *)

Waits(c) == \E i \in 1 .. Len(waiting) : waiting[i] = c

(* The first packet that c wrote is the one its session will read first,   *)
(* unless the connection broke before it was written.                      *)
Unread(c) ==
  IF toServer[c] = <<>> THEN first[c] = NoData \/ serverShut[c]
                        ELSE Head(toServer[c]) = first[c]

(* A session begins unread, and is authorized by its first packet only.    *)
PeerInv(c) ==
  /\ c \notin peers => /\ toServer[c] = <<>> /\ first[c] = NoData
                      /\ sstate[c] = "none" /\ ~ Waits(c)
  /\ Waits(c) \/ sstate[c] = "INIT" => Unread(c)
  /\ sstate[c] = "AUTHORIZED" => first[c] = Auth("good")

PeersInv ==
  PeersTypeOK /\ ServerTypeInv /\ ServerInv /\ (\A c \in Conn : PeerInv(c)) /\ CredentialsFirst

(* No packet is the empty PacketData.                                      *)
LEMMA NoDataIsNoRequest == NoData \notin Request
BY DEF NoData, Request, Auth, ResetRequest, CmdRequest, Prepare

(* What a step that reads nothing of d's, and gives it no session, leaves. *)
LEMMA PeerFrame ==
  ASSUME NEW d \in Conn, PeerInv(d), UNCHANGED peerVars,
         toServer'[d] = toServer[d], serverShut[d] => serverShut'[d],
         Waits(d)' => Waits(d), sstate'[d] \in {sstate[d], "freed", "CLOSED"},
         sstate[d] = "none" => sstate'[d] = "none"
  PROVE  PeerInv(d)'
BY DEF PeerInv, Unread, peerVars

(* A Client::tick that reads c's next packet, which is its first one if it *)
(* was not authorized yet.                                                 *)
LEMMA PeerReads ==
  ASSUME NEW d \in Conn, NEW c \in Conn, \A e \in Conn : PeerInv(e), UNCHANGED peerVars,
         toServer \in [Conn -> Seq(Request)],
         sstate \in [Conn -> {"none", "INIT", "AUTHORIZED", "CLOSED", "freed"}],
         Open(c), ~ Waits(c), toServer' = [toServer EXCEPT ![c] = Rest(@)],
         NEW s \in {"AUTHORIZED", "CLOSED"}, Become(c, s),
         s = "AUTHORIZED" => first[c] = Auth("good"),
         UNCHANGED <<serverShut, waiting>>
  PROVE  PeerInv(d)'
<1>1. sstate' = [sstate EXCEPT ![c] = s] /\ (Waits(d)' <=> Waits(d)) /\ PeerInv(c) /\ PeerInv(d)
  BY DEF Become, Waits
<1>2. CASE d = c
  BY <1>1, <1>2 DEF PeerInv, peerVars, Open
<1>3. CASE d # c
  BY <1>1, <1>3, PeerFrame
<1> QED BY <1>2, <1>3

(* The end of the process: no session is left, and nobody waits.           *)
LEMMA PeersSeeEnd ==
  ASSUME NEW d \in Conn, PeerInv(d), UNCHANGED peerVars, ProcessEnds,
         toServer'[d] = toServer[d] \/ toServer'[d] = Rest(toServer[d])
  PROVE  PeerInv(d)'
<1>1. sstate'[d] = "none"
  BY DEF ProcessEnds
<1>2. ~ Waits(d)'
  BY EndKeeps DEF Waits
<1>3. toServer[d] = <<>> => toServer'[d] = <<>>
  BY DEF Rest
<1> QED BY <1>1, <1>2, <1>3 DEF PeerInv, peerVars

(* Client::tick of an open session.                                        *)
LEMMA PeersSeeTick ==
  ASSUME PeersInv, checkAuth \/ handleClientRequests, UNCHANGED peerVars
  PROVE  (\A d \in Conn : PeerInv(d)') /\ CredentialsFirst'
<1>1. /\ toServer \in [Conn -> Seq(Request)] /\ cardLog \in Seq(Conn \X Cmd)
      /\ sstate \in [Conn -> {"none", "INIT", "AUTHORIZED", "CLOSED", "freed"}]
      /\ it \in Nat \ {0} /\ clients \in Seq(Conn) /\ WaitingInv
      /\ \A e \in Conn : PeerInv(e)
      /\ CredentialsFirst
  BY DEF PeersInv, PeersTypeOK, ConnTypeOK, ServerTypeOK, ServerInv
<1>2. PICK c \in Conn : c = Ticked /\ Open(c)
  <2>1. it <= Len(clients) /\ Open(Ticked)
    BY DEF checkAuth, handleClientRequests, Ticking, Open
  <2>2. Ticked \in Conn
    BY <1>1, <2>1 DEF Ticked
  <2> QED BY <2>1, <2>2
<1>3. ~ Waits(c)
  BY <1>1, <1>2 DEF WaitingInv, Waits, Open
<1>4. PICK r \in ReadResults(toServer[c], clientShut[c], NoData) : ServerRead(c, r)
  BY <1>2 DEF checkAuth, handleClientRequests
<1>5. toServer' = [toServer EXCEPT ![c] = Rest(@)]
  BY <1>4 DEF ServerRead
<1>6. \/ ProcessEnds
      \/ /\ UNCHANGED <<serverShut, waiting>>
         /\ \E s \in {"AUTHORIZED", "CLOSED"} :
              Become(c, s) /\ (s = "AUTHORIZED" => first[c] = Auth("good"))
  <2>1. CASE checkAuth
    <3>1. PICK q \in ReadResults(toServer[c], clientShut[c], NoData) :
            \/ NoReply(c)
            \/ q.ok /\ parseAuth(q.data) /\ Reply(c, "AUTHORIZED", AuthReply(TRUE))
            \/ Reply(c, "CLOSED", AuthReply(FALSE))
      BY <1>2, <2>1 DEF checkAuth
    <3>2. sstate[c] = "INIT"
      BY <1>2, <2>1 DEF checkAuth, Ticking
    <3>3. ASSUME q.ok, parseAuth(q.data) PROVE first[c] = Auth("good")
      <4>1. toServer[c] # <<>> /\ Head(toServer[c]) = Auth("good")
        BY <1>1, <3>3, RequestParsed
      <4> QED BY <1>1, <3>2, <4>1 DEF PeerInv, Unread
    <3> QED BY <3>1, <3>3 DEF NoReply, Reply, NextClient
  <2>2. CASE handleClientRequests
    <3>1. sstate[c] = "AUTHORIZED"
      BY <1>2, <2>2 DEF handleClientRequests, Ticking
    <3>2. first[c] = Auth("good")
      BY <1>1, <3>1 DEF PeerInv
    <3>3. \/ ProcessEnds
          \/ UNCHANGED <<serverShut, waiting>> /\ \E s \in {"AUTHORIZED", "CLOSED"} : Become(c, s)
      BY <1>2, <2>2 DEF handleClientRequests, NoReply, Reply, NextClient
    <3> QED BY <3>2, <3>3
  <2> QED BY <2>1, <2>2
<1>7. ASSUME NEW d \in Conn PROVE PeerInv(d)'
  <2>1. CASE ProcessEnds
    <3>1. toServer'[d] = toServer[d] \/ toServer'[d] = Rest(toServer[d])
      BY <1>1, <1>5
    <3> QED BY <1>1, <2>1, <3>1, PeersSeeEnd
  <2> QED BY <1>1, <1>2, <1>3, <1>5, <1>6, <2>1, PeerReads
<1>8. CredentialsFirst'
  <2>1. CASE UNCHANGED cardLog
    BY <1>1, <2>1 DEF CredentialsFirst, peerVars
  <2>2. CASE ~ UNCHANGED cardLog
    <3>1. PICK k : cardLog' = Append(cardLog, <<c, k>>)
      BY <1>2, <2>2 DEF checkAuth, handleClientRequests
    <3>2. sstate[c] = "AUTHORIZED"
      BY <1>2, <2>2 DEF checkAuth, handleClientRequests, Ticking
    <3>3. first[c] = Auth("good")
      BY <1>1, <3>2 DEF PeerInv
    <3>4. /\ Len(cardLog') = Len(cardLog) + 1 /\ Len(cardLog) \in Nat
          /\ cardLog'[Len(cardLog) + 1] = <<c, k>>
          /\ \A i \in 1 .. Len(cardLog) : cardLog'[i] = cardLog[i]
      <4>1. cardLog \in Seq(Conn \X Cmd \cup {<<c, k>>})
        BY <1>1
      <4> QED BY <3>1, <4>1
    <3>5. \A i \in 1 .. Len(cardLog') : i \in 1 .. Len(cardLog) \/ i = Len(cardLog) + 1
      BY <3>4
    <3>6. \A i \in 1 .. Len(cardLog') : first[cardLog'[i][1]] = Auth("good")
      <4>1. cardLog'[Len(cardLog) + 1][1] = c
        BY <3>4
      <4> QED BY <1>1, <3>3, <3>4, <3>5, <4>1 DEF CredentialsFirst
    <3> QED BY <3>6 DEF CredentialsFirst, peerVars
  <2> QED BY <2>1, <2>2
<1> QED BY <1>7, <1>8

(* The server, at what its peers wrote.                                    *)
LEMMA PeersServerKeeps ==
  ASSUME PeersInv, pc # "undefined", PeersServer
  PROVE  PeersInv'
<1>1. /\ ServerTypeInv' /\ ServerInv' /\ UNCHANGED peerVars
  BY ServerKeepsInv DEF PeersInv, PeersServer
<1>2. PeersTypeOK'
  BY <1>1 DEF PeersInv, PeersTypeOK, ServerTypeInv, peerVars
<1>3. /\ ServerTypeInv /\ ServerInv /\ (\A d \in Conn : PeerInv(d)) /\ CredentialsFirst
      /\ toServer \in [Conn -> Seq(Request)] /\ waiting \in Seq(Conn)
      /\ serverShut \in [Conn -> BOOLEAN]
      /\ sstate \in [Conn -> {"none", "INIT", "AUTHORIZED", "CLOSED", "freed"}]
  BY DEF PeersInv, PeersTypeOK, ServerTypeInv, ConnTypeOK, ServerTypeOK
<1>4. \A d \in Conn : Waits(d)' => Waits(d)
  BY <1>3, WaitingNext DEF PeersServer, Waits, ServerInv
<1>5. CASE checkAuth \/ handleClientRequests
  <2>1. (\A d \in Conn : PeerInv(d)') /\ CredentialsFirst'
    BY <1>1, <1>5, PeersSeeTick
  <2> QED BY <1>1, <1>2, <2>1 DEF PeersInv
<1>6. ASSUME UNCHANGED <<toServer, cardLog>>, NEW d \in Conn,
             \/ ProcessEnds
             \/ UNCHANGED <<serverShut, sstate>>
             \/ /\ serverShut[d] => serverShut'[d]
                /\ sstate'[d] \in {sstate[d], "freed"} /\ (sstate[d] = "none" => sstate'[d] = "none")
      PROVE  PeerInv(d)'
  <2>1. CASE ProcessEnds
    BY <1>1, <1>3, <1>6, <2>1, PeersSeeEnd
  <2> QED BY <1>1, <1>3, <1>4, <1>6, <2>1, PeerFrame
<1>7. CASE acceptClient
  <2>1. PICK c \in Conn : c = Head(waiting) /\ Waits(c)
    <3>1. Head(waiting) \in Conn /\ Head(waiting) = waiting[1] /\ 1 \in 1 .. Len(waiting)
      BY <1>3, <1>7 DEF acceptClient
    <3> QED BY <3>1 DEF Waits
  <2>2. sstate' = [sstate EXCEPT ![c] = "INIT"] /\ UNCHANGED <<toServer, serverShut, cardLog>>
    BY <1>7, <2>1 DEF acceptClient, Become
  <2>3. ASSUME NEW d \in Conn PROVE PeerInv(d)'
    <3>1. CASE d = c
      BY <1>1, <1>3, <2>1, <2>2, <3>1 DEF PeerInv, Unread, peerVars
    <3>2. CASE d # c
      BY <1>1, <1>3, <1>4, <2>2, <3>2, PeerFrame
    <3> QED BY <3>1, <3>2
  <2> QED BY <1>1, <1>2, <1>3, <2>2, <2>3 DEF PeersInv, CredentialsFirst, peerVars
<1>8. CASE eraseClient
  <2>1. PICK c : c = Victim /\ sstate[c] # "none"
    BY <1>3, <1>8, VictimHasSession DEF ServerInv
  <2>2. /\ sstate' = [sstate EXCEPT ![c] = "freed"] /\ serverShut' = [serverShut EXCEPT ![c] = TRUE]
        /\ UNCHANGED <<toServer, cardLog>>
    BY <1>8, <2>1 DEF eraseClient, Become
  <2>3. ASSUME NEW d \in Conn PROVE PeerInv(d)'
    BY <1>3, <1>6, <2>1, <2>2
  <2> QED BY <1>1, <1>2, <1>3, <2>2, <2>3 DEF PeersInv, CredentialsFirst, peerVars
<1>9. CASE \/ acceptThrows \/ PSCProxySignalHandler \/ endAccept \/ skipClient \/ selectFails
           \/ endTick \/ keepClient \/ useFreed \/ endReap
  <2>1. /\ UNCHANGED <<toServer, cardLog>>
        /\ ProcessEnds \/ UNCHANGED <<serverShut, sstate>>
    BY <1>9 DEF acceptThrows, PSCProxySignalHandler, endAccept, skipClient, NextClient,
                selectFails, endTick, keepClient, useFreed, endReap
  <2>2. ASSUME NEW d \in Conn PROVE PeerInv(d)'
    BY <1>6, <2>1
  <2> QED BY <1>1, <1>2, <1>3, <2>1, <2>2 DEF PeersInv, CredentialsFirst, peerVars
<1> QED BY <1>5, <1>7, <1>8, <1>9 DEF PeersServer, ServerStep

(* A peer connects, writes, leaves, or the network does it for it.         *)
LEMMA PeerKeeps ==
  ASSUME PeersInv, NEW c \in Conn, Peer(c)
  PROVE  PeersInv'
<1>1. /\ ServerTypeInv /\ ServerInv /\ (\A d \in Conn : PeerInv(d)) /\ CredentialsFirst
      /\ ConnTypeOK /\ ServerTypeOK /\ size <= Len(clients)
      /\ peers \subseteq Conn /\ packets \in Nat /\ first \in [Conn -> Request \cup {NoData}]
  BY DEF PeersInv, PeersTypeOK, ServerTypeInv
<1>2. UNCHANGED serverVars
  BY DEF Peer, peerConnects, peerWrites, peerCloses
<1>3. ServerTypeOK' /\ size' <= Len(clients')
  BY <1>1, <1>2 DEF serverVars, ServerTypeOK
<1>4. CASE peerConnects(c)
  <2>1. /\ c \notin peers /\ peers' = peers \cup {c} /\ waiting' = Append(waiting, c)
        /\ UNCHANGED <<toServer, toClient, clientShut, serverShut, packets, first>>
    BY <1>4 DEF peerConnects
  <2>2. sstate[c] = "none" /\ ~ Waits(c) /\ toServer[c] = <<>> /\ first[c] = NoData
    BY <1>1, <2>1 DEF PeerInv
  <2>3. ServerInv'
    BY <1>1, <1>2, <2>1, <2>2, ConnectKeepsInv DEF Waits, ConnTypeOK
  <2>4. PeersTypeOK' /\ ServerTypeInv'
    BY <1>1, <1>3, <2>1 DEF PeersTypeOK, ServerTypeInv, ConnTypeOK
  <2>5. ASSUME NEW d \in Conn PROVE PeerInv(d)'
    <3>1. sstate'[d] = sstate[d] /\ PeerInv(d)
      BY <1>1, <1>2 DEF serverVars
    <3>2. CASE d = c
      BY <2>1, <2>2, <3>1, <3>2 DEF PeerInv, Unread
    <3>3. CASE d # c
      <4>0. /\ Len(waiting') = Len(waiting) + 1 /\ waiting'[Len(waiting) + 1] = c
            /\ \A i \in 1 .. Len(waiting) : waiting'[i] = waiting[i]
            /\ Len(waiting) \in Nat
        BY <1>1, <2>1 DEF ConnTypeOK
      <4>3. \A i \in 1 .. Len(waiting') : i \in 1 .. Len(waiting) \/ i = Len(waiting) + 1
        BY <4>0
      <4>1. \A i \in 1 .. Len(waiting') : waiting'[i] = d => i \in 1 .. Len(waiting) /\ waiting[i] = d
        BY <3>3, <4>0, <4>3
      <4>2. Waits(d)' => Waits(d)
        BY <4>1 DEF Waits
      <4> QED BY <2>1, <3>1, <3>3, <4>2 DEF PeerInv, Unread
    <3> QED BY <3>2, <3>3
  <2> QED BY <1>1, <1>2, <2>1, <2>3, <2>4, <2>5 DEF PeersInv, CredentialsFirst, serverVars
<1>5. ASSUME NEW p \in Request, peerWrites(c, p)
      PROVE  PeersInv'
  <2>1. /\ c \in peers /\ packets' = packets + 1
        /\ toServer' = IF serverShut[c] THEN toServer
                                        ELSE [toServer EXCEPT ![c] = Append(@, p)]
        /\ first' = [first EXCEPT ![c] = IF @ = NoData THEN p ELSE @]
        /\ UNCHANGED <<toClient, clientShut, serverShut, waiting, peers>>
    BY <1>5 DEF peerWrites, ClientSend
  <2>2. toServer' \in [Conn -> Seq(Request)]
    BY <1>1, <2>1, SendType DEF ConnTypeOK
  <2>3. ServerInv'
    BY <1>1, <1>2, <2>1, OthersKeepInv
  <2>4. PeersTypeOK' /\ ServerTypeInv'
    BY <1>1, <1>3, <2>1, <2>2 DEF PeersTypeOK, ServerTypeInv, ConnTypeOK
  <2>5. ASSUME NEW d \in Conn, first[d] # NoData
        PROVE  first'[d] = first[d]
    BY <1>1, <2>1, <2>5
  <2>6. ASSUME NEW d \in Conn PROVE PeerInv(d)'
    <3>1. sstate'[d] = sstate[d] /\ PeerInv(d) /\ (Waits(d)' <=> Waits(d)) /\ Auth("good") # NoData
      BY <1>1, <1>2, <2>1 DEF serverVars, Waits, Auth, NoData, Prepare
    <3>2. CASE d # c
      BY <1>1, <2>1, <3>1, <3>2 DEF PeerInv, Unread, ConnTypeOK
    <3>3. CASE d = c
      <4>1. ASSUME Unread(c) PROVE Unread(c)'
        <5>1. CASE serverShut[c]
          <6>1. toServer[c] # <<>> => first[c] # NoData
            BY <1>1, <4>1, NoDataIsNoRequest DEF Unread, ConnTypeOK
          <6> QED BY <2>1, <2>5, <4>1, <5>1, <6>1 DEF Unread
        <5>2. CASE ~ serverShut[c] /\ toServer[c] = <<>>
          <6>1. toServer'[c] = <<p>> /\ first'[c] = p
            BY <1>1, <2>1, <4>1, <5>2 DEF Unread, ConnTypeOK
          <6> QED BY <6>1 DEF Unread
        <5>3. CASE ~ serverShut[c] /\ toServer[c] # <<>>
          <6>1. /\ toServer[c] \in Seq(Request)
                /\ toServer'[c] = Append(toServer[c], p)
            BY <1>1, <2>1, <5>3 DEF ConnTypeOK
          <6>2. toServer'[c] # <<>> /\ Head(toServer'[c]) = Head(toServer[c])
            BY <5>3, <6>1
          <6>3. Head(toServer[c]) \in Request
            BY <5>3, <6>1
          <6>4. first'[c] = first[c]
            BY <2>5, <4>1, <5>3, <6>3, NoDataIsNoRequest DEF Unread
          <6> QED BY <4>1, <5>3, <6>2, <6>4 DEF Unread
        <5> QED BY <5>1, <5>2, <5>3
      <4> QED BY <2>1, <2>5, <3>1, <3>3, <4>1 DEF PeerInv
    <3> QED BY <3>2, <3>3
  <2>7. CredentialsFirst'
    <3>1. \A i \in 1 .. Len(cardLog) : cardLog[i][1] \in Conn
      BY <1>1 DEF ServerTypeOK
    <3>2. Auth("good") # NoData
      BY DEF Auth, NoData, Prepare
    <3> QED BY <1>1, <1>2, <2>5, <3>1, <3>2 DEF CredentialsFirst, serverVars
  <2> QED BY <2>3, <2>4, <2>6, <2>7 DEF PeersInv
<1>6. CASE peerCloses(c) \/ (Break(c) /\ UNCHANGED <<serverVars, peerVars>>)
  <2>1. /\ UNCHANGED <<toServer, toClient, waiting, peerVars>>
        /\ clientShut' \in [Conn -> BOOLEAN]
        /\ serverShut' \in [Conn -> BOOLEAN] /\ \A d \in Conn : serverShut[d] => serverShut'[d]
    BY <1>1, <1>6 DEF peerCloses, Break, ConnTypeOK
  <2>2. ServerInv'
    BY <1>1, <1>2, <2>1, OthersKeepInv
  <2>3. PeersTypeOK' /\ ServerTypeInv'
    BY <1>1, <1>3, <2>1 DEF PeersTypeOK, ServerTypeInv, ConnTypeOK, peerVars
  <2>4. ASSUME NEW d \in Conn PROVE PeerInv(d)'
    BY <1>1, <1>2, <2>1, PeerFrame DEF Waits, serverVars
  <2> QED BY <1>1, <1>2, <2>1, <2>2, <2>3, <2>4 DEF PeersInv, CredentialsFirst, serverVars, peerVars
<1>7. \/ peerConnects(c) \/ peerCloses(c)
      \/ \E p \in Request : peerWrites(c, p)
      \/ (Break(c) /\ UNCHANGED <<serverVars, peerVars>>)
  BY DEF Peer
<1> QED BY <1>4, <1>5, <1>6, <1>7

(* The invariant is inductive: it holds before anybody connects, and the   *)
(* peers, the network and the server keep it.                              *)
THEOREM PeersInvariance == PeersSpec => []PeersInv
<1>1. PeersInit => PeersInv
  <2> SUFFICES ASSUME PeersInit PROVE PeersInv
    OBVIOUS
  <2>1. ServerTypeInv /\ ServerInv /\ peers = {} /\ packets = 0 /\ first = [c \in Conn |-> NoData]
    BY InitServerInv DEF PeersInit
  <2>2. PeersTypeOK
    BY <2>1 DEF PeersTypeOK, ServerTypeInv
  <2>3. CredentialsFirst
    <3>1. cardLog = <<>> /\ Len(<<>>) = 0
      BY DEF PeersInit, ServerInit
    <3> QED BY <3>1 DEF CredentialsFirst
  <2>4. ASSUME NEW c \in Conn PROVE PeerInv(c)
    <3>1. waiting = <<>> /\ Len(<<>>) = 0 /\ toServer[c] = <<>> /\ sstate[c] = "none"
      BY DEF PeersInit, ConnInit, ServerInit
    <3> QED BY <2>1, <3>1 DEF PeerInv, Waits
  <2> QED BY <2>1, <2>2, <2>3, <2>4 DEF PeersInv
<1>2. PeersInv /\ [PeersNext]_peersVars => PeersInv'
  <2> SUFFICES ASSUME PeersInv, [PeersNext]_peersVars PROVE PeersInv'
    OBVIOUS
  <2>1. CASE UNCHANGED peersVars
    BY <2>1 DEF peersVars, connVars, serverVars, peerVars, PeersInv, PeersTypeOK, ServerTypeInv,
                ServerInv, VectorInv, WaitingInv, RosterInv, VectorSize, ConnTypeOK, ServerTypeOK,
                PeerInv, Waits, Unread, CredentialsFirst
  <2> QED BY <2>1, PeersServerKeeps, PeerKeeps DEF PeersNext, PeersEnd
<1> QED BY <1>1, <1>2, PTL DEF PeersSpec

(* The server's variables and the connections have the types of PeersTypeOK.  *)
THEOREM PeersTypeCorrect == PeersSpec => []PeersTypeOK
<1>1. PeersInv => PeersTypeOK
  BY DEF PeersInv
<1> QED BY <1>1, PeersInvariance, PTL

(* Whatever the peers write and whenever they leave, every open session    *)
(* has exactly one slot of the vector between two turns of the loop that   *)
(* reaps, while closeInactiveClients erases and deletes the wrong Clients. *)
THEOREM PeersRosterHolds == PeersSpec => []Roster
<1>1. PeersInv => Roster
  BY RosterOf DEF PeersInv
<1> QED BY <1>1, PeersInvariance, PTL

(* Nobody's command reaches the card unless the first thing it wrote was   *)
(* an AUTH_REQUEST with the server's credentials, however many connect and *)
(* whatever they write in whatever order.                                  *)
THEOREM CredentialsFirstHolds == PeersSpec => []CredentialsFirst
<1>1. PeersInv => CredentialsFirst
  BY DEF PeersInv
<1> QED BY <1>1, PeersInvariance, PTL
=============================================================================
