----------------------------- MODULE ClientProofs -----------------------------
(***************************************************************************)
(* The safety properties of the two clients: what the threads of the       *)
(* command line client put on the connection, and what the Qt client shows *)
(* of its connection and of the open conversation.                         *)
(***************************************************************************)
EXTENDS CliClient, QtClient, Integers, TLAPS

\* A function on the first n places is a sequence.
LEMMA FunctionIsSeq ==
    ASSUME NEW S, NEW n \in Nat, NEW f \in [1..n -> S]
    PROVE  f \in Seq(S)
OBVIOUS

-----------------------------------------------------------------------------
(* Division. *)

\* Quotient and remainder are unique.
LEMMA DivisionUnique ==
    ASSUME NEW p \in Nat \ {0}, NEW q \in Int, NEW x \in Int,
           NEW r \in 0..(p - 1), NEW s \in 0..(p - 1),
           p * q + r = p * x + s
    PROVE  q = x /\ r = s
<1>1. ASSUME q > x PROVE FALSE
  <2>1. p * q >= p * (x + 1)
    BY <1>1
  <2>2. QED
    BY <2>1
<1>2. ASSUME x > q PROVE FALSE
  <2>1. p * x >= p * (q + 1)
    BY <1>2
  <2>2. QED
    BY <2>1
<1>3. q = x
  BY <1>1, <1>2
<1>4. QED
  BY <1>3

\* What \div and % are.
LEMMA Division ==
    ASSUME NEW p \in Nat \ {0}, NEW n \in Int
    PROVE  /\ n \div p \in Int /\ n % p \in 0..(p - 1)
           /\ n = p * (n \div p) + (n % p)
  OBVIOUS

\* One period more does not change the remainder.
LEMMA ModShift ==
    ASSUME NEW p \in Nat \ {0}, NEW n \in Nat
    PROVE  (n + p) % p = n % p
<1> DEFINE q == n \div p
           r == n % p
           x == (n + p) \div p
           s == (n + p) % p
<1>1. q \in Int /\ r \in 0..(p - 1) /\ n = p * q + r
  BY Division
<1>2. x \in Int /\ s \in 0..(p - 1) /\ n + p = p * x + s
  BY Division
<1> SUFFICES r = s
  OBVIOUS
<1> HIDE DEF q, r, x, s
<1>3. p * (q + 1) + r = p * x + s /\ q + 1 \in Int
  BY <1>1, <1>2
<1>4. QED
  BY <1>1, <1>2, <1>3, DivisionUnique

-----------------------------------------------------------------------------
(* The command line client. *)

Stages == {"unborn", "connect", "loop", "input", "sleep", "copy", "lock", "write", "header",
           "body", "failed", "close", "join", "ended", "exited", "killed"}

CliTypeOK ==
    /\ stage \in [CliThreads -> Stages]
    /\ left \in [Senders -> 0..PacketParts]
    /\ sentParts \in Seq(Senders)
    /\ mutex \in Senders \cup {"free"}

\* socket_mutex_ is held by the sender that is in writeAll.
WriterHoldsMutex ==
    \A t \in Senders : /\ stage[t] = "write" <=> mutex = t
                       /\ stage[t] = "write" => left[t] > 0

\* While the server reads, the pieces sent are whole packets but for the one
\* being written, whose last piece is its writer's.
OnlyLastIsPartial ==
    server = "up" =>
        /\ mutex = "free" => Len(sentParts) % PacketParts = 0
        /\ \A t \in Senders : mutex = t =>
              /\ (Len(sentParts) + left[t]) % PacketParts = 0
              /\ left[t] < PacketParts => Len(sentParts) > 0 /\ sentParts[Len(sentParts)] = t

\* The threads are started by main after connectTo.
ThreadsAfterConnect == stage["main"] = "connect" => stage["heartbeat"] = "unborn"

CliInv == CliTypeOK /\ ThreadsAfterConnect /\ WriterHoldsMutex /\ OnlyLastIsPartial /\ FramesWhole

\* Before connectTo nothing is sent and nobody holds socket_mutex_.
LEMMA CliInvInit == CliInit => CliInv
<1> SUFFICES ASSUME CliInit PROVE CliInv
  OBVIOUS
<1>1. stage \in [CliThreads -> Stages]
  BY DEF CliInit, CliThreads, Senders, Stages
<1>2. \A t \in Senders : stage[t] # "write"
  BY DEF CliInit, Senders
<1>3. CliTypeOK
  BY <1>1, CliAssumption DEF CliInit, CliTypeOK
<1>4. WriterHoldsMutex
  BY <1>2 DEF WriterHoldsMutex, CliInit, Senders
<1>5. OnlyLastIsPartial /\ FramesWhole
  BY CliAssumption DEF OnlyLastIsPartial, FramesWhole, CliInit, Senders
<1>6. ThreadsAfterConnect
  BY DEF ThreadsAfterConnect, CliInit
<1>7. QED
  BY <1>3, <1>4, <1>5, <1>6 DEF CliInv

\* A step that leaves the mutex, the pieces sent and the pieces to send alone.
LEMMA CliElsewhere ==
    ASSUME CliInv, UNCHANGED <<mutex, left, sentParts>>,
           stage' \in [CliThreads -> Stages],
           server' = "up" => server = "up",
           stage'["main"] = "connect" => stage'["heartbeat"] = "unborn",
           \A t \in Senders : stage'[t] = "write" <=> stage[t] = "write"
    PROVE  CliInv'
<1>1. CliTypeOK'
  BY DEF CliInv, CliTypeOK
<1>2. WriterHoldsMutex'
  BY DEF CliInv, WriterHoldsMutex
<1>3. OnlyLastIsPartial' /\ FramesWhole'
  BY DEF CliInv, OnlyLastIsPartial, FramesWhole
<1>4. QED
  BY <1>1, <1>2, <1>3 DEF CliInv, ThreadsAfterConnect

\* sendPacket takes socket_mutex_ with a whole packet still to write.
LEMMA BeginSendInv ==
    ASSUME CliInv, NEW t \in Senders, BeginSend(t)
    PROVE  CliInv'
<1>1. CASE GoTo(t, "failed") /\ UNCHANGED <<mutex, left>>
  BY <1>1, CliElsewhere
  DEF BeginSend, GoTo, CliInv, CliTypeOK, ThreadsAfterConnect, Stages, Senders, CliThreads
<1>2. CASE /\ mutex = "free" /\ socket = "open" /\ mutex' = t /\ GoTo(t, "write")
           /\ left' = [left EXCEPT ![t] = PacketParts]
  <2>1. /\ stage[t] = "lock" /\ mutex = "free" /\ UNCHANGED <<sentParts, server>>
        /\ \A u \in Senders : left'[u] = IF u = t THEN PacketParts ELSE left[u]
        /\ \A u \in Senders : stage'[u] = IF u = t THEN "write" ELSE stage[u]
    BY <1>2 DEF BeginSend, GoTo, CliInv, CliTypeOK, CliThreads
  <2>2. CliTypeOK'
    BY <1>2, <2>1, CliAssumption
    DEF GoTo, CliInv, CliTypeOK, Stages, Senders, CliThreads
  <2>3. WriterHoldsMutex'
    BY <1>2, <2>1, CliAssumption DEF CliInv, WriterHoldsMutex, Senders
  <2>4. OnlyLastIsPartial'
    <3>1. Len(sentParts) \in Nat /\ (server = "up" => Len(sentParts) % PacketParts = 0)
      BY <2>1 DEF CliInv, CliTypeOK, OnlyLastIsPartial
    <3>2. (Len(sentParts) + PacketParts) % PacketParts = Len(sentParts) % PacketParts
      BY <3>1, ModShift, CliAssumption, Zenon
    <3>3. QED
      BY <1>2, <2>1, <3>1, <3>2, CliAssumption DEF OnlyLastIsPartial, Senders
  <2>5. FramesWhole'
    BY <2>1 DEF CliInv, FramesWhole
  <2>6. ThreadsAfterConnect'
    BY <1>2, <2>1 DEF CliInv, CliTypeOK, ThreadsAfterConnect, Senders
  <2>7. QED
    BY <2>2, <2>3, <2>4, <2>5, <2>6 DEF CliInv
<1>3. QED
  BY <1>1, <1>2 DEF BeginSend

\* The first piece of a packet follows a whole packet, any other one a piece of
\* the same sender.
LEMMA WriteSomeInv ==
    ASSUME CliInv, NEW t \in Senders, WriteSome(t)
    PROVE  CliInv'
<1>1. /\ stage[t] = "write" /\ mutex = t /\ left[t] \in 1..PacketParts /\ server' = server
      /\ \A u \in Senders : left'[u] = IF u = t THEN left[t] - 1 ELSE left[u]
  BY DEF WriteSome, CliInv, CliTypeOK, WriterHoldsMutex
<1>2. \/ left[t] > 1 /\ UNCHANGED <<mutex, stage>>
      \/ left[t] = 1 /\ mutex' = "free" /\ GoTo(t, "loop")
  BY DEF WriteSome
<1>3. CliTypeOK'
  <2>1. left' \in [Senders -> 0..PacketParts]
    BY <1>1, CliAssumption DEF WriteSome, CliInv, CliTypeOK
  <2>2. sentParts' \in Seq(Senders)
    BY DEF WriteSome, CliInv, CliTypeOK
  <2>3. stage' \in [CliThreads -> Stages] /\ mutex' \in Senders \cup {"free"}
    BY <1>2 DEF CliInv, CliTypeOK, GoTo, Stages
  <2>4. QED
    BY <2>1, <2>2, <2>3 DEF CliTypeOK
<1>4. WriterHoldsMutex'
  BY <1>1, <1>2 DEF CliInv, CliTypeOK, WriterHoldsMutex, GoTo, Senders, CliThreads
<1>5. ThreadsAfterConnect'
  BY <1>1, <1>2 DEF CliInv, CliTypeOK, ThreadsAfterConnect, GoTo, Senders, CliThreads
<1>6. CASE server # "up"
  <2>1. sentParts' = sentParts /\ server' # "up"
    BY <1>1, <1>6 DEF WriteSome
  <2>2. QED
    BY <1>3, <1>4, <1>5, <2>1 DEF CliInv, OnlyLastIsPartial, FramesWhole
<1>7. CASE server = "up"
  <2> DEFINE n == Len(sentParts)
  <2>1. /\ n \in Nat /\ sentParts' = Append(sentParts, t) /\ Len(sentParts') = n + 1
        /\ sentParts'[n + 1] = t /\ \A i \in 1..n : sentParts'[i] = sentParts[i]
    BY <1>7 DEF WriteSome, CliInv, CliTypeOK
  <2>2. /\ (n + left[t]) % PacketParts = 0
        /\ left[t] < PacketParts => n > 0 /\ sentParts[n] = t
    BY <1>1, <1>7 DEF CliInv, OnlyLastIsPartial
  <2>3. n % PacketParts # 0 => n > 0 /\ sentParts[n] = t
    <3>1. CASE left[t] = PacketParts
      BY <2>1, <2>2, <3>1, ModShift, CliAssumption, Zenon
    <3>2. CASE left[t] < PacketParts
      BY <2>2, <3>2
    <3>3. QED
      BY <1>1, <3>1, <3>2, CliAssumption
  <2>4. (n + 1) + left'[t] = n + left[t]
    <3>1. PICK k \in Nat : k = left[t]
      BY <1>1, CliAssumption
    <3>2. left'[t] = k - 1
      BY <1>1, <3>1
    <3>3. n \in Nat
      BY <2>1
    <3> HIDE DEF n
    <3>4. QED
      BY <3>1, <3>2, <3>3
  <2>5. OnlyLastIsPartial'
    <3>1. left[t] = 1 => (n + 1) % PacketParts = 0
      BY <2>2
    <3>2. QED
      BY <1>1, <1>2, <2>1, <2>2, <2>4, <3>1 DEF OnlyLastIsPartial, Senders, GoTo
  <2>6. FramesWhole'
    <3>1. SUFFICES ASSUME NEW i \in 1..(n + 1), i % PacketParts # 0, i < n + 1
                   PROVE  sentParts'[i + 1] = sentParts'[i]
      BY <2>1 DEF FramesWhole
    <3>2. CASE i = n
      BY <2>1, <2>3, <3>1, <3>2
    <3>3. CASE i < n
      BY <2>1, <3>1, <3>3 DEF CliInv, FramesWhole
    <3>4. QED
      BY <2>1, <3>1, <3>2, <3>3
  <2>7. QED
    BY <1>3, <1>4, <1>5, <2>5, <2>6 DEF CliInv
<1>8. QED
  BY <1>6, <1>7

\* A write to a connection the server has closed gives the packet up.
LEMMA WriteFailsInv ==
    ASSUME CliInv, NEW t \in Senders, WriteFails(t)
    PROVE  CliInv'
<1>1. /\ mutex = t /\ mutex' = "free" /\ sentParts' = sentParts /\ server' = "gone"
      /\ \A u \in Senders : stage'[u] # "write"
  BY DEF WriteFails, GoTo, CliInv, CliTypeOK, WriterHoldsMutex, CliThreads, Senders
<1>2. CliTypeOK'
  BY <1>1, CliAssumption DEF WriteFails, GoTo, CliInv, CliTypeOK, Stages
<1>3. WriterHoldsMutex'
  BY <1>1 DEF WriterHoldsMutex, Senders
<1>4. OnlyLastIsPartial' /\ FramesWhole'
  BY <1>1 DEF CliInv, OnlyLastIsPartial, FramesWhole
<1>5. ThreadsAfterConnect'
  BY <1>1 DEF WriteFails, GoTo, CliInv, CliTypeOK, ThreadsAfterConnect, CliThreads, Senders
<1>6. QED
  BY <1>2, <1>3, <1>4, <1>5 DEF CliInv

\* Every step of the three threads.
LEMMA CliInvNext == CliInv /\ [CliNext]_cliVars => CliInv'
<1> SUFFICES ASSUME CliInv, [CliNext]_cliVars PROVE CliInv'
  OBVIOUS
<1>1. stage \in [CliThreads -> Stages] /\ ThreadsAfterConnect
  BY DEF CliInv, CliTypeOK
<1>2. ASSUME NEW t \in CliThreads, LoopTest(t) PROVE CliInv'
  BY <1>1, <1>2, CliElsewhere DEF ThreadsAfterConnect, LoopTest, GoTo, Stages, CliThreads, Senders
<1>3. ASSUME NEW t \in CliThreads, Fail(t) PROVE CliInv'
  BY <1>1, <1>3, CliElsewhere DEF ThreadsAfterConnect, Fail, GoTo, Stages, CliThreads, Senders
<1>4. CASE Connect
  BY <1>1, <1>4, CliElsewhere DEF ThreadsAfterConnect, Connect, GoTo, Stages, CliThreads, Senders
<1>5. CASE CloseSocket \/ JoinThreads
  BY <1>1, <1>5, CliElsewhere DEF ThreadsAfterConnect, CloseSocket, JoinThreads, GoTo,
                               Stages, CliThreads, Senders
<1>6. CASE EndSleep
  BY <1>1, <1>6, CliElsewhere DEF ThreadsAfterConnect, EndSleep, GoTo, Stages, CliThreads, Senders
<1>7. CASE CopyFd \/ ReadSome \/ ReadEnds
  BY <1>1, <1>7, CliElsewhere DEF ThreadsAfterConnect, CopyFd, ReadSome, ReadEnds, GoTo,
                               Stages, CliThreads, Senders
<1>8. ASSUME NEW line \in Lines, ReadLine(line) PROVE CliInv'
  BY <1>1, <1>8, CliElsewhere DEF ThreadsAfterConnect, ReadLine, GoTo, Stages, CliThreads, Senders
<1>9. CASE ServerReads \/ ServerSends \/ ServerCloses
  BY <1>1, <1>9, CliElsewhere DEF ThreadsAfterConnect, ServerReads, ServerSends, ServerCloses
<1>10. CASE UNCHANGED cliVars
  BY <1>1, <1>10, CliElsewhere DEF ThreadsAfterConnect, cliVars
<1>11. ASSUME NEW t \in Senders, BeginSend(t) \/ WriteSome(t) \/ WriteFails(t) PROVE CliInv'
  BY <1>11, BeginSendInv, WriteSomeInv, WriteFailsInv
<1>12. ASSUME NEW t \in CliThreads, CliStep(t) PROVE CliInv'
  BY <1>2, <1>3, <1>4, <1>5, <1>6, <1>7, <1>11, <1>12 DEF CliStep, SenderStep
<1>13. QED
  BY <1>8, <1>9, <1>10, <1>12 DEF CliNext

\* For packets of any number of pieces and a send buffer of any size: the
\* packets of main and of the heartbeat never mix on the connection, since
\* ProtocolClient::sendPacket holds socket_mutex_ over all of writeAll.
THEOREM PacketsNeverMix == CliSpec => []FramesWhole
<1>1. CliInv => FramesWhole
  BY DEF CliInv
<1>2. QED
  BY CliInvInit, CliInvNext, <1>1, PTL DEF CliSpec

-----------------------------------------------------------------------------
(* The Qt client. *)

Statuses == {"sending", "sent", "failed", "received"}
Bubbles == [chat : Chats \cup {NoChat}, status : Statuses]
Requests == [seq : Nat, type : {"login", "register", "heartbeat", "message", "history"},
             chat : Chats \cup {NoChat}]

\* The states that the client's objects may have.
Clients ==
    [socket : {"unconnected", "connecting", "connected", "closing"},
     codec : {"fresh", "partial", "error"}, stale : BOOLEAN,
     seq : Nat, pending : SUBSET Requests, inflight : SUBSET Nat, loggedIn : BOOLEAN,
     online : BOOLEAN, beating : BOOLEAN, autoUsed : BOOLEAN, timer : BOOLEAN,
     action : {"none", "login", "register"}, busy : BOOLEAN,
     active : Chats \cup {NoChat}, target : BOOLEAN, page : Seq(Bubbles),
     unread : [Chats -> Nat], strays : SUBSET Chats]

\* The status and the heartbeat follow the connection.
StatusHolds(c) ==
    /\ c.online => c.socket = "connected"
    /\ c.beating => c.loggedIn /\ c.socket \in {"connected", "closing"}

\* The page shows the open conversation; no history was asked for before one
\* was open, since setMessages would then show any conversation.
PageHolds(c) ==
    /\ \A i \in DOMAIN c.page : c.page[i].chat = c.active
    /\ c.active = NoChat => \A request \in c.pending : request.type # "history"

ClientHolds(c) == c \in Clients /\ StatusHolds(c) /\ PageHolds(c)

\* A status mark keeps a bubble's conversation.
LEMMA MarkLatestHolds ==
    ASSUME NEW c \in Clients, PageHolds(c), NEW status \in Statuses
    PROVE  /\ MarkLatest(c, status) \in Clients /\ PageHolds(MarkLatest(c, status))
           /\ StatusHolds(c) => StatusHolds(MarkLatest(c, status))
           /\ MarkLatest(c, status).socket = c.socket /\ MarkLatest(c, status).online = c.online
<1> DEFINE sending == {i \in DOMAIN c.page : c.page[i].status = "sending"}
           p == [i \in DOMAIN c.page |->
                   IF i \in sending /\ \A j \in sending : j <= i
                   THEN [c.page[i] EXCEPT !.status = status] ELSE c.page[i]]
           d == [c EXCEPT !.page = p]
<1>1. MarkLatest(c, status) = d
  BY DEF MarkLatest, Clients
<1>2. c.page \in Seq(Bubbles)
  BY DEF Clients
<1>3. \A i \in DOMAIN c.page : p[i] \in Bubbles /\ p[i].chat = c.page[i].chat
  <2> SUFFICES ASSUME NEW i \in DOMAIN c.page
               PROVE  p[i] \in Bubbles /\ p[i].chat = c.page[i].chat
    BY Zenon
  <2>1. PICK b \in Bubbles : c.page[i] = b
    BY <1>2
  <2>2. p[i] \in {b, [b EXCEPT !.status = status]}
    BY <2>1
  <2> HIDE DEF p
  <2>3. QED
    BY <2>1, <2>2 DEF Bubbles
<1>4. p \in Seq(Bubbles) /\ DOMAIN p = DOMAIN c.page
  <2>1. Len(c.page) \in Nat /\ DOMAIN c.page = 1..Len(c.page) /\ DOMAIN p = DOMAIN c.page
    BY <1>2
  <2>2. p = [i \in 1..Len(c.page) |-> p[i]]
    BY <2>1
  <2> HIDE DEF p
  <2>3. \A i \in 1..Len(c.page) : p[i] \in Bubbles
    BY <1>3, <2>1
  <2>4. QED
    BY <2>1, <2>2, <2>3, FunctionIsSeq
<1> HIDE DEF p
<1>5. d \in Clients
  BY <1>4 DEF Clients
<1>6. PageHolds(d)
  BY <1>3, <1>4 DEF PageHolds, Clients
<1>7. d.socket = c.socket /\ d.online = c.online /\ (StatusHolds(c) => StatusHolds(d))
  BY DEF StatusHolds, Clients
<1>8. QED
  BY <1>1, <1>5, <1>6, <1>7

\* The socket's disconnected signal: the status goes to offline.
LEMMA DisconnectedHolds ==
    ASSUME NEW c \in Clients, PageHolds(c)
    PROVE  /\ ClientHolds(Disconnected(c))
           /\ ~Disconnected(c).online /\ ~Disconnected(c).beating
<1> DEFINE d == [c EXCEPT !.socket = "unconnected", !.inflight = {}, !.stale = c.codec # "fresh",
                          !.online = FALSE]
           e == [d EXCEPT !.beating = FALSE]
           f == [e EXCEPT !.autoUsed = TRUE, !.timer = TRUE]
<1>1. d \in Clients /\ PageHolds(d) /\ ~d.online
  BY ZenonT(60) DEF Clients, PageHolds
<1> HIDE DEF d
<1>2. e \in Clients /\ PageHolds(e) /\ ~e.online /\ ~e.beating
  BY <1>1, Zenon DEF Clients, PageHolds
<1> HIDE DEF e
<1>3. f \in Clients /\ PageHolds(f) /\ ~f.online /\ ~f.beating
  BY <1>2, Zenon DEF Clients, PageHolds
<1> HIDE DEF f
<1>4. Disconnected(c) \in {e, f}
  BY DEF Disconnected, ScheduleAutoReconnect, StopHeartbeat, d, e, f
<1>5. QED
  BY <1>2, <1>3, <1>4 DEF ClientHolds, StatusHolds

\* A request that ends with an error leaves the status and the page.
LEMMA FinishWithErrorHolds ==
    ASSUME NEW c, ClientHolds(c)
    PROVE  /\ ClientHolds(FinishWithError(c))
           /\ FinishWithError(c).socket = c.socket /\ FinishWithError(c).online = c.online
  BY Zenon DEF FinishWithError, ClientHolds, Clients, StatusHolds, PageHolds

\* The socket's error signal, with or without a disconnect.
LEMMA ErrorOccurredHolds ==
    ASSUME NEW c, ClientHolds(c)
    PROVE  /\ ClientHolds(ErrorOccurred(c))
           /\ ErrorOccurred(c).socket = c.socket /\ ~ErrorOccurred(c).online
<1> DEFINE shown == [c EXCEPT !.online = StatusAfterError(c)]
           d == IF c.action = "none" /\ ~c.busy THEN shown ELSE FinishWithError(shown)
<1>1. ClientHolds(shown) /\ shown.socket = c.socket /\ ~shown.online
  BY Zenon DEF StatusAfterError, ClientHolds, Clients, StatusHolds, PageHolds
<1>2. ErrorOccurred(c) = MarkLatest(d, "failed")
  BY DEF ErrorOccurred, RequestFailed
<1> HIDE DEF shown
<1>3. ClientHolds(d) /\ d.socket = c.socket /\ ~d.online
  BY <1>1, FinishWithErrorHolds
<1> HIDE DEF d
<1>4. QED
  BY <1>2, <1>3, MarkLatestHolds DEF ClientHolds, Statuses

\* The heartbeat timer touches neither status nor page.
LEMMA StartHeartbeatHolds ==
    ASSUME NEW c, ClientHolds(c)
    PROVE  ClientHolds(StartHeartbeat(c))
  BY Zenon DEF StartHeartbeat, ClientHolds, Clients, StatusHolds, PageHolds

\* connectToHost, which may abort a socket in use first.
LEMMA ConnectToHostHolds ==
    ASSUME NEW c, ClientHolds(c)
    PROVE  ClientHolds(ConnectToHost(c))
<1> DEFINE aborted == IF c.socket \in {"connected", "closing"} THEN Disconnected(c) ELSE c
           d == [c EXCEPT !.socket = "connecting"]
           e == [aborted EXCEPT !.socket = "connecting", !.codec = "fresh", !.stale = FALSE]
<1>1. ClientHolds(aborted) /\ ~aborted.online /\ ~aborted.beating
  <2>1. CASE c.socket \in {"connected", "closing"}
    BY <2>1, DisconnectedHolds DEF ClientHolds
  <2>2. CASE c.socket \notin {"connected", "closing"}
    BY <2>2 DEF ClientHolds, StatusHolds
  <2>3. QED
    BY <2>1, <2>2
<1> HIDE DEF aborted
<1>2. ClientHolds(e)
  BY <1>1, Zenon DEF ClientHolds, Clients, StatusHolds, PageHolds
<1>3. CASE c.socket = "unconnected"
  <2>1. ClientHolds(d)
    BY <1>3 DEF ClientHolds, Clients, StatusHolds, PageHolds
  <2>2. QED
    BY <1>3, <2>1 DEF ConnectToHost
<1>4. CASE c.socket # "unconnected"
  <2>1. ConnectToHost(c) = e
    BY <1>4 DEF ConnectToHost, aborted
  <2>2. QED
    BY <1>2, <2>1
<1>5. QED
  BY <1>3, <1>4

\* The reconnect timer.
LEMMA ReconnectHolds ==
    ASSUME NEW c, ClientHolds(c)
    PROVE  ClientHolds(Reconnect(c))
<1>1. ClientHolds([c EXCEPT !.online = FALSE])
  BY Zenon DEF ClientHolds, Clients, StatusHolds, PageHolds
<1>2. QED
  BY <1>1, ConnectToHostHolds DEF Reconnect

\* A failed send uses up a sequence number.
LEMMA SkipSeqHolds ==
    ASSUME NEW c, ClientHolds(c)
    PROVE  ClientHolds(SkipSeq(c))
<1>1. c \in Clients /\ c.seq + 1 \in Nat
  BY DEF ClientHolds, Clients
<1>2. PICK n \in Nat : n = c.seq + 1
  BY <1>1
<1>3. SkipSeq(c) = [c EXCEPT !.seq = n]
  BY <1>2 DEF SkipSeq
<1>4. QED
  BY <1>1, <1>3 DEF ClientHolds, Clients, StatusHolds, PageHolds

\* A history request is only made for an open conversation.
LEMMA TrackHolds ==
    ASSUME NEW c, ClientHolds(c), NEW chat \in Chats \cup {NoChat},
           NEW type \in {"login", "register", "heartbeat", "message", "history"},
           type = "history" => c.active # NoChat
    PROVE  ClientHolds(Track(c, type, chat))
<1> DEFINE r == [seq |-> c.seq + 1, type |-> type, chat |-> chat]
           d == [c EXCEPT !.seq = @ + 1, !.pending = @ \cup {r}, !.inflight = @ \cup {c.seq + 1}]
<1>1. c \in Clients /\ c.seq \in Nat /\ c.pending \in SUBSET Requests /\ c.inflight \in SUBSET Nat
  BY DEF ClientHolds, Clients
<1>2. r \in Requests /\ r.type = type
  BY <1>1 DEF Requests
<1>3. Track(c, type, chat) = d
  BY DEF Track
<1> HIDE DEF r
<1>4. c.seq + 1 \in Nat /\ c.pending \cup {r} \in SUBSET Requests
      /\ c.inflight \cup {c.seq + 1} \in SUBSET Nat
  BY <1>1, <1>2
<1>5. d \in Clients
  BY <1>1, <1>4, Zenon DEF Clients
<1>6. StatusHolds(d)
  BY <1>1 DEF ClientHolds, Clients, StatusHolds
<1>7. PageHolds(d)
  <2>1. d.page = c.page /\ d.active = c.active /\ d.pending = c.pending \cup {r}
    BY <1>1 DEF Clients
  <2>2. QED
    BY <1>2, <2>1 DEF ClientHolds, PageHolds
<1>8. QED
  BY <1>3, <1>5, <1>6, <1>7 DEF ClientHolds

\* AuthController::sendPendingRequest, once there is a connection.
LEMMA SendPendingRequestHolds ==
    ASSUME NEW c, ClientHolds(c), NEW d \in SendPendingRequest(c)
    PROVE  ClientHolds(d)
<1>1. c.action \in {"none", "login", "register"}
  BY DEF ClientHolds, Clients
<1>2. ClientHolds(FinishWithError(SkipSeq(c)))
  BY SkipSeqHolds, FinishWithErrorHolds
<1>3. c.action # "none" => ClientHolds(Track(c, c.action, NoChat))
  BY <1>1, TrackHolds
<1>4. QED
  BY <1>2, <1>3 DEF SendPendingRequest, SendPacket

\* A chat request adds to the pending ones only a request of its type.
LEMMA SendChatHolds ==
    ASSUME NEW c, ClientHolds(c), c.active # NoChat,
           NEW type \in {"message", "history"}, NEW d \in SendChat(c, type, c.active)
    PROVE  ClientHolds(d)
<1>1. ClientHolds(SkipSeq(c)) 
  BY SkipSeqHolds
<1>2. ClientHolds(RequestFailed(SkipSeq(c)))
  BY <1>1, MarkLatestHolds DEF RequestFailed, ClientHolds, Statuses
<1>3. ClientHolds(RequestFailed(c)) /\ ClientHolds(RequestFailed(RequestFailed(SkipSeq(c))))
  BY <1>2, MarkLatestHolds DEF RequestFailed, ClientHolds, Statuses
<1>4. ClientHolds(Track(c, type, c.active))
  <2>1. c.active \in Chats \cup {NoChat}
    BY DEF ClientHolds, Clients
  <2>2. QED
    BY <2>1, TrackHolds
<1>5. QED
  BY <1>3, <1>4 DEF SendChat, SendPacket

\* An answer arrives on a connected socket.
LEMMA TakeHolds ==
    ASSUME ClientHolds(client), Decodes, NEW request \in client.pending
    PROVE  /\ ClientHolds(Decoded) /\ ClientHolds(Take(request))
           /\ Take(request).socket = "connected" /\ Take(request).active = client.active
           /\ Decoded.active = client.active
<1>1. client \in Clients /\ client.pending \in SUBSET Requests /\ client.inflight \in SUBSET Nat
  BY DEF ClientHolds, Clients
<1>2. ClientHolds(Decoded) /\ Decoded.socket = "connected" /\ Decoded.active = client.active
      /\ Decoded.pending = client.pending /\ Decoded.inflight = client.inflight
  BY DEF Decodes, Decoded, ClientHolds, Clients, StatusHolds, PageHolds
<1>3. Take(request) = [Decoded EXCEPT !.pending = client.pending \ {request},
                                      !.inflight = client.inflight \ {request.seq}]
  BY <1>2 DEF Take, ClientHolds, Clients
<1>4. Take(request) \in Clients /\ StatusHolds(Take(request)) /\ Take(request).socket = "connected"
      /\ Take(request).active = client.active /\ Take(request).page = Decoded.page
      /\ Take(request).pending = client.pending \ {request}
  BY <1>1, <1>2, <1>3, ZenonT(60) DEF ClientHolds, Clients, StatusHolds
<1>5. PageHolds(Take(request))
  BY <1>2, <1>4 DEF ClientHolds, PageHolds
<1>6. QED
  BY <1>2, <1>4, <1>5 DEF ClientHolds

\* A login or registration, which connects first when it must.
LEMMA StartRequestHolds ==
    ASSUME ClientHolds(client), NEW action \in {"login", "register"}, StartRequest(action)
    PROVE  ClientHolds(client')
<1> DEFINE c == SetConnectionEndpoint([client EXCEPT !.action = action, !.busy = TRUE])
<1>1. ClientHolds(c)
  <2> DEFINE d == [client EXCEPT !.action = action, !.busy = TRUE]
  <2>1. ClientHolds(d)
    BY Zenon DEF ClientHolds, Clients, StatusHolds, PageHolds
  <2> HIDE DEF d
  <2>2. ClientHolds([d EXCEPT !.autoUsed = FALSE])
    BY <2>1, ZenonT(60) DEF ClientHolds, Clients, StatusHolds, PageHolds
  <2>3. QED
    BY <2>2 DEF SetConnectionEndpoint, d
<1>2. client' \in SendPendingRequest(c) \/ client' = ConnectToHost(c)
  BY DEF StartRequest
<1> HIDE DEF c
<1>3. QED
  BY <1>1, <1>2, SendPendingRequestHolds, ConnectToHostHolds

\* The events of the connection.
LEMMA ConnectionHolds ==
    ASSUME ClientHolds(client),
           \/ ReconnectClicked \/ AutoReconnect \/ SocketConnected
           \/ ConnectFails \/ ConnectionEnds \/ ReadPart \/ ReadBad
    PROVE  ClientHolds(client')
<1>1. CASE ReconnectClicked
  BY <1>1, ReconnectHolds DEF ReconnectClicked
<1>2. CASE AutoReconnect
  <2> DEFINE c == [client EXCEPT !.timer = FALSE]
  <2>1. ClientHolds(c)
    BY Zenon DEF ClientHolds, Clients, StatusHolds, PageHolds
  <2>2. client' \in {c, Reconnect(c)}
    BY <1>2 DEF AutoReconnect
  <2> HIDE DEF c
  <2>3. QED
    BY <2>1, <2>2, ReconnectHolds
<1>3. CASE SocketConnected
  <2> DEFINE c == [client EXCEPT !.socket = "connected", !.online = TRUE]
  <2>1. ClientHolds(c)
    BY <1>3, Zenon DEF SocketConnected, ClientHolds, Clients, StatusHolds, PageHolds
  <2>2. client' \in SendPendingRequest(StartHeartbeat(c))
    BY <1>3 DEF SocketConnected
  <2> HIDE DEF c
  <2>3. QED
    BY <2>1, <2>2, StartHeartbeatHolds, SendPendingRequestHolds
<1>4. CASE ConnectFails
  <2> DEFINE c == [client EXCEPT !.socket = "unconnected"]
  <2>1. ClientHolds(c)
    BY <1>4, Zenon DEF ConnectFails, ClientHolds, Clients, StatusHolds, PageHolds
  <2>2. client' = ErrorOccurred(c)
    BY <1>4 DEF ConnectFails
  <2> HIDE DEF c
  <2>3. QED
    BY <2>1, <2>2, ErrorOccurredHolds
<1>5. CASE ConnectionEnds
  <2>1. ClientHolds(ErrorOccurred(client))
    BY ErrorOccurredHolds
  <2>2. QED
    BY <1>5, <2>1, DisconnectedHolds DEF ConnectionEnds, ClientHolds
<1>6. CASE ReadPart
  BY <1>6, Zenon DEF ReadPart, ClientHolds, Clients, StatusHolds, PageHolds
<1>7. CASE ReadBad
  <2> DEFINE c == [client EXCEPT !.codec = "error"]
             d == ErrorOccurred(c)
  <2>1. ClientHolds(c) /\ c.socket = client.socket
    BY DEF ClientHolds, Clients, StatusHolds, PageHolds
  <2> HIDE DEF c
  <2>2. ClientHolds(d) /\ d.socket = client.socket /\ ~d.online
    BY <2>1, ErrorOccurredHolds
  <2>3. client' = [d EXCEPT !.socket = "closing"] /\ client.socket \in {"connected", "closing"}
    BY <1>7 DEF ReadBad, c
  <2> HIDE DEF d
  <2>4. QED
    BY <2>2, <2>3, Zenon DEF ClientHolds, Clients, StatusHolds, PageHolds
<1>8. QED
  BY <1>1, <1>2, <1>3, <1>4, <1>5, <1>6, <1>7

\* A response, matched with its pending request; a history replaces the page.
LEMMA AnswerHolds ==
    ASSUME ClientHolds(client), NEW request \in client.pending,
           \/ HeartbeatAnswered(request) \/ AuthAnswered(request)
           \/ MessageAnswered(request) \/ HistoryAnswered(request)
    PROVE  ClientHolds(client')
<1> DEFINE c == Take(request)
<1>0. Decodes /\ request.type \in {"heartbeat", "login", "register", "message", "history"}
  BY DEF HeartbeatAnswered, AuthAnswered, MessageAnswered, HistoryAnswered, Answered
<1>1. ClientHolds(c) /\ c.socket = "connected" /\ c.active = client.active
  BY <1>0, TakeHolds
<1>2. CASE HeartbeatAnswered(request)
  <2>1. client' = [c EXCEPT !.online = TRUE]
    BY <1>2 DEF HeartbeatAnswered
  <2> HIDE DEF c
  <2>2. QED
    BY <1>1, <2>1, Zenon DEF ClientHolds, Clients, StatusHolds, PageHolds
<1>3. CASE AuthAnswered(request)
  <2> DEFINE d == FinishWithError(c)
             e == [d EXCEPT !.loggedIn = TRUE]
  <2>1. client' \in {d, StartHeartbeat(e)}
    BY <1>3 DEF AuthAnswered
  <2> HIDE DEF c
  <2>2. ClientHolds(d)
    BY <1>1, FinishWithErrorHolds
  <2> HIDE DEF d
  <2>3. ClientHolds(e)
    BY <2>2, Zenon DEF ClientHolds, Clients, StatusHolds, PageHolds
  <2>4. QED
    BY <2>1, <2>2, <2>3, StartHeartbeatHolds
<1>4. CASE MessageAnswered(request)
  <2>1. client' \in {c, MarkLatest(c, "failed"), MarkLatest(c, "sent")}
    BY <1>4 DEF MessageAnswered, RequestFailed, HandleDeliveredMessage
  <2> HIDE DEF c
  <2>2. QED
    BY <1>1, <2>1, MarkLatestHolds DEF ClientHolds, Statuses
<1>5. CASE HistoryAnswered(request)
  <2>1. client.active # NoChat /\ request.chat \in Chats \cup {NoChat}
    BY <1>5 DEF HistoryAnswered, Answered, ClientHolds, PageHolds, Clients, Requests
  <2>2. ASSUME NEW n \in 0..MaxPage, client' = [c EXCEPT !.page = SetMessages(request.chat, n)]
        PROVE  ClientHolds(client')
    <3> DEFINE p == SetMessages(request.chat, n)
               m == IF client.active \in {NoChat, request.chat} THEN n ELSE 0
    <3>1. m \in Nat /\ p = [i \in 1..m |-> Bubble(request.chat, "received")]
      BY <2>2, ClientAssumption DEF SetMessages
    <3>2. /\ Bubble(request.chat, "received") \in Bubbles
          /\ Bubble(request.chat, "received").chat = request.chat
      BY <2>1 DEF Bubble, Bubbles, Statuses
    <3>3. \A i \in DOMAIN p : p[i].chat = client.active
      BY <2>1, <3>1, <3>2
    <3> HIDE DEF m
    <3>4. p \in Seq(Bubbles)
      BY <3>1, <3>2, FunctionIsSeq
    <3> HIDE DEF p, c
    <3>5. QED
      BY <1>1, <2>2, <3>3, <3>4, Zenon DEF p, ClientHolds, Clients, StatusHolds, PageHolds
  <2>3. QED
    BY <1>1, <1>5, <2>2, MarkLatestHolds DEF HistoryAnswered, RequestFailed, ClientHolds, Statuses
<1>6. QED
  BY <1>2, <1>3, <1>4, <1>5

\* A bubble of the open conversation is put at the end of the page.
LEMMA AppendMessageHolds ==
    ASSUME NEW c, ClientHolds(c), NEW status \in Statuses
    PROVE  /\ ClientHolds(AppendMessage(c, Bubble(c.active, status)))
           /\ AppendMessage(c, Bubble(c.active, status)).active = c.active
<1> DEFINE b == Bubble(c.active, status)
           p == Append(c.page, b)
<1>1. c \in Clients /\ c.page \in Seq(Bubbles)
  BY DEF ClientHolds, Clients
<1>2. b \in Bubbles /\ b.chat = c.active
  BY <1>1 DEF Bubble, Bubbles, Clients
<1>3. AppendMessage(c, b) = [c EXCEPT !.page = p]
  BY <1>1, <1>2 DEF AppendMessage, Clients
<1> HIDE DEF b
<1>4. p \in Seq(Bubbles) /\ \A i \in DOMAIN p : p[i].chat = c.active
  BY <1>1, <1>2 DEF ClientHolds, PageHolds
<1> HIDE DEF p
<1>5. ClientHolds([c EXCEPT !.page = p]) /\ [c EXCEPT !.page = p].active = c.active
  BY <1>1, <1>4, Zenon DEF ClientHolds, Clients, StatusHolds, PageHolds
<1>6. QED
  BY <1>3, <1>5 DEF b

\* A pushed message enters the page of its own conversation only.
LEMMA MessagePushedHolds ==
    ASSUME ClientHolds(client), NEW chat \in Chats, MessagePushed(chat)
    PROVE  ClientHolds(client')
<1> DEFINE c == Decoded
           d == ApplyIncomingMessage(c, chat)
<1>1. ClientHolds(c)
  BY Zenon DEF MessagePushed, Decodes, Decoded, ClientHolds, Clients, StatusHolds, PageHolds
<1>2. \/ client' \in {MarkLatest(c, "failed"), d}
      \/ client' = AppendMessage(d, Bubble(chat, "received")) /\ chat = c.active
  BY DEF MessagePushed, HandleIncomingMessage, RequestFailed
<1> HIDE DEF c
<1>3. ClientHolds(d) /\ d.active = c.active
  <2>1. c \in Clients /\ c.unread \in [Chats -> Nat] /\ c.strays \in SUBSET Chats
    BY <1>1 DEF ClientHolds, Clients
  <2> DEFINE u == [c.unread EXCEPT ![chat] = IF chat = c.active THEN @ ELSE @ + 1]
             y == IF chat \in Listed THEN c.strays ELSE c.strays \cup {chat}
  <2>2. u \in [Chats -> Nat] /\ y \in SUBSET Chats
    BY <2>1
  <2>3. d = [c EXCEPT !.unread = u, !.strays = y]
    BY <2>1 DEF ApplyIncomingMessage, Clients
  <2> HIDE DEF u, y, d
  <2>4. QED
    BY <1>1, <2>1, <2>2, <2>3, Zenon DEF ClientHolds, Clients, StatusHolds, PageHolds
<1> HIDE DEF d
<1>4. ClientHolds(MarkLatest(c, "failed"))
  BY <1>1, MarkLatestHolds DEF ClientHolds, Statuses
<1>5. chat = c.active => ClientHolds(AppendMessage(d, Bubble(chat, "received")))
  BY <1>3, AppendMessageHolds DEF Statuses
<1>6. QED
  BY <1>2, <1>3, <1>4, <1>5

\* Opening a conversation empties the page and asks for its history.
LEMMA OpenConversationHolds ==
    ASSUME ClientHolds(client), NEW chat \in Chats, OpenConversation(chat)
    PROVE  ClientHolds(client')
<1>1. PICK target \in BOOLEAN :
         client' \in RequestHistory(OpenPage(MarkConversationRead(client, chat), chat, target))
  BY DEF OpenConversation
<1> DEFINE c == MarkConversationRead(client, chat)
           d == OpenPage(c, chat, target)
<1>2. c = [client EXCEPT !.unread = [client.unread EXCEPT ![chat] = 0]]
  BY DEF MarkConversationRead, ClientHolds, Clients
<1>3. ClientHolds(c)
  <2>1. [client.unread EXCEPT ![chat] = 0] \in [Chats -> Nat]
    BY DEF ClientHolds, Clients
  <2>2. PICK u \in [Chats -> Nat] : u = [client.unread EXCEPT ![chat] = 0]
    BY <2>1, Zenon
  <2> HIDE DEF c
  <2>3. QED
    BY <1>2, <2>2, Zenon DEF ClientHolds, Clients, StatusHolds, PageHolds
<1> HIDE DEF c
<1>4. ClientHolds(d) /\ d.active # NoChat
  <2>1. d.page = <<>> /\ d.active = chat /\ chat # NoChat /\ d \in Clients
    <3>1. PICK p \in Seq(Bubbles) : p = <<>>
      <4>1. <<>> \in Seq(Bubbles)
        OBVIOUS
      <4>2. QED
        BY <4>1, Zenon
    <3>2. d = [c EXCEPT !.active = chat, !.target = target, !.page = p]
      BY <3>1 DEF OpenPage
    <3> HIDE DEF d
    <3>3. d.page = p /\ d.active = chat /\ d \in Clients
      BY <1>3, <3>2, Zenon DEF ClientHolds, Clients
    <3>4. QED
      BY <3>1, <3>3, ClientAssumption
  <2>2. StatusHolds(d)
    BY <1>3 DEF OpenPage, ClientHolds, Clients, StatusHolds
  <2> HIDE DEF d
  <2>3. PageHolds(d)
    BY <2>1 DEF PageHolds
  <2>4. QED
    BY <2>1, <2>2, <2>3 DEF ClientHolds
<1>5. client' \in RequestHistory(d)
  BY <1>1 DEF c
<1> HIDE DEF d
<1>6. QED
  BY <1>4, <1>5, SendChatHolds DEF RequestHistory, SendHistoryRequest

\* A message sent shows as a bubble of the open conversation.
LEMMA SendHolds ==
    ASSUME ClientHolds(client), SendHeartbeat \/ LoadEarlier \/ SendMessage
    PROVE  ClientHolds(client')
<1>1. CASE SendHeartbeat
  <2> DEFINE c == SkipSeq(client)
  <2>1. ClientHolds(c)
    BY SkipSeqHolds
  <2>2. client' = [c EXCEPT !.online = FALSE] \/ client' = Track(client, "heartbeat", NoChat)
    BY <1>1 DEF SendHeartbeat, SendPacket
  <2> HIDE DEF c
  <2>3. ClientHolds([c EXCEPT !.online = FALSE])
    BY <2>1, ZenonT(60) DEF ClientHolds, Clients, StatusHolds, PageHolds
  <2>4. ClientHolds(Track(client, "heartbeat", NoChat))
    BY TrackHolds
  <2>5. QED
    BY <2>2, <2>3, <2>4, Zenon
<1>2. CASE LoadEarlier
  BY <1>2, SendChatHolds DEF LoadEarlier, RequestHistory, SendHistoryRequest
<1>3. CASE SendMessage
  <2> DEFINE c == AppendMessage(client, Bubble(client.active, "sending"))
  <2>1. ClientHolds(c) /\ c.active # NoChat
    BY <1>3, AppendMessageHolds, Zenon DEF SendMessage, Statuses
  <2>2. client' \in SendText(c)
    BY <1>3 DEF SendMessage
  <2> HIDE DEF c
  <2>3. QED
    BY <2>1, <2>2, SendChatHolds DEF SendText, SendMessageRequest
<1>4. QED
  BY <1>1, <1>2, <1>3

\* The client after construction.
LEMMA ClientHoldsInit == ClientInit => ClientHolds(client)
<1> SUFFICES ASSUME ClientInit PROVE ClientHolds(client)
  OBVIOUS
<1>1. client \in Clients
  BY DEF ClientInit, Clients
<1>2. ~client.online /\ ~client.beating /\ client.page = <<>> /\ client.pending = {}
  BY DEF ClientInit
<1>3. QED
  BY <1>1, <1>2 DEF ClientHolds, StatusHolds, PageHolds

\* Every event of the Qt client.
LEMMA ClientHoldsNext == ClientHolds(client) /\ [ClientNext]_clientVars => ClientHolds(client)'
<1> SUFFICES ASSUME ClientHolds(client), [ClientNext]_clientVars PROVE ClientHolds(client')
  OBVIOUS
<1>1. CASE UNCHANGED clientVars
  BY <1>1 DEF clientVars
<1>2. CASE ClientNext
  BY <1>2, StartRequestHolds, ConnectionHolds, AnswerHolds, MessagePushedHolds,
     OpenConversationHolds, SendHolds DEF ClientNext
<1>3. QED
  BY <1>1, <1>2

\* For any conversations and any number of connections and requests: the status
\* shows Online only while the socket is connected, and the heartbeat of
\* ClientRuntime runs only after a login on a connection that has not ended.
THEOREM OnlineOnlyWhileConnected == ClientSpec => []OnlineMeansConnected
<1>1. ClientHolds(client) => OnlineMeansConnected
  BY DEF ClientHolds, StatusHolds, OnlineMeansConnected
<1>2. QED
  BY ClientHoldsInit, ClientHoldsNext, <1>1, PTL DEF ClientSpec

\* The chat page shows messages of the open conversation only, whatever history
\* or push arrives after the user has opened another one.
THEOREM PageNeverMixesChats == ClientSpec => []PageShowsOpenChat
<1>1. ClientHolds(client) => PageShowsOpenChat
  BY DEF ClientHolds, PageHolds, PageShowsOpenChat
<1>2. QED
  BY ClientHoldsInit, ClientHoldsNext, <1>1, PTL DEF ClientSpec

=============================================================================
