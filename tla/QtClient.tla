------------------------------- MODULE QtClient -------------------------------
(***************************************************************************)
(* The Qt client: TcpClient with its decoder, ClientSession, ClientRuntime *)
(* (status, heartbeat, one automatic reconnect), AuthController, and       *)
(* ChatController with the chat page and the conversation list.            *)
(*                                                                         *)
(* Everything runs on the GUI thread.  A signal calls its slots at once,   *)
(* in the order in which they were connected, so an event and all it       *)
(* triggers is one step, written as functions from client to client.  The  *)
(* server answers requests in any order, or never when the connection ends.*)
(* QTcpSocket is taken from how TcpClient uses it.                         *)
(***************************************************************************)
EXTENDS Naturals, Sequences

CONSTANTS
    Chats,          \* conversations
    Contacts,       \* those in the contact and group lists
    Listed,         \* those the conversation list starts with
    NoChat,
    MaxSeq,         \* bound: requests sent
    MaxPage,        \* bound: bubbles on the page
    MaxConnects     \* bound: connections opened

ASSUME ClientAssumption ==
    /\ NoChat \notin Chats /\ Contacts \subseteq Chats /\ Listed \subseteq Chats
    /\ MaxSeq \in Nat /\ MaxPage \in Nat /\ MaxConnects \in Nat

VARIABLES
    client,     \* the objects of the client, see ClientInit
    connects    \* counts the connections opened

clientVars == <<client, connects>>

ClientInit ==
    /\ connects = 0
    /\ client = [socket |-> "unconnected", codec |-> "fresh", stale |-> FALSE,   \* TcpClient
                 seq |-> 0, pending |-> {}, inflight |-> {}, loggedIn |-> FALSE, \* ClientSession
                 online |-> FALSE, beating |-> FALSE, autoUsed |-> FALSE,        \* ClientRuntime
                 timer |-> FALSE,
                 action |-> "none", busy |-> FALSE,                              \* AuthController
                 active |-> NoChat, target |-> FALSE, page |-> <<>>,             \* MainWindow, ChatPage
                 unread |-> [c \in Chats |-> 0], strays |-> {}]                  \* ConversationModel

-----------------------------------------------------------------------------
Bubble(chat, status) == [chat |-> chat, status |-> status]

\* ChatPage::openConversation, with target: whether the item that was clicked
\* carries the peer's id.
OpenPage(c, chat, target) == [c EXCEPT !.active = chat, !.target = target, !.page = <<>>]

\* ChatPage::appendMessage: a message of another conversation is not shown.
AppendMessage(c, bubble) ==
    IF c.active \in {NoChat, bubble.chat} THEN [c EXCEPT !.page = Append(@, bubble)] ELSE c

\* ConversationModel::applyIncomingMessage: unread unless it is the open chat.
\* An item that is made for the message has no target id.
ApplyIncomingMessage(c, chat) ==
    [c EXCEPT !.unread[chat] = IF chat = c.active THEN @ ELSE @ + 1,
              !.strays = IF chat \in Listed THEN @ ELSE @ \cup {chat}]

\* ConversationModel::markConversationRead.
MarkConversationRead(c, chat) == [c EXCEPT !.unread[chat] = 0]

\* ChatPage::earliestMessageId finds one: only saved messages have an id.
HasEarliestMessage(c) == \E i \in DOMAIN c.page : c.page[i].status = "received"

\* ChatPage::markLatestOutgoingStatus: the last bubble that is still sending.
MarkLatest(c, status) ==
    LET sending == {i \in DOMAIN c.page : c.page[i].status = "sending"}
    IN  [c EXCEPT !.page = [i \in DOMAIN @ |->
            IF i \in sending /\ \A j \in sending : j <= i THEN [@[i] EXCEPT !.status = status] ELSE @[i]]]

\* ChatController::requestFailed, shown by MainWindow::handleRequestFailed.
RequestFailed(c) == MarkLatest(c, "failed")

\* trackRequest with a packet that was sent, or whose sending failed and which
\* takePending has forgotten again.
Track(c, type, chat) ==
    [c EXCEPT !.seq = @ + 1,
              !.pending = @ \cup {[seq |-> c.seq + 1, type |-> type, chat |-> chat]},
              !.inflight = @ \cup {c.seq + 1}]
SkipSeq(c) == [c EXCEPT !.seq = @ + 1]

\* TcpClient::sendPacket that succeeds: only a connected socket takes a packet.
SendPacket(c, type, chat) == {sent \in {Track(c, type, chat)} : c.socket = "connected"}

\* AuthController::finishWithError.
FinishWithError(c) == [c EXCEPT !.action = "none", !.busy = FALSE]

\* The outcomes of AuthController::sendPendingRequest.
SendPendingRequest(c) ==
    IF c.action = "none" THEN {c}
    ELSE {FinishWithError(SkipSeq(c))} \cup SendPacket(c, c.action, NoChat)

\* Variant: an error leaves the status alone.
StatusAfterErrorKept(c) == c.online

\* ClientRuntime::handleTransportError puts the status to "Connection error".
StatusAfterError(c) == FALSE

\* errorOccurred: the slots of the runtime, AuthController and ChatController.
ErrorOccurred(c) ==
    LET shown == [c EXCEPT !.online = StatusAfterError(c)]
    IN  RequestFailed(IF c.action = "none" /\ ~c.busy THEN shown ELSE FinishWithError(shown))

\* ClientRuntime::startHeartbeat and stopHeartbeat.
StartHeartbeat(c) == [c EXCEPT !.beating = @ \/ (c.socket = "connected" /\ c.loggedIn)]
StopHeartbeat(c) == [c EXCEPT !.beating = FALSE]

\* ClientRuntime::scheduleAutoReconnect: once, and only after a login.
ScheduleAutoReconnect(c) ==
    IF c.loggedIn /\ ~c.autoUsed THEN [c EXCEPT !.autoUsed = TRUE, !.timer = TRUE] ELSE c

\* disconnected: ClientRuntime::handleDisconnected.  What was under way on the
\* connection is lost; the decoder is left alone.
Disconnected(c) ==
    ScheduleAutoReconnect(StopHeartbeat(
        [c EXCEPT !.socket = "unconnected", !.inflight = {}, !.stale = c.codec # "fresh",
                  !.online = FALSE]))

\* TcpClient::connectToHost aborts a socket in use and resets the decoder;
\* abort() signals disconnected when there was a connection.
ConnectToHost(c) ==
    LET aborted == IF c.socket \in {"connected", "closing"} THEN Disconnected(c) ELSE c
    IN  IF c.socket = "unconnected" THEN [c EXCEPT !.socket = "connecting"]
        ELSE [aborted EXCEPT !.socket = "connecting", !.codec = "fresh", !.stale = FALSE]

\* ClientRuntime::setConnectionEndpoint allows one automatic reconnect again.
SetConnectionEndpoint(c) == [c EXCEPT !.autoUsed = FALSE]

\* ClientRuntime::reconnect.
Reconnect(c) == ConnectToHost([c EXCEPT !.online = FALSE])

-----------------------------------------------------------------------------
\* The login and register buttons, both disabled while busy(), in a window that
\* is closed after the login.
StartRequest(action) ==
    /\ ~client.loggedIn /\ ~client.busy
    /\ connects < MaxConnects /\ client.seq < MaxSeq
    /\ LET c == SetConnectionEndpoint([client EXCEPT !.action = action, !.busy = TRUE])
       IN  \/ /\ c.socket = "connected"    \* and the same server was entered
              /\ client' \in SendPendingRequest(c)
              /\ UNCHANGED connects
           \/ /\ client' = ConnectToHost(c)
              /\ connects' = connects + 1

\* The reconnect button of the main window, and the single-shot timer.
ReconnectClicked ==
    /\ client.loggedIn /\ ~client.online /\ connects < MaxConnects
    /\ client' = Reconnect(client)
    /\ connects' = connects + 1

AutoReconnect ==
    /\ client.timer /\ connects < MaxConnects
    /\ LET c == [client EXCEPT !.timer = FALSE]
       IN  \/ /\ c.socket = "connected"
              /\ client' = c
              /\ UNCHANGED connects
           \/ /\ c.socket # "connected"
              /\ client' = Reconnect(c)
              /\ connects' = connects + 1

\* connected: handleConnected of the runtime, then sendPendingRequest.
SocketConnected ==
    /\ client.socket = "connecting" /\ client.seq < MaxSeq
    /\ client' \in SendPendingRequest(StartHeartbeat(
          [client EXCEPT !.socket = "connected", !.online = TRUE]))
    /\ UNCHANGED connects

ConnectFails ==
    /\ client.socket = "connecting"
    /\ client' = ErrorOccurred([client EXCEPT !.socket = "unconnected"])
    /\ UNCHANGED connects

\* The connection ends: closed by the peer, which handleSocketError ignores,
\* broken with an error, or closed by disconnectFromHost.
ConnectionEnds ==
    /\ client.socket \in {"connected", "closing"}
    /\ client' \in {Disconnected(client), Disconnected(ErrorOccurred(client))}
    /\ UNCHANGED connects

\* handleReadyRead.  Part of a frame stays in the decoder.
ReadPart ==
    /\ client.socket = "connected" /\ client.codec # "error"
    /\ client' = [client EXCEPT !.codec = "partial"]
    /\ UNCHANGED connects

\* Bytes that are no packet, or any bytes after an error, or behind the bytes
\* of an earlier connection.
ReadBad ==
    /\ client.socket \in {"connected", "closing"}
    /\ client' = [ErrorOccurred([client EXCEPT !.codec = "error"]) EXCEPT !.socket = "closing"]
    /\ UNCHANGED connects

\* A whole packet.  With bytes of an earlier connection before them the new ones
\* may make one that the server never sent.
Decodes == client.socket = "connected" /\ client.codec # "error"
Decoded == [client EXCEPT !.codec = "fresh"]

\* An answer to one of the requests on this connection, or what looks like one.
Answered(type, request) ==
    /\ Decodes
    /\ request \in client.pending /\ request.type = type
    /\ request.seq \in client.inflight \/ client.stale

Take(request) ==
    [Decoded EXCEPT !.pending = @ \ {request}, !.inflight = @ \ {request.seq}]

\* ClientRuntime::handlePacketReceived.
HeartbeatAnswered(request) ==
    /\ Answered("heartbeat", request)
    /\ client' = [Take(request) EXCEPT !.online = TRUE]
    /\ UNCHANGED connects

\* AuthController::handlePacketReceived: an error, or the result of the pending
\* action; a login also enables the automatic reconnect.
AuthAnswered(request) ==
    /\ Answered("login", request) \/ Answered("register", request)
    /\ client' \in
          {FinishWithError(Take(request)),
           IF client.action = "register" THEN FinishWithError(Take(request))
           ELSE StartHeartbeat([FinishWithError(Take(request)) EXCEPT !.loggedIn = TRUE])}
    /\ UNCHANGED connects

\* MainWindow::handleDeliveredMessage.
HandleDeliveredMessage(c, chat) == IF chat = c.active THEN MarkLatest(c, "sent") ELSE c

\* ChatController::handlePendingResponse: the answer to a message.
MessageAnswered(request) ==
    /\ Answered("message", request)
    /\ client' \in {RequestFailed(Take(request)),
                    HandleDeliveredMessage(Take(request), request.chat)}
    /\ UNCHANGED connects

\* Variant: the messages of any conversation are shown.
SetMessagesUnfiltered(chat, n) == [i \in 1..n |-> Bubble(chat, "received")]

\* ChatPage::setMessages: of the messages loaded, those of the open chat.
SetMessages(chat, n) ==
    [i \in 1..(IF client.active \in {NoChat, chat} THEN n ELSE 0) |-> Bubble(chat, "received")]

HistoryAnswered(request) ==
    /\ Answered("history", request)
    /\ \/ client' = RequestFailed(Take(request))
       \/ \E n \in 0..MaxPage : client' = [Take(request) EXCEPT !.page = SetMessages(request.chat, n)]
    /\ UNCHANGED connects

\* MainWindow::handleIncomingMessage: the list, then the page.
HandleIncomingMessage(c, chat) ==
    LET listed == ApplyIncomingMessage(c, chat)
    IN  IF chat = c.active THEN AppendMessage(listed, Bubble(chat, "received")) ELSE listed

\* A push, unless its fields cannot be parsed.
MessagePushed(chat) ==
    /\ Decodes /\ client.loggedIn
    /\ Len(client.page) < MaxPage /\ client.unread[chat] < MaxPage
    /\ client' \in {RequestFailed(Decoded), HandleIncomingMessage(Decoded, chat)}
    /\ UNCHANGED connects

-----------------------------------------------------------------------------
\* ClientRuntime::sendHeartbeat; the write may fail.
SendHeartbeat ==
    /\ client.beating /\ client.loggedIn /\ client.socket = "connected" /\ client.seq < MaxSeq
    /\ client' \in {[SkipSeq(client) EXCEPT !.online = FALSE]}
                      \cup SendPacket(client, "heartbeat", NoChat)
    /\ UNCHANGED connects

\* The outcomes of a request of ChatController.  A field that is not valid is
\* reported by MainWindow.  A failure of sendPacket is reported by ChatController,
\* and MainWindow reports it once more.
SendChat(c, type, chat) ==
    {RequestFailed(c), RequestFailed(RequestFailed(SkipSeq(c)))} \cup SendPacket(c, type, chat)

\* ChatController::requestHistory, and sendPrivateMessage or sendGroupMessage.
SendHistoryRequest(c) == SendChat(c, "history", c.active)
SendMessageRequest(c) == SendChat(c, "message", c.active)

\* MainWindow::requestHistory and sendMessage, which return silently when the
\* open conversation has no target id.
RequestHistory(c) == IF c.target THEN SendHistoryRequest(c) ELSE {c}
SendText(c) == IF c.target THEN SendMessageRequest(c) ELSE {c}

\* MainWindow::openConversation, from a contact or a conversation that was
\* listed, or from an item that a push has made.
OpenConversation(chat) ==
    /\ client.loggedIn /\ client.seq < MaxSeq
    /\ \E target \in BOOLEAN :
          /\ chat \in IF target THEN Contacts \cup Listed ELSE client.strays
          /\ client' \in RequestHistory(OpenPage(MarkConversationRead(client, chat), chat, target))
    /\ UNCHANGED connects

\* ChatPage::requestEarlierHistory.
LoadEarlier ==
    /\ client.active # NoChat /\ client.seq < MaxSeq
    /\ HasEarliestMessage(client)
    /\ client' \in RequestHistory(client)
    /\ UNCHANGED connects

\* ChatPage::handleSendRequested: the bubble first, then the request.
SendMessage ==
    /\ client.active # NoChat /\ Len(client.page) < MaxPage /\ client.seq < MaxSeq
    /\ client' \in SendText(AppendMessage(client, Bubble(client.active, "sending")))
    /\ UNCHANGED connects

-----------------------------------------------------------------------------
ClientNext ==
    \/ \E action \in {"login", "register"} : StartRequest(action)
    \/ ReconnectClicked \/ AutoReconnect \/ SocketConnected \/ ConnectFails \/ ConnectionEnds
    \/ ReadPart \/ ReadBad
    \/ \E request \in client.pending :
          \/ HeartbeatAnswered(request) \/ AuthAnswered(request)
          \/ MessageAnswered(request) \/ HistoryAnswered(request)
    \/ \E chat \in Chats : MessagePushed(chat) \/ OpenConversation(chat)
    \/ SendHeartbeat \/ LoadEarlier \/ SendMessage

ClientSpec == ClientInit /\ [][ClientNext]_clientVars

\* The status shows Online only while the socket is connected: no order of
\* errors, closes, aborts, reconnects and heartbeat answers leaves the
\* indicator on after the connection, or the heartbeat timer running.
OnlineMeansConnected ==
    /\ client.online => client.socket = "connected"
    /\ client.beating => client.loggedIn /\ client.socket \in {"connected", "closing"}

\* The page shows messages of the open conversation only, although the history
\* of another one may arrive after the user has switched.
PageShowsOpenChat ==
    \A i \in DOMAIN client.page : client.page[i].chat = client.active

=============================================================================
