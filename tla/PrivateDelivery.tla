--------------------------- MODULE PrivateDelivery ---------------------------
(***************************************************************************)
(* The private messages of one sender to one receiver: ChatService and     *)
(* OfflineMessageService over MySQL (messages, offline_messages,           *)
(* message_deliveries: the source of truth, one transaction per action),   *)
(* Redis (the unread counter of the conversation) and the receiver's       *)
(* connection.                                                             *)
(*                                                                         *)
(* A message is named by its ClientMessageId; the sender retries freely,   *)
(* so several threads may handle the same message at once.  A handler      *)
(* looks the receiver up before it saves, and acts on that answer after:   *)
(* task[t].peer is the session it holds, "live" until that session closes. *)
(***************************************************************************)
EXTENDS Naturals, FiniteSets

CONSTANTS
    Msgs,           \* client message ids of the sender
    Threads,        \* business threads
    TooLarge,       \* messages whose push alone exceeds the high water mark
    Limit,          \* messages per offline pull
    StorageMayFail, \* a MySQL call may fail, its transaction applied or not
    RedisMayFail,   \* an INCR or DEL may fail, applied or not
    MayCrash        \* the server process may die and start again

ASSUME TooLargeAssumption == TooLarge \subseteq Msgs
ASSUME LimitAssumption == Limit \in Nat \ {0}
ASSUME FaultAssumption ==
    StorageMayFail \in BOOLEAN /\ RedisMayFail \in BOOLEAN /\ MayCrash \in BOOLEAN

VARIABLES
    stored,     \* messages: rows, unique per client message id
    offline,    \* offline_messages.delivered: "none" without a row
    rowId,      \* offline_messages.offline_message_id, 0 without a row
    lastId,     \* its AUTO_INCREMENT counter
    delivery,   \* message_deliveries.status: "none" without a row
    unread,     \* Redis: unread counter of the conversation
    online,     \* the receiver has a live, bound session
    wire,       \* pushes queued to the receiver's current session
    task,       \* what each business thread is executing
    inbox,      \* messages the receiver's client has got
    accepted,   \* history: messages a handler returned success for
    lost,       \* history: pushes that died with their session
    counted     \* history: messages that have been added to unread

dbVars == <<stored, offline, rowId, lastId, delivery>>
histVars == <<accepted, lost, counted>>
vars == <<dbVars, unread, online, wire, task, inbox, histVars>>

Steps == {"save", "status", "relookup", "push", "fallback", "unread", "clear"}
Peers == {"none", "live", "dead"}
Idle == [pc |-> "idle"]

TypeOK ==
    /\ stored \subseteq Msgs
    /\ offline \in [Msgs -> {"none", "pending", "delivered"}]
    /\ rowId \in [Msgs -> Nat]
    /\ lastId \in Nat
    /\ delivery \in [Msgs -> {"none", "pending", "delivered"}]
    /\ unread \in Nat
    /\ online \in BOOLEAN
    /\ wire \subseteq Msgs
    /\ task \in [Threads -> [pc : Steps, msg : Msgs, peer : Peers] \cup {Idle}]
    /\ inbox \subseteq Msgs
    /\ accepted \subseteq Msgs
    /\ lost \subseteq Msgs
    /\ counted \subseteq Msgs

Init ==
    /\ stored = {} /\ lastId = 0 /\ unread = 0 /\ online = FALSE
    /\ offline = [m \in Msgs |-> "none"]
    /\ rowId = [m \in Msgs |-> 0]
    /\ delivery = [m \in Msgs |-> "none"]
    /\ task = [t \in Threads |-> Idle]
    /\ wire = {} /\ inbox = {} /\ accepted = {} /\ lost = {} /\ counted = {}

At(t, pc) == task[t] # Idle /\ task[t].pc = pc
Goto(t, pc, peer) ==
    task' = [task EXCEPT ![t] = [pc |-> pc, msg |-> task[t].msg, peer |-> peer]]
Finish(t) == task' = [task EXCEPT ![t] = Idle]
Peer == IF online THEN "live" ELSE "none"

\* The handler returns success and the router answers the sender.
Respond(t) ==
    /\ Finish(t)
    /\ accepted' = accepted \cup {task[t].msg}

-----------------------------------------------------------------------------
\* MySQL: what the transactions change.

\* Variant: the pending upsert overwrites the status it finds.
DeliveryPendingOverwrites(m) == delivery' = [delivery EXCEPT ![m] = "pending"]

\* upsertDeliveryPending: ON DUPLICATE KEY UPDATE status = status.
UpsertDeliveryPending(m) ==
    delivery' = [delivery EXCEPT ![m] = IF @ = "none" THEN "pending" ELSE @]

InsertOfflineMessage(m) ==
    /\ offline' = [offline EXCEPT ![m] = "pending"]
    /\ rowId' = [rowId EXCEPT ![m] = lastId + 1]
    /\ lastId' = lastId + 1
    /\ UpsertDeliveryPending(m)

\* saveMessageWithOfflineRecipients: the message, and the receiver's offline row
\* when the lookup found no session, in one transaction.
SaveMessage(m, peer) ==
    /\ stored' = stored \cup {m}
    /\ IF peer = "none" THEN InsertOfflineMessage(m)
                        ELSE UNCHANGED <<offline, rowId, lastId, delivery>>

\* Variant: the offline ACK forgets message_deliveries.
AckRowsOnly(S) ==
    /\ offline' = [m \in Msgs |-> IF m \in S THEN "delivered" ELSE offline[m]]
    /\ UNCHANGED delivery

\* ackOfflineMessages, when every acknowledged message has a row.
AckRows(S) ==
    /\ offline' = [m \in Msgs |-> IF m \in S THEN "delivered" ELSE offline[m]]
    /\ delivery' = [m \in Msgs |-> IF m \in S THEN "delivered" ELSE delivery[m]]

\* ackPrivateMessageDelivery upserts the delivery row and leaves the offline row,
\* if there is one, alone.
AckPrivateMessageDelivery(m) == delivery' = [delivery EXCEPT ![m] = "delivered"]

IsMessageAlreadyDelivered(m) == delivery[m] = "delivered"

-----------------------------------------------------------------------------
\* handlePrivateMessage.  A request may be the first one or a retry.

\* A valid request of a friend: the receiver's session is looked up.
SendMessage(t, m) ==
    /\ task[t] = Idle
    /\ task' = [task EXCEPT ![t] = [pc |-> "save", msg |-> m, peer |-> Peer]]
    /\ UNCHANGED <<dbVars, unread, online, wire, inbox, histVars>>

SaveNew(t) ==
    /\ At(t, "save")
    /\ task[t].msg \notin stored
    /\ SaveMessage(task[t].msg, task[t].peer)
    /\ Goto(t, IF task[t].peer = "none" THEN "unread" ELSE "push", task[t].peer)
    /\ UNCHANGED <<unread, online, wire, inbox, histVars>>

\* AlreadyExists on (sender, client message id): find the stored message.
SaveDuplicate(t) ==
    /\ At(t, "save")
    /\ task[t].msg \in stored
    /\ Goto(t, "status", task[t].peer)
    /\ UNCHANGED <<dbVars, unread, online, wire, inbox, histVars>>

\* COMMIT answered with an error: the transaction may have been applied.
SaveUnknown(t) ==
    /\ StorageMayFail
    /\ At(t, "save")
    /\ task[t].msg \notin stored
    /\ SaveMessage(task[t].msg, task[t].peer)
    /\ Finish(t)
    /\ UNCHANGED <<unread, online, wire, inbox, histVars>>

\* Any storage call fails without effect and the handler returns its error.
StorageError(t) ==
    /\ StorageMayFail
    /\ \E pc \in {"save", "status", "fallback"} : At(t, pc)
    /\ Finish(t)
    /\ UNCHANGED <<dbVars, unread, online, wire, inbox, histVars>>

CheckDelivered(t) ==
    /\ At(t, "status")
    /\ IF IsMessageAlreadyDelivered(task[t].msg)
       THEN Respond(t) /\ UNCHANGED <<lost, counted>>
       ELSE Goto(t, "relookup", task[t].peer) /\ UNCHANGED histVars
    /\ UNCHANGED <<dbVars, unread, online, wire, inbox>>

RetryLookup(t) ==
    /\ At(t, "relookup")
    /\ Goto(t, IF online THEN "push" ELSE "fallback", Peer)
    /\ UNCHANGED <<dbVars, unread, online, wire, inbox, histVars>>

\* sendPacket returns OK once the push is queued on the session's loop.
PushQueued(t) ==
    /\ At(t, "push")
    /\ task[t].peer = "live"
    /\ task[t].msg \notin TooLarge
    /\ wire' = wire \cup {task[t].msg}
    /\ Respond(t)
    /\ UNCHANGED <<dbVars, unread, online, inbox, lost, counted>>

Unpushable(t) == task[t].peer = "dead" \/ task[t].msg \in TooLarge

\* Variant: a push that cannot be queued is reported as success.
PushGivesUp(t) ==
    /\ At(t, "push")
    /\ Unpushable(t)
    /\ Respond(t)
    /\ UNCHANGED <<dbVars, unread, online, wire, inbox, lost, counted>>

\* The session has closed since the lookup, or the packet alone exceeds the
\* high water mark; the close that sendPacket queues then is a Disconnect.
PushRefused(t) ==
    /\ At(t, "push")
    /\ Unpushable(t)
    /\ Goto(t, "fallback", task[t].peer)
    /\ UNCHANGED <<dbVars, unread, online, wire, inbox, histVars>>

\* ensureOfflineFallback: a new row is counted as unread by whoever created it.
FallbackInserted(t) ==
    /\ At(t, "fallback")
    /\ offline[task[t].msg] = "none"
    /\ InsertOfflineMessage(task[t].msg)
    /\ Goto(t, "unread", task[t].peer)
    /\ UNCHANGED <<stored, unread, online, wire, inbox, histVars>>

FallbackUnknown(t) ==
    /\ StorageMayFail
    /\ At(t, "fallback")
    /\ offline[task[t].msg] = "none"
    /\ InsertOfflineMessage(task[t].msg)
    /\ Finish(t)
    /\ UNCHANGED <<stored, unread, online, wire, inbox, histVars>>

\* Variant: an existing row counts as unread again.
FallbackCountsAgain(t) ==
    /\ At(t, "fallback")
    /\ offline[task[t].msg] # "none"
    /\ Goto(t, "unread", task[t].peer)
    /\ UNCHANGED <<dbVars, unread, online, wire, inbox, histVars>>

FallbackExists(t) ==
    /\ At(t, "fallback")
    /\ offline[task[t].msg] # "none"
    /\ Respond(t)
    /\ UNCHANGED <<dbVars, unread, online, wire, inbox, lost, counted>>

\* INCR; a failure is logged and the sender still gets its response.
IncrementUnread(t) ==
    /\ At(t, "unread")
    /\ \/ unread' = unread + 1 /\ counted' = counted \cup {task[t].msg}
       \/ RedisMayFail /\ UNCHANGED <<unread, counted>>
    /\ Respond(t)
    /\ UNCHANGED <<dbVars, online, wire, inbox, lost>>

-----------------------------------------------------------------------------
\* The receiver: its connection, its client, and the handlers it calls.

Login ==
    /\ ~online
    /\ online' = TRUE
    /\ UNCHANGED <<dbVars, unread, wire, task, inbox, histVars>>

\* Every session handle a thread holds is dead once the session closes, and what
\* was queued to the session is gone.
PeersDie == [t \in Threads |-> IF task[t] # Idle /\ task[t].peer = "live"
                               THEN [task[t] EXCEPT !.peer = "dead"] ELSE task[t]]

Disconnect ==
    /\ online
    /\ online' = FALSE
    /\ lost' = lost \cup wire
    /\ wire' = {}
    /\ task' = PeersDie
    /\ UNCHANGED <<dbVars, unread, inbox, accepted, counted>>

ReceivePush(m) ==
    /\ m \in wire
    /\ wire' = wire \ {m}
    /\ inbox' = inbox \cup {m}
    /\ UNCHANGED <<dbVars, unread, online, task, histVars>>

\* handleDeliveryAck: the client confirms a message it has.
DeliveryAck(m) ==
    /\ online
    /\ m \in inbox
    /\ AckPrivateMessageDelivery(m)
    /\ UNCHANGED <<stored, offline, rowId, lastId, unread, online, wire, task, inbox, histVars>>

\* getOfflineMessages: the Limit oldest pending rows.
Pending == {m \in Msgs : offline[m] = "pending"}
\* Variant: the page is chosen before the delivered rows are filtered out.
PageUnfiltered ==
    {m \in Pending :
        Cardinality({k \in Msgs : offline[k] # "none" /\ rowId[k] < rowId[m]}) < Limit}

Page == {m \in Pending : Cardinality({k \in Pending : rowId[k] < rowId[m]}) < Limit}

\* Variant: the pull itself marks the rows it returns, and the response is lost.
PullMarks ==
    /\ online
    /\ AckRows(Page)
    /\ UNCHANGED <<stored, rowId, lastId, unread, online, wire, task, inbox, histVars>>

\* A pull changes nothing on the server; a lost response is no step at all.
PullOffline ==
    /\ online
    /\ inbox' = inbox \cup Page
    /\ UNCHANGED <<dbVars, unread, online, wire, task, histVars>>

\* handleOfflineMessagesAck: the transaction; one unknown id rolls all of it back.
OfflineAck(t, S) ==
    /\ online
    /\ task[t] = Idle
    /\ \A m \in S : offline[m] # "none"
    /\ AckRows(S)
    /\ task' = [task EXCEPT ![t] = [pc |-> "clear", msg |-> CHOOSE m \in S : TRUE,
                                    peer |-> "none"]]
    /\ UNCHANGED <<stored, rowId, lastId, unread, online, wire, inbox, histVars>>

\* COMMIT answered with an error: applied, but the counter is not cleared.
AckUnknown(S) ==
    /\ StorageMayFail
    /\ online
    /\ \A m \in S : offline[m] # "none"
    /\ AckRows(S)
    /\ UNCHANGED <<stored, rowId, lastId, unread, online, wire, task, inbox, histVars>>

\* Then the whole counter of the conversation is deleted, best effort.
ClearUnread(t) ==
    /\ At(t, "clear")
    /\ \/ unread' = 0
       \/ RedisMayFail /\ UNCHANGED unread
    /\ Finish(t)
    /\ UNCHANGED <<dbVars, online, wire, inbox, histVars>>

\* The process dies: handlers and connections go, MySQL and Redis stay.
Crash ==
    /\ MayCrash
    /\ online' = FALSE
    /\ lost' = lost \cup wire
    /\ wire' = {}
    /\ task' = [t \in Threads |-> Idle]
    /\ UNCHANGED <<dbVars, unread, inbox, accepted, counted>>

-----------------------------------------------------------------------------
HandlerStep(t) ==
    \/ SaveNew(t) \/ SaveDuplicate(t) \/ SaveUnknown(t) \/ StorageError(t)
    \/ CheckDelivered(t) \/ RetryLookup(t)
    \/ PushQueued(t) \/ PushRefused(t)
    \/ FallbackInserted(t) \/ FallbackUnknown(t) \/ FallbackExists(t)
    \/ IncrementUnread(t) \/ ClearUnread(t)

ClientAck(S) == AckUnknown(S) \/ \E t \in Threads : OfflineAck(t, S)

Next ==
    \/ \E t \in Threads : HandlerStep(t) \/ \E m \in Msgs : SendMessage(t, m)
    \/ \E S \in (SUBSET inbox) \ {{}} : ClientAck(S)
    \/ \E m \in Msgs : ReceivePush(m) \/ DeliveryAck(m)
    \/ Login \/ Disconnect \/ PullOffline \/ Crash

Spec == Init /\ [][Next]_vars

-----------------------------------------------------------------------------
\* MySQL says "delivered" only of messages the receiver's client has: queueing a
\* push or answering a pull is not delivery, only the client's ACK is.
DeliveredMeansReceived ==
    \A m \in Msgs : delivery[m] = "delivered" \/ offline[m] = "delivered" => m \in inbox

\* The offline row and the delivery row of a message are written in the same
\* transactions: a row has a delivery state, an acknowledged row a delivered one.
RowsAgree ==
    \A m \in Msgs : /\ offline[m] # "none" => m \in stored /\ delivery[m] # "none"
                    /\ offline[m] = "delivered" => delivery[m] = "delivered"

\* A delivered message never becomes pending again, whatever retries, fallbacks
\* or repeated ACKs race with each other.
DeliveryNeverRegresses ==
    [][\A m \in Msgs : delivery[m] = "delivered" => delivery'[m] = "delivered"]_vars

\* A message is added to the unread counter at most once, however often the
\* sender retries it and however many handlers run at once.
NoDoubleUnread ==
    [][unread' > unread => counted' # counted]_vars

\* A message whose sender was answered is in the receiver's reach: received,
\* pending in the offline table, or pushed to a session; the only way to miss
\* it is a push that was queued to a session which then closed.
AcceptedIsReachable ==
    \A m \in accepted : m \in inbox \cup wire \cup lost \/ offline[m] = "pending"

\* A retry neither pushes a delivered message again nor gives it a new pending
\* offline row.
DeliveredNotRequeued ==
    [][\A m \in Msgs : delivery[m] = "delivered"
                       => /\ offline[m] = "none" => offline'[m] = "none"
                          /\ m \in wire' => m \in wire]_vars

-----------------------------------------------------------------------------
\* A worker finishes the handler it runs.  The receiver's client, while it is
\* connected, keeps pulling and keeps acknowledging what it has, and the FIFO
\* queue of the pool lets its requests have a worker.
Fairness ==
    /\ \A t \in Threads : WF_vars(HandlerStep(t))
    /\ WF_vars(PullOffline)
    /\ \A m \in Msgs : SF_vars(m \in inbox /\ ClientAck({m}))

FairSpec == Spec /\ Fairness

\* A client that in the end stays connected gets and acknowledges every pending
\* message, although a pull returns only the oldest page: rows that are pulled
\* again and again until their ACK arrives never hide the ones behind them.
PendingIsDelivered ==
    <>[]online => \A m \in Msgs : offline[m] = "pending" ~> offline[m] = "delivered"
=============================================================================
