------------------------ MODULE PrivateDeliveryProofs ------------------------
(***************************************************************************)
(* The safety properties of PrivateDelivery, for any number of messages    *)
(* and business threads and any page size.                                 *)
(***************************************************************************)
EXTENDS PrivateDelivery, TLAPS

\* Past the save, a handler's message is stored; before it counts the message
\* as unread the message has an offline row and has not been counted.
HandlersKnow ==
    \A t \in Threads : task[t] # Idle =>
        /\ task[t].pc \in {"status", "relookup", "push", "fallback", "unread"}
              => task[t].msg \in stored
        /\ task[t].pc = "unread"
              => offline[task[t].msg] # "none" /\ task[t].msg \notin counted

\* The handler that inserted the row is the only one that will count it.
OneCounter ==
    \A t, u \in Threads : At(t, "unread") /\ At(u, "unread") /\ task[t].msg = task[u].msg => t = u

CountedHasRow == \A m \in counted : offline[m] # "none"

DeliveryInv == TypeOK /\ DeliveredMeansReceived /\ RowsAgree

CountInv == HandlersKnow /\ OneCounter /\ CountedHasRow

IInv == DeliveryInv /\ CountInv /\ AcceptedIsReachable

-----------------------------------------------------------------------------
\* A closing session only turns the handles on it dead.
LEMMA PeersDieType ==
    TypeOK => PeersDie \in [Threads -> [pc : Steps, msg : Msgs, peer : Peers] \cup {Idle}]
<1> SUFFICES ASSUME TypeOK, NEW t \in Threads
             PROVE  PeersDie[t] \in [pc : Steps, msg : Msgs, peer : Peers] \cup {Idle}
    BY DEF PeersDie
<1>1. CASE task[t] = Idle
    BY <1>1 DEF PeersDie
<1>2. CASE task[t] # Idle
  <2>1. task[t] \in [pc : Steps, msg : Msgs, peer : Peers]
    BY <1>2 DEF TypeOK
  <2>2. [task[t] EXCEPT !.peer = "dead"] \in [pc : Steps, msg : Msgs, peer : Peers]
    BY <2>1 DEF Peers
  <2> QED
    BY <2>1, <2>2 DEF PeersDie
<1> QED
    BY <1>1, <1>2

\* The rows agree, and say "delivered" only of what the client has: every handler
\* step, ACK, disconnect and crash keeps it.
LEMMA DeliveryStep == DeliveryInv /\ HandlersKnow /\ [Next]_vars => DeliveryInv'
<1> SUFFICES ASSUME DeliveryInv /\ HandlersKnow, [Next]_vars PROVE DeliveryInv'
    OBVIOUS
<1> USE DEF DeliveryInv, TypeOK, DeliveredMeansReceived, RowsAgree, HandlersKnow,
            Steps, Peers, Idle, dbVars, histVars
<1>1. ASSUME NEW t \in Threads, SaveNew(t) PROVE DeliveryInv'
    BY <1>1 DEF SaveNew, At, Goto, SaveMessage, InsertOfflineMessage,
          UpsertDeliveryPending
<1>2. ASSUME NEW t \in Threads, SaveDuplicate(t) PROVE DeliveryInv'
    BY <1>2 DEF SaveDuplicate, At, Goto
<1>3. ASSUME NEW t \in Threads, SaveUnknown(t) PROVE DeliveryInv'
    BY <1>3 DEF SaveUnknown, At, Finish, SaveMessage, InsertOfflineMessage,
          UpsertDeliveryPending
<1>4. ASSUME NEW t \in Threads, StorageError(t) PROVE DeliveryInv'
    BY <1>4 DEF StorageError, At, Finish
<1>5. ASSUME NEW t \in Threads, CheckDelivered(t) PROVE DeliveryInv'
    BY <1>5 DEF CheckDelivered, IsMessageAlreadyDelivered, At, Goto, Finish, Respond
<1>6. ASSUME NEW t \in Threads, RetryLookup(t) PROVE DeliveryInv'
    BY <1>6 DEF RetryLookup, At, Goto, Peer
<1>7. ASSUME NEW t \in Threads, PushQueued(t) PROVE DeliveryInv'
    BY <1>7 DEF PushQueued, At, Finish, Respond
<1>8. ASSUME NEW t \in Threads, PushRefused(t) PROVE DeliveryInv'
    BY <1>8 DEF PushRefused, At, Goto
<1>9. ASSUME NEW t \in Threads, FallbackInserted(t) PROVE DeliveryInv'
    BY <1>9 DEF FallbackInserted, At, Goto, InsertOfflineMessage,
          UpsertDeliveryPending
<1>10. ASSUME NEW t \in Threads, FallbackUnknown(t) PROVE DeliveryInv'
    BY <1>10 DEF FallbackUnknown, At, Finish, InsertOfflineMessage,
          UpsertDeliveryPending
<1>11. ASSUME NEW t \in Threads, FallbackExists(t) PROVE DeliveryInv'
    BY <1>11 DEF FallbackExists, At, Finish, Respond
<1>12. ASSUME NEW t \in Threads, IncrementUnread(t) PROVE DeliveryInv'
    BY <1>12 DEF IncrementUnread, At, Finish, Respond
<1>13. ASSUME NEW t \in Threads, ClearUnread(t) PROVE DeliveryInv'
    BY <1>13 DEF ClearUnread, At, Finish
<1>14. ASSUME NEW t \in Threads, NEW m \in Msgs, SendMessage(t, m) PROVE DeliveryInv'
    BY <1>14 DEF SendMessage, Peer
<1>15. ASSUME NEW S \in (SUBSET inbox) \ {{}}, AckUnknown(S) PROVE DeliveryInv'
    BY <1>15 DEF AckUnknown, AckRows
<1>16. ASSUME NEW S \in (SUBSET inbox) \ {{}}, NEW t \in Threads, OfflineAck(t, S)
       PROVE  DeliveryInv'
    BY <1>16 DEF OfflineAck, AckRows
<1>17. ASSUME NEW m \in Msgs, ReceivePush(m) PROVE DeliveryInv'
    BY <1>17 DEF ReceivePush
<1>18. ASSUME NEW m \in Msgs, DeliveryAck(m) PROVE DeliveryInv'
    BY <1>18 DEF DeliveryAck, AckPrivateMessageDelivery
<1>19. CASE Login
    BY <1>19 DEF Login
<1>20. CASE Disconnect
    BY <1>20, PeersDieType DEF Disconnect
<1>21. CASE PullOffline
    BY <1>21 DEF PullOffline, Page, Pending
<1>22. CASE Crash
    BY <1>22 DEF Crash
<1>23. CASE UNCHANGED vars
    BY <1>23 DEF vars, At
<1> QED
    BY <1>1, <1>2, <1>3, <1>4, <1>5, <1>6, <1>7, <1>8, <1>9, <1>10, <1>11, <1>12, <1>13,
       <1>14, <1>15, <1>16, <1>17, <1>18, <1>19, <1>20, <1>21, <1>22, <1>23
       DEF Next, HandlerStep, ClientAck

\* At most one handler is about to count a message, and only if nobody has.
LEMMA CountStep == DeliveryInv /\ CountInv /\ [Next]_vars => CountInv'
<1> SUFFICES ASSUME DeliveryInv /\ CountInv, [Next]_vars PROVE CountInv'
    OBVIOUS
<1> USE DEF DeliveryInv, TypeOK, RowsAgree, CountInv, HandlersKnow, OneCounter,
            CountedHasRow, Steps, Idle, At, dbVars, histVars
<1>1. ASSUME NEW t \in Threads, SaveNew(t) PROVE CountInv'
    BY <1>1 DEF SaveNew, Goto, SaveMessage, InsertOfflineMessage,
          UpsertDeliveryPending
<1>2. ASSUME NEW t \in Threads, SaveDuplicate(t) PROVE CountInv'
    BY <1>2 DEF SaveDuplicate, Goto
<1>3. ASSUME NEW t \in Threads, SaveUnknown(t) PROVE CountInv'
    BY <1>3 DEF SaveUnknown, Finish, SaveMessage, InsertOfflineMessage,
          UpsertDeliveryPending
<1>4. ASSUME NEW t \in Threads, StorageError(t) PROVE CountInv'
    BY <1>4 DEF StorageError, Finish
<1>5. ASSUME NEW t \in Threads, CheckDelivered(t) PROVE CountInv'
    BY <1>5 DEF CheckDelivered, IsMessageAlreadyDelivered, Goto, Finish, Respond
<1>6. ASSUME NEW t \in Threads, RetryLookup(t) PROVE CountInv'
    BY <1>6 DEF RetryLookup, Goto, Peer
<1>7. ASSUME NEW t \in Threads, PushQueued(t) PROVE CountInv'
    BY <1>7 DEF PushQueued, Finish, Respond
<1>8. ASSUME NEW t \in Threads, PushRefused(t) PROVE CountInv'
    BY <1>8 DEF PushRefused, Goto
<1>9. ASSUME NEW t \in Threads, FallbackInserted(t) PROVE CountInv'
    BY <1>9 DEF FallbackInserted, Goto, InsertOfflineMessage,
          UpsertDeliveryPending
<1>10. ASSUME NEW t \in Threads, FallbackUnknown(t) PROVE CountInv'
    BY <1>10 DEF FallbackUnknown, Finish, InsertOfflineMessage,
          UpsertDeliveryPending
<1>11. ASSUME NEW t \in Threads, FallbackExists(t) PROVE CountInv'
    BY <1>11 DEF FallbackExists, Finish, Respond
<1>12. ASSUME NEW t \in Threads, IncrementUnread(t) PROVE CountInv'
    BY <1>12 DEF IncrementUnread, Finish, Respond
<1>13. ASSUME NEW t \in Threads, ClearUnread(t) PROVE CountInv'
    BY <1>13 DEF ClearUnread, Finish
<1>14. ASSUME NEW t \in Threads, NEW m \in Msgs, SendMessage(t, m) PROVE CountInv'
    BY <1>14 DEF SendMessage, Peer, Peers
<1>15. ASSUME NEW S \in (SUBSET inbox) \ {{}}, AckUnknown(S) PROVE CountInv'
    BY <1>15 DEF AckUnknown, AckRows
<1>16. ASSUME NEW S \in (SUBSET inbox) \ {{}}, NEW t \in Threads, OfflineAck(t, S)
       PROVE  CountInv'
    BY <1>16 DEF OfflineAck, AckRows, Peers
<1>17. ASSUME NEW m \in Msgs, ReceivePush(m) PROVE CountInv'
    BY <1>17 DEF ReceivePush
<1>18. ASSUME NEW m \in Msgs, DeliveryAck(m) PROVE CountInv'
    BY <1>18 DEF DeliveryAck, AckPrivateMessageDelivery
<1>19. CASE Login
    BY <1>19 DEF Login
<1>20. CASE Disconnect
    BY <1>20 DEF Disconnect, PeersDie, Peers
<1>21. CASE PullOffline
    BY <1>21 DEF PullOffline, Page, Pending
<1>22. CASE Crash
    BY <1>22 DEF Crash
<1>23. CASE UNCHANGED vars
    BY <1>23 DEF vars
<1> QED
    BY <1>1, <1>2, <1>3, <1>4, <1>5, <1>6, <1>7, <1>8, <1>9, <1>10, <1>11, <1>12, <1>13,
       <1>14, <1>15, <1>16, <1>17, <1>18, <1>19, <1>20, <1>21, <1>22, <1>23
       DEF Next, HandlerStep, ClientAck

\* A handler answers only when the message is in the receiver's reach, and no
\* other step takes it out of reach.
LEMMA AcceptStep ==
    DeliveryInv /\ CountInv /\ AcceptedIsReachable /\ [Next]_vars => AcceptedIsReachable'
<1> SUFFICES ASSUME DeliveryInv /\ CountInv /\ AcceptedIsReachable, [Next]_vars
             PROVE  AcceptedIsReachable'
    OBVIOUS
<1> USE DEF DeliveryInv, TypeOK, DeliveredMeansReceived, RowsAgree, CountInv,
            HandlersKnow, AcceptedIsReachable, Steps, Idle, dbVars, histVars
<1>1. ASSUME NEW t \in Threads, SaveNew(t) PROVE AcceptedIsReachable'
    BY <1>1 DEF SaveNew, At, Goto, SaveMessage, InsertOfflineMessage,
          UpsertDeliveryPending
<1>2. ASSUME NEW t \in Threads, SaveDuplicate(t) PROVE AcceptedIsReachable'
    BY <1>2 DEF SaveDuplicate, At, Goto
<1>3. ASSUME NEW t \in Threads, SaveUnknown(t) PROVE AcceptedIsReachable'
    BY <1>3 DEF SaveUnknown, At, Finish, SaveMessage, InsertOfflineMessage,
          UpsertDeliveryPending
<1>4. ASSUME NEW t \in Threads, StorageError(t) PROVE AcceptedIsReachable'
    BY <1>4 DEF StorageError, At, Finish
<1>5. ASSUME NEW t \in Threads, CheckDelivered(t) PROVE AcceptedIsReachable'
    BY <1>5 DEF CheckDelivered, IsMessageAlreadyDelivered, At, Goto, Finish, Respond
<1>6. ASSUME NEW t \in Threads, RetryLookup(t) PROVE AcceptedIsReachable'
    BY <1>6 DEF RetryLookup, At, Goto, Peer
<1>7. ASSUME NEW t \in Threads, PushQueued(t) PROVE AcceptedIsReachable'
    BY <1>7 DEF PushQueued, At, Finish, Respond
<1>8. ASSUME NEW t \in Threads, PushRefused(t) PROVE AcceptedIsReachable'
    BY <1>8 DEF PushRefused, At, Goto
<1>9. ASSUME NEW t \in Threads, FallbackInserted(t) PROVE AcceptedIsReachable'
    BY <1>9 DEF FallbackInserted, At, Goto, InsertOfflineMessage,
          UpsertDeliveryPending
<1>10. ASSUME NEW t \in Threads, FallbackUnknown(t) PROVE AcceptedIsReachable'
    BY <1>10 DEF FallbackUnknown, At, Finish, InsertOfflineMessage,
          UpsertDeliveryPending
<1>11. ASSUME NEW t \in Threads, FallbackExists(t) PROVE AcceptedIsReachable'
    BY <1>11 DEF FallbackExists, At, Finish, Respond
<1>12. ASSUME NEW t \in Threads, IncrementUnread(t) PROVE AcceptedIsReachable'
    BY <1>12 DEF IncrementUnread, At, Finish, Respond
<1>13. ASSUME NEW t \in Threads, ClearUnread(t) PROVE AcceptedIsReachable'
    BY <1>13 DEF ClearUnread, At, Finish
<1>14. ASSUME NEW t \in Threads, NEW m \in Msgs, SendMessage(t, m) PROVE AcceptedIsReachable'
    BY <1>14 DEF SendMessage, Peer, Peers
<1>15. ASSUME NEW S \in (SUBSET inbox) \ {{}}, AckUnknown(S) PROVE AcceptedIsReachable'
    BY <1>15 DEF AckUnknown, AckRows
<1>16. ASSUME NEW S \in (SUBSET inbox) \ {{}}, NEW t \in Threads, OfflineAck(t, S)
       PROVE  AcceptedIsReachable'
    BY <1>16 DEF OfflineAck, AckRows, Peers
<1>17. ASSUME NEW m \in Msgs, ReceivePush(m) PROVE AcceptedIsReachable'
    BY <1>17 DEF ReceivePush
<1>18. ASSUME NEW m \in Msgs, DeliveryAck(m) PROVE AcceptedIsReachable'
    BY <1>18 DEF DeliveryAck, AckPrivateMessageDelivery
<1>19. CASE Login
    BY <1>19 DEF Login
<1>20. CASE Disconnect
    BY <1>20 DEF Disconnect, PeersDie, Peers
<1>21. CASE PullOffline
    BY <1>21 DEF PullOffline, Page, Pending
<1>22. CASE Crash
    BY <1>22 DEF Crash
<1>23. CASE UNCHANGED vars
    BY <1>23 DEF vars, At
<1> QED
    BY <1>1, <1>2, <1>3, <1>4, <1>5, <1>6, <1>7, <1>8, <1>9, <1>10, <1>11, <1>12, <1>13,
       <1>14, <1>15, <1>16, <1>17, <1>18, <1>19, <1>20, <1>21, <1>22, <1>23
       DEF Next, HandlerStep, ClientAck

\* The inductive invariant holds of every behaviour.
THEOREM IInvHolds == Spec => []IInv
<1>1. Init => IInv
  <2> SUFFICES ASSUME Init PROVE IInv
    OBVIOUS
  <2>1. TypeOK
    BY DEF Init, TypeOK
  <2>2. DeliveredMeansReceived /\ RowsAgree /\ AcceptedIsReachable
    BY DEF Init, DeliveredMeansReceived, RowsAgree, AcceptedIsReachable
  <2>3. CountInv
    BY DEF Init, CountInv, HandlersKnow, OneCounter, CountedHasRow, At
  <2> QED
    BY <2>1, <2>2, <2>3 DEF IInv, DeliveryInv
<1>2. IInv /\ [Next]_vars => IInv'
    BY DeliveryStep, CountStep, AcceptStep DEF IInv, CountInv
<1> QED
    BY <1>1, <1>2, PTL DEF Spec

\* The rows, counters and handlers keep their types.
THEOREM TypeCorrect == Spec => []TypeOK
<1>1. IInv => TypeOK
    BY DEF IInv, DeliveryInv
<1> QED
    BY <1>1, IInvHolds, PTL

\* MySQL records as delivered only what the receiver's client has got.
THEOREM DeliveredReceived == Spec => []DeliveredMeansReceived
<1>1. IInv => DeliveredMeansReceived
    BY DEF IInv, DeliveryInv
<1> QED
    BY <1>1, IInvHolds, PTL

\* offline_messages and message_deliveries never contradict each other.
THEOREM RowsConsistent == Spec => []RowsAgree
<1>1. IInv => RowsAgree
    BY DEF IInv, DeliveryInv
<1> QED
    BY <1>1, IInvHolds, PTL

\* A message whose handler returned success is received, pending or on its way,
\* or was queued to a session that has closed.
THEOREM AcceptedReachable == Spec => []AcceptedIsReachable
<1>1. IInv => AcceptedIsReachable
    BY DEF IInv
<1> QED
    BY <1>1, IInvHolds, PTL

\* message_deliveries never goes back from delivered.
THEOREM NeverRegresses == Spec => DeliveryNeverRegresses
<1>1. IInv /\ [Next]_vars => [\A m \in Msgs : delivery[m] = "delivered"
                                              => delivery'[m] = "delivered"]_vars
  <2> SUFFICES ASSUME IInv, Next, NEW m \in Msgs, delivery[m] = "delivered"
               PROVE  delivery'[m] = "delivered"
    OBVIOUS
  <2> USE DEF IInv, DeliveryInv, TypeOK
  <2>1. ASSUME NEW k \in Msgs, InsertOfflineMessage(k) PROVE delivery'[m] = "delivered"
    BY <2>1 DEF InsertOfflineMessage, UpsertDeliveryPending
  <2>2. ASSUME NEW k \in Msgs, NEW peer, SaveMessage(k, peer) PROVE delivery'[m] = "delivered"
    BY <2>1, <2>2 DEF SaveMessage
  <2>3. ASSUME NEW S, AckRows(S) PROVE delivery'[m] = "delivered"
    BY <2>3 DEF AckRows
  <2>4. ASSUME NEW t \in Threads, HandlerStep(t) PROVE delivery'[m] = "delivered"
    <3>1. ASSUME NEW pc, At(t, pc) PROVE task[t].msg \in Msgs
      BY <3>1 DEF At
    <3> QED
      BY <2>1, <2>2, <2>4, <3>1
         DEF HandlerStep, SaveNew, SaveDuplicate, SaveUnknown, StorageError, CheckDelivered,
             RetryLookup, PushQueued, PushRefused, FallbackInserted, FallbackUnknown,
             FallbackExists, IncrementUnread, ClearUnread, dbVars
  <2>5. ASSUME NEW S, ClientAck(S) PROVE delivery'[m] = "delivered"
    BY <2>3, <2>5 DEF ClientAck, AckUnknown, OfflineAck
  <2> QED
    BY <2>4, <2>5 DEF Next, SendMessage, ReceivePush, DeliveryAck,
                      AckPrivateMessageDelivery, Login, Disconnect, PullOffline, Crash, dbVars
<1> QED
    BY <1>1, IInvHolds, PTL DEF Spec, DeliveryNeverRegresses

\* The unread counter goes up only for a message that it does not count yet.
THEOREM CountedOnce == Spec => NoDoubleUnread
<1>1. IInv /\ [Next]_vars => [unread' > unread => counted' # counted]_vars
  <2> SUFFICES ASSUME IInv, Next, unread' > unread PROVE counted' # counted
    OBVIOUS
  <2>1. unread \in Nat
    BY DEF IInv, DeliveryInv, TypeOK
  <2>2. ASSUME NEW t \in Threads, IncrementUnread(t) PROVE counted' # counted
    <3>1. unread' # unread
      BY <2>1
    <3>2. task[t].msg \notin counted
      BY <2>2 DEF IInv, CountInv, HandlersKnow, IncrementUnread, At
    <3> QED
      BY <2>2, <3>1, <3>2 DEF IncrementUnread
  <2>3. ASSUME NEW t \in Threads, ClearUnread(t) PROVE counted' # counted
    BY <2>1, <2>3 DEF ClearUnread
  <2>4. unread' # unread
    BY <2>1
  <2> QED
    BY <2>2, <2>3, <2>4
       DEF Next, HandlerStep, SaveNew, SaveDuplicate, SaveUnknown, StorageError, CheckDelivered,
           RetryLookup, PushQueued, PushRefused, FallbackInserted, FallbackUnknown,
           FallbackExists, ClientAck, AckUnknown, OfflineAck, SendMessage, ReceivePush,
           DeliveryAck, Login, Disconnect, PullOffline, Crash
<1> QED
    BY <1>1, IInvHolds, PTL DEF Spec, NoDoubleUnread
=============================================================================
