---------------------------- MODULE FriendService ----------------------------
(***************************************************************************)
(* Friend requests: FriendService over FriendDao and the InnoDB tables     *)
(* friend_requests and friendships.                                        *)
(*                                                                         *)
(* Adding and rejecting are single autocommitted statements after reads    *)
(* that no transaction protects; accepting is a transaction of an UPDATE   *)
(* and an INSERT of both directions.  A thread's position in its handler   *)
(* is handler[t]; a step is one SQL statement.  Reads see committed rows,  *)
(* writes wait for the row locks of other transactions.                    *)
(*                                                                         *)
(* A COMMIT that fails is not followed by a ROLLBACK: when the connection  *)
(* lives its transaction stays open, with its locks, and goes back to the  *)
(* pool with it.  The next handler on that connection joins it unless it   *)
(* begins a transaction of its own, which commits the old one first.  A    *)
(* thread stands for the connection its handlers take.                     *)
(***************************************************************************)
EXTENDS Business

CONSTANT Peers     \* the users who befriend one another

VARIABLES
    requests,     \* committed friend_requests: <<requester, target>> -> status
    friendships,  \* committed friendships: a set of <<user, friend>>
    rowLock,      \* InnoDB: the thread whose transaction has the row locked
    leftover,     \* the requests written by a transaction left open on t's connection
    handler,      \* what each thread is executing
    told          \* history: <<operation, pair>> whose commit was answered with OK

friendVars == <<requests, friendships, rowLock, leftover, handler, told>>

\* validateFriendPair: nobody befriends themselves.
FriendPairs == {p \in Peers \X Peers : p[1] # p[2]}
Mirror(p) == <<p[2], p[1]>>

RequestRow(p) == <<"request", p>>
FriendRow(p) == <<"friendship", p>>
Rows == {"request", "friendship"} \X FriendPairs

AddSteps == {"areFriends", "existing", "reverse", "insert"}
AcceptSteps == {"acceptRead", "acceptUpdate", "insertFirst", "insertSecond", "commit"}
RejectSteps == {"rejectRead", "rejectUpdate"}

NoHandler == [pc |-> "idle", pair |-> None]
NoWrites == [p \in FriendPairs |-> "none"]

FriendInit ==
    /\ requests = [p \in FriendPairs |-> "none"]
    /\ friendships = {}
    /\ rowLock = [r \in Rows |-> None]
    /\ leftover = [t \in Threads |-> NoWrites]
    /\ handler = [t \in Threads |-> NoHandler]
    /\ told = {}

-----------------------------------------------------------------------------
At(t, pc) == handler[t].pc = pc
Pair(t) == handler[t].pair
Step(t, pc) == handler' = [handler EXCEPT ![t].pc = pc]
Return(t) == handler' = [handler EXCEPT ![t] = NoHandler]

\* The statement took effect; its OK may be lost on the way, and the handler
\* then reports an error.
Answer(t, op) ==
    told' \in {told \cup {<<op, Pair(t)>>}} \cup (IF StorageMayFail THEN {told} ELSE {})

Free(t, row) == rowLock[row] \in {None, t}
Lock(t, row) == rowLock' = [rowLock EXCEPT ![row] = t]

\* The end of a transaction, by COMMIT or by ROLLBACK, frees its rows.
Unlock(t) == rowLock' = [r \in Rows |-> IF rowLock[r] = t THEN None ELSE rowLock[r]]

\* getFriends, queryAreFriends.
GetFriends(u) == {v \in Peers : <<u, v>> \in friendships}
AreFriends(p) == p[2] \in GetFriends(p[1])

\* The connection of t still has an earlier handler's transaction open.
LeftOpen(t) == leftover[t] # NoWrites

\* The row as a write on t's connection finds it.
Latest(t, p) == IF leftover[t][p] = "none" THEN requests[p] ELSE leftover[t][p]

Forget(t) == leftover' = [leftover EXCEPT ![t] = NoWrites]

\* A write that joins the open transaction is not committed, and keeps its lock.
JoinWrite(t, status) ==
    /\ leftover' = [leftover EXCEPT ![t][Pair(t)] = status]
    /\ Lock(t, RequestRow(Pair(t)))
    /\ UNCHANGED <<requests, told>>

\* An autocommitted write.
CommitWrite(t, status, op) ==
    /\ requests' = [requests EXCEPT ![Pair(t)] = status]
    /\ Answer(t, op)
    /\ UNCHANGED <<rowLock, leftover>>

\* A write that finds nothing to change; inside a transaction the row it looked
\* at stays locked.
NoWrite(t) ==
    /\ IF LeftOpen(t) THEN Lock(t, RequestRow(Pair(t))) ELSE UNCHANGED rowLock
    /\ UNCHANGED <<requests, leftover, told>>

\* A statement outside a transaction that gives Pair(t) a new status if its
\* latest one is old.
WriteRequest(t, old, new, op) ==
    /\ Free(t, RequestRow(Pair(t)))
    /\ IF Latest(t, Pair(t)) # old THEN NoWrite(t)
       ELSE IF LeftOpen(t) THEN JoinWrite(t, new)
       ELSE CommitWrite(t, new, op)
    /\ Return(t)
    /\ UNCHANGED friendships

\* A read on a connection with an open transaction may see an old snapshot.
MaySee(t, fact) == fact \/ LeftOpen(t)

\* The handler finds the user and the target, both of which exist, and calls
\* the DAO.
BeginFriend(t) ==
    /\ At(t, "idle")
    /\ \E p \in FriendPairs, pc \in {"areFriends", "rejectRead"} :
           handler' = [handler EXCEPT ![t] = [pc |-> pc, pair |-> p]]
    /\ UNCHANGED <<requests, friendships, rowLock, leftover, told>>

-----------------------------------------------------------------------------
\* createFriendRequest: three reads, then the INSERT.

\* One read of createFriendRequest: the handler goes on unless it found a
\* reason to answer AlreadyExists.
CheckBefore(t, pc, exists, next) ==
    /\ At(t, pc)
    /\ \/ MaySee(t, exists) /\ Return(t)
       \/ MaySee(t, ~exists) /\ Step(t, next)
    /\ UNCHANGED <<requests, friendships, rowLock, leftover, told>>

CheckFriends(t) == CheckBefore(t, "areFriends", AreFriends(Pair(t)), "existing")

CheckExisting(t) == CheckBefore(t, "existing", requests[Pair(t)] # "none", "reverse")

\* A reverse request that was rejected does not stand in the way.
CheckReverse(t) ==
    CheckBefore(t, "reverse", requests[Mirror(Pair(t))] \in {"pending", "accepted"},
                "insert")

\* The primary key refuses a second row for the pair.
InsertRequest(t) == At(t, "insert") /\ WriteRequest(t, "none", "pending", "add")

-----------------------------------------------------------------------------
\* acceptFriendRequest: START TRANSACTION, a snapshot read, UPDATE, INSERT of
\* two rows, COMMIT.

\* START TRANSACTION commits the transaction an earlier handler left open.
BeginAccept(t) ==
    /\ At(t, "idle")
    /\ \E p \in FriendPairs : handler' = [handler EXCEPT ![t] = [pc |-> "acceptRead", pair |-> p]]
    /\ requests' = [p \in FriendPairs |-> Latest(t, p)]
    /\ friendships' = friendships
           \cup {p \in FriendPairs : "accepted" \in {leftover[t][p], leftover[t][Mirror(p)]}}
    /\ Unlock(t)
    /\ Forget(t)
    /\ UNCHANGED told

\* Only a pending request goes on; every other case rolls back.
AcceptRead(t) ==
    /\ At(t, "acceptRead")
    /\ IF requests[Pair(t)] = "pending" THEN Step(t, "acceptUpdate") ELSE Return(t)
    /\ UNCHANGED <<requests, friendships, rowLock, leftover, told>>

\* Variant: the UPDATE does not repeat the test of the status.
AcceptUpdateUnchecked(t) ==
    /\ At(t, "acceptUpdate")
    /\ Free(t, RequestRow(Pair(t)))
    /\ Lock(t, RequestRow(Pair(t)))
    /\ Step(t, "insertFirst")
    /\ UNCHANGED <<requests, friendships, leftover, told>>

\* UPDATE ... WHERE status = 0 reads the latest row under its lock; when it
\* affects no row the rollback frees it again.
AcceptUpdate(t) ==
    /\ At(t, "acceptUpdate")
    /\ Free(t, RequestRow(Pair(t)))
    /\ IF requests[Pair(t)] = "pending"
       THEN Lock(t, RequestRow(Pair(t))) /\ Step(t, "insertFirst")
       ELSE Unlock(t) /\ Return(t)
    /\ UNCHANGED <<requests, friendships, leftover, told>>

\* insertFriendshipRows: one statement, which locks its two rows one by one.
\* A row that is there already is locked all the same and stays as it is.
InsertFriendshipRow(t, pc, p, next) ==
    /\ At(t, pc)
    /\ Free(t, FriendRow(p))
    /\ Lock(t, FriendRow(p))
    /\ Step(t, next)
    /\ UNCHANGED <<requests, friendships, leftover, told>>

InsertFirst(t) == InsertFriendshipRow(t, "insertFirst", Pair(t), "insertSecond")
InsertSecond(t) == InsertFriendshipRow(t, "insertSecond", Mirror(Pair(t)), "commit")

\* Variant: only the requester's direction is inserted.
CommitOneDirection(t) ==
    /\ At(t, "commit")
    /\ requests' = [requests EXCEPT ![Pair(t)] = "accepted"]
    /\ friendships' = friendships \cup {Pair(t)}
    /\ Answer(t, "accept")
    /\ Unlock(t)
    /\ Return(t)
    /\ UNCHANGED leftover

CommitAccept(t) ==
    /\ At(t, "commit")
    /\ requests' = [requests EXCEPT ![Pair(t)] = "accepted"]
    /\ friendships' = friendships \cup {Pair(t), Mirror(Pair(t))}
    /\ Answer(t, "accept")
    /\ Unlock(t)
    /\ Return(t)
    /\ UNCHANGED leftover

\* The server refuses the COMMIT on a connection that lives.  The handler ends
\* with its error and the transaction stays open.
AcceptRefused(t) ==
    /\ StorageMayFail
    /\ At(t, "commit")
    /\ leftover' = [leftover EXCEPT ![t][Pair(t)] = "accepted"]
    /\ Return(t)
    /\ UNCHANGED <<requests, friendships, rowLock, told>>

-----------------------------------------------------------------------------
\* rejectFriendRequest: a read, then an autocommitted UPDATE.

RejectRead(t) ==
    /\ At(t, "rejectRead")
    /\ \/ MaySee(t, requests[Pair(t)] = "pending") /\ Step(t, "rejectUpdate")
       \/ MaySee(t, requests[Pair(t)] # "pending") /\ Return(t)
    /\ UNCHANGED <<requests, friendships, rowLock, leftover, told>>

RejectUpdate(t) == At(t, "rejectUpdate") /\ WriteRequest(t, "pending", "rejected", "reject")

-----------------------------------------------------------------------------
\* A statement fails and has no effect.  acceptFriendRequest rolls back (after
\* a failed COMMIT the server has); the others have no transaction of their own
\* and leave an open one open.
FriendFails(t) ==
    /\ StorageMayFail
    /\ ~At(t, "idle")
    /\ IF handler[t].pc \in AcceptSteps THEN Unlock(t) ELSE UNCHANGED rowLock
    /\ Return(t)
    /\ UNCHANGED <<requests, friendships, leftover, told>>

\* The connection ends, and with it, rolled back, the transaction left open on it.
ConnectionLost(t) ==
    /\ StorageMayFail
    /\ LeftOpen(t)
    /\ Unlock(t)
    /\ Forget(t)
    /\ Return(t)
    /\ UNCHANGED <<requests, friendships, told>>

\* The row a thread's statement waits for.
NextRow(t) ==
    CASE At(t, "insertFirst") -> FriendRow(Pair(t))
      [] At(t, "insertSecond") -> FriendRow(Mirror(Pair(t)))
      [] OTHER -> RequestRow(Pair(t))

WaitsFor(t, other) ==
    /\ handler[t].pc \in {"insert", "acceptUpdate", "rejectUpdate",
                          "insertFirst", "insertSecond"}
    /\ rowLock[NextRow(t)] = other
    /\ other # t

\* InnoDB breaks a cycle of waits: the victim's transaction is rolled back and
\* its statement answers with an error.
DeadlockVictim(t) ==
    /\ \E other \in Threads : WaitsFor(t, other) /\ WaitsFor(other, t)
    /\ Unlock(t)
    /\ Forget(t)
    /\ Return(t)
    /\ UNCHANGED <<requests, friendships, told>>

FriendStep(t) ==
    \/ CheckFriends(t) \/ CheckExisting(t) \/ CheckReverse(t) \/ InsertRequest(t)
    \/ AcceptRead(t) \/ AcceptUpdate(t) \/ InsertFirst(t) \/ InsertSecond(t)
    \/ CommitAccept(t)
    \/ RejectRead(t) \/ RejectUpdate(t)
    \/ DeadlockVictim(t)

FriendNext ==
    \E t \in Threads :
        \/ BeginFriend(t) \/ BeginAccept(t) \/ FriendStep(t)
        \/ FriendFails(t) \/ AcceptRefused(t) \/ ConnectionLost(t)

FriendSpec == FriendInit /\ [][FriendNext]_friendVars

-----------------------------------------------------------------------------
FriendTypeOK ==
    /\ requests \in [FriendPairs -> {"none", "pending", "accepted", "rejected"}]
    /\ friendships \subseteq FriendPairs
    /\ rowLock \in [Rows -> Threads \cup {None}]
    /\ leftover \in [Threads -> [FriendPairs -> {"none", "pending", "accepted", "rejected"}]]
    /\ handler \in [Threads -> [pc : AddSteps \cup AcceptSteps \cup RejectSteps,
                                pair : FriendPairs] \cup {NoHandler}]
    /\ told \subseteq {"add", "accept", "reject"} \X FriendPairs

\* Each is on the other's friend list exactly when one of them accepted a
\* request of the other, whatever handlers of the two ran into each other: the
\* two requests may cross, be accepted at once, and one of the transactions be
\* the victim of the deadlock between them; and a transaction whose COMMIT was
\* refused may be committed later, with the rows of others, or be rolled back.
FriendsIffAccepted ==
    \A p \in FriendPairs :
        AreFriends(p) <=> "accepted" \in {requests[p], requests[Mirror(p)]}

\* What a handler committed and answered with OK stays true: accept and reject
\* of one request run at once, or twice, and exactly one of them is told that it
\* won.  (The OK of a statement that joined a transaction left open promises
\* less: the row goes when that transaction is rolled back.)
AnswerStaysTrue ==
    \A p \in FriendPairs :
        /\ <<"add", p>> \in told => requests[p] # "none"
        /\ <<"accept", p>> \in told => requests[p] = "accepted"
        /\ <<"reject", p>> \in told => requests[p] = "rejected"

\* A row stays locked only while a thread is inside the transaction that locked
\* it, or after a COMMIT of that connection was refused: no other error path
\* gives the connection back with the transaction open.
LocksHaveOwner ==
    \A p \in FriendPairs, t \in Threads : ~LeftOpen(t) =>
        /\ rowLock[RequestRow(p)] = t
           => Pair(t) = p /\ handler[t].pc \in {"insertFirst", "insertSecond", "commit"}
        /\ rowLock[FriendRow(p)] = t
           => \/ Pair(t) = p /\ handler[t].pc \in {"insertSecond", "commit"}
              \/ Pair(t) = Mirror(p) /\ handler[t].pc = "commit"
=============================================================================
