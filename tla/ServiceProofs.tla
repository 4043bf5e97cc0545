---------------------------- MODULE ServiceProofs ----------------------------
(***************************************************************************)
(* The safety properties of the friend and history services: for           *)
(* FriendService any number of users and business threads, with and        *)
(* without storage errors; for History any number of users, groups and     *)
(* messages, any page limit and any order of sends and reads.              *)
(***************************************************************************)
EXTENDS FriendService, History, Integers, FiniteSetTheorems, TLAPS

-----------------------------------------------------------------------------
(* FriendService. *)

\* Past its UPDATE an accepting transaction has the request's row locked, and
\* the committed row is still pending.
HoldingSteps == {"insertFirst", "insertSecond", "commit"}

AcceptHoldsRow(t) ==
    handler[t].pc \in HoldingSteps =>
        /\ rowLock[RequestRow(Pair(t))] = t
        /\ requests[Pair(t)] = "pending"

\* A transaction left open has locked each row it wrote, and no other handler
\* has answered that request; an accept begins with none left open.
LeftoverHoldsRows(t) ==
    /\ \A p \in FriendPairs : leftover[t][p] # "none" =>
           rowLock[RequestRow(p)] = t /\ requests[p] \in {"none", "pending"}
    /\ handler[t].pc \in AcceptSteps => leftover[t] = NoWrites

FriendInv ==
    /\ FriendTypeOK
    /\ \A t \in Threads : AcceptHoldsRow(t) /\ LeftoverHoldsRows(t)

-----------------------------------------------------------------------------
LEMMA MirrorIsPair ==
    ASSUME NEW p \in FriendPairs
    PROVE  Mirror(p) \in FriendPairs /\ Mirror(Mirror(p)) = p /\ p = <<p[1], p[2]>>
BY DEF FriendPairs, Mirror

\* A handler that is not idle works on a pair of users.
LEMMA HandlerHasPair ==
    ASSUME FriendTypeOK, NEW t \in Threads, ~At(t, "idle")
    PROVE  /\ Pair(t) \in FriendPairs
           /\ handler[t] \in [pc : AddSteps \cup AcceptSteps \cup RejectSteps, pair : FriendPairs]
BY DEF FriendTypeOK, At, Pair, NoHandler

\* Moving a handler on, and ending it, keep the type of the handlers.
LEMMA StepType ==
    ASSUME FriendTypeOK, NEW t \in Threads, ~At(t, "idle"),
           NEW pc \in AddSteps \cup AcceptSteps \cup RejectSteps, Step(t, pc)
    PROVE  /\ handler' \in [Threads -> [pc : AddSteps \cup AcceptSteps \cup RejectSteps,
                                        pair : FriendPairs] \cup {NoHandler}]
           /\ handler'[t].pc = pc /\ Pair(t)' = Pair(t)
           /\ \A u \in Threads \ {t} : handler'[u] = handler[u]
<1>1. handler[t] \in [pc : AddSteps \cup AcceptSteps \cup RejectSteps, pair : FriendPairs]
    BY HandlerHasPair
<1>2. [handler[t] EXCEPT !.pc = pc]
          \in [pc : AddSteps \cup AcceptSteps \cup RejectSteps, pair : FriendPairs]
    BY <1>1
<1>3. handler' = [handler EXCEPT ![t] = [handler[t] EXCEPT !.pc = pc]]
    BY DEF Step
<1>4. handler'[t] = [handler[t] EXCEPT !.pc = pc]
    BY <1>3 DEF FriendTypeOK
<1> QED
    BY <1>1, <1>2, <1>3, <1>4 DEF FriendTypeOK, Pair

LEMMA ReturnType ==
    ASSUME FriendTypeOK, NEW t \in Threads, Return(t)
    PROVE  /\ handler' \in [Threads -> [pc : AddSteps \cup AcceptSteps \cup RejectSteps,
                                        pair : FriendPairs] \cup {NoHandler}]
           /\ handler'[t].pc = "idle"
           /\ \A u \in Threads \ {t} : handler'[u] = handler[u]
BY DEF FriendTypeOK, Return, NoHandler

\* Locking and unlocking keep the type of the locks.
LEMMA LockType ==
    ASSUME FriendTypeOK, NEW t \in Threads, NEW r \in Rows, Lock(t, r)
    PROVE  rowLock' \in [Rows -> Threads \cup {None}]
BY DEF FriendTypeOK, Lock

LEMMA UnlockType ==
    ASSUME FriendTypeOK, NEW t \in Threads, Unlock(t)
    PROVE  rowLock' \in [Rows -> Threads \cup {None}]
BY DEF FriendTypeOK, Unlock

LEMMA RowsOfPair ==
    ASSUME NEW p \in FriendPairs
    PROVE  RequestRow(p) \in Rows /\ FriendRow(p) \in Rows
BY DEF RequestRow, FriendRow, Rows

LEMMA AnswerType ==
    ASSUME FriendTypeOK, NEW t \in Threads, ~At(t, "idle"),
           NEW op \in {"add", "accept", "reject"}, Answer(t, op)
    PROVE  told' \subseteq {"add", "accept", "reject"} \X FriendPairs
BY HandlerHasPair DEF FriendTypeOK, Answer

-----------------------------------------------------------------------------
\* Locking a row that is free takes it from no other thread, and the end of a
\* transaction frees only its own rows.
LEMMA LockSparesOthers ==
    ASSUME FriendTypeOK, NEW t \in Threads, NEW r \in Rows, Free(t, r), Lock(t, r)
    PROVE  /\ \A u \in Threads \ {t}, q \in Rows : rowLock[q] = u => rowLock'[q] = u
           /\ rowLock'[r] = t
           /\ \A q \in Rows : rowLock[q] = t => rowLock'[q] = t
BY BusinessAssumption DEF FriendTypeOK, Free, Lock

LEMMA UnlockSparesOthers ==
    ASSUME FriendTypeOK, NEW t \in Threads, Unlock(t)
    PROVE  \A u \in Threads \ {t}, q \in Rows : rowLock[q] = u => rowLock'[q] = u
BY DEF FriendTypeOK, Unlock

\* What a step of thread t must do for the invariant to survive: it leaves the
\* other handlers, what they left open, their locks and the rows they locked
\* alone, and takes care of its own.
LEMMA InvKept ==
    ASSUME FriendInv, FriendTypeOK', NEW t \in Threads,
           \A u \in Threads \ {t} : handler'[u] = handler[u] /\ leftover'[u] = leftover[u],
           \A u \in Threads \ {t}, r \in Rows : rowLock[r] = u => rowLock'[r] = u,
           \A p \in FriendPairs :
               requests'[p] # requests[p] => rowLock[RequestRow(p)] \in {None, t},
           AcceptHoldsRow(t)', LeftoverHoldsRows(t)'
    PROVE  FriendInv'
<1> SUFFICES ASSUME NEW u \in Threads, u # t
             PROVE  AcceptHoldsRow(u)' /\ LeftoverHoldsRows(u)'
    BY Zenon DEF FriendInv
<1>1. handler'[u] = handler[u] /\ Pair(u)' = Pair(u) /\ leftover'[u] = leftover[u]
    BY DEF Pair
<1>2. ASSUME NEW p \in FriendPairs, rowLock[RequestRow(p)] = u
      PROVE  rowLock'[RequestRow(p)] = u /\ requests'[p] = requests[p]
    BY <1>2, RowsOfPair, BusinessAssumption
<1>3. AcceptHoldsRow(u) /\ LeftoverHoldsRows(u)
    BY DEF FriendInv
<1>4. AcceptHoldsRow(u)'
  <2>1. handler[u].pc \in HoldingSteps => Pair(u) \in FriendPairs
    BY HandlerHasPair DEF FriendInv, At, HoldingSteps
  <2> QED
    BY <1>1, <1>2, <1>3, <2>1, Zenon DEF AcceptHoldsRow
<1>5. LeftoverHoldsRows(u)'
    BY <1>1, <1>2, <1>3, Zenon DEF LeftoverHoldsRows
<1> QED
    BY <1>4, <1>5

\* A step that only moves a handler.
LEMMA MoveKeepsInv ==
    ASSUME FriendInv, NEW t \in Threads, FriendTypeOK',
           \A u \in Threads \ {t} : handler'[u] = handler[u],
           UNCHANGED <<requests, rowLock, leftover>>,
           handler'[t].pc \notin HoldingSteps,
           handler'[t].pc \in AcceptSteps => handler[t].pc \in AcceptSteps
    PROVE  FriendInv'
<1>1. AcceptHoldsRow(t)'
    BY DEF AcceptHoldsRow
<1>2. LeftoverHoldsRows(t)'
    BY Zenon DEF FriendInv, LeftoverHoldsRows
<1> QED
    BY <1>1, <1>2, InvKept

\* A handler ends, its transaction and any left open before it are over.
LEMMA EndKeepsInv ==
    ASSUME FriendInv, NEW t \in Threads, Unlock(t), Return(t),
           leftover' = leftover \/ Forget(t),
           LeftOpen(t) => Forget(t),
           UNCHANGED <<requests, friendships, told>>
    PROVE  FriendInv'
<1>1. leftover' \in [Threads -> [FriendPairs -> {"none", "pending", "accepted", "rejected"}]]
      /\ leftover'[t] = NoWrites /\ \A u \in Threads \ {t} : leftover'[u] = leftover[u]
    BY DEF FriendInv, FriendTypeOK, Forget, NoWrites, LeftOpen
<1>2. FriendTypeOK'
    BY <1>1, ReturnType, UnlockType DEF FriendInv, FriendTypeOK
<1>3. handler'[t].pc = "idle" /\ \A u \in Threads \ {t} : handler'[u] = handler[u]
    BY ReturnType DEF FriendInv
<1>4. AcceptHoldsRow(t)' /\ LeftoverHoldsRows(t)'
    BY <1>1, <1>3 DEF AcceptHoldsRow, LeftoverHoldsRows, HoldingSteps, AcceptSteps, NoWrites
<1> QED
    BY <1>1, <1>2, <1>3, <1>4, UnlockSparesOthers, InvKept DEF FriendInv

\* Beginning a handler that opens no transaction, and the reads.
LEMMA ReadsKeepInv ==
    ASSUME FriendInv, NEW t \in Threads,
           BeginFriend(t) \/ CheckFriends(t) \/ CheckExisting(t) \/ CheckReverse(t)
               \/ AcceptRead(t) \/ RejectRead(t)
    PROVE  FriendInv'
<1> USE DEF FriendInv
<1>1. ASSUME BeginFriend(t) PROVE FriendInv'
  <2>1. PICK p \in FriendPairs, pc \in {"areFriends", "rejectRead"} :
            handler' = [handler EXCEPT ![t] = [pc |-> pc, pair |-> p]]
    BY <1>1, Zenon DEF BeginFriend
  <2>2. FriendTypeOK'
    BY <1>1, <2>1 DEF BeginFriend, FriendTypeOK, AddSteps, RejectSteps
  <2>3. handler'[t].pc \notin AcceptSteps \cup HoldingSteps
    BY <2>1 DEF FriendTypeOK, HoldingSteps, AcceptSteps
  <2>4. \A u \in Threads \ {t} : handler'[u] = handler[u]
    BY <2>1 DEF FriendTypeOK
  <2> QED
    BY <1>1, <2>2, <2>3, <2>4, MoveKeepsInv DEF BeginFriend
<1>2. ASSUME UNCHANGED <<requests, friendships, rowLock, leftover, told>>, Return(t)
      PROVE  FriendInv'
  <2>1. FriendTypeOK'
    BY <1>2, ReturnType DEF FriendTypeOK
  <2> QED
    BY <1>2, <2>1, ReturnType, MoveKeepsInv DEF HoldingSteps, AcceptSteps
<1>3. ASSUME UNCHANGED <<requests, friendships, rowLock, leftover, told>>, ~At(t, "idle"),
             NEW next \in (AddSteps \cup AcceptSteps \cup RejectSteps) \ HoldingSteps,
             Step(t, next), next \in AcceptSteps => handler[t].pc \in AcceptSteps
      PROVE  FriendInv'
  <2>1. FriendTypeOK'
    BY <1>3, StepType DEF FriendTypeOK
  <2> QED
    BY <1>3, <2>1, StepType, MoveKeepsInv
<1>4. ASSUME NEW from \in AddSteps, NEW exists, NEW next \in AddSteps,
             CheckBefore(t, from, exists, next)
      PROVE  FriendInv'
  <2>1. ~At(t, "idle") /\ next \notin AcceptSteps \cup HoldingSteps
    BY <1>4 DEF CheckBefore, At, AddSteps, AcceptSteps, HoldingSteps
  <2>2. CASE Return(t)
    BY <1>2, <1>4, <2>2 DEF CheckBefore
  <2>3. CASE Step(t, next)
    BY <1>3, <1>4, <2>1, <2>3 DEF CheckBefore
  <2> QED
    BY <1>4, <2>2, <2>3 DEF CheckBefore
<1>5. CASE AcceptRead(t)
  <2>1. ~At(t, "idle") /\ handler[t].pc \in AcceptSteps
    BY <1>5 DEF AcceptRead, At, AcceptSteps
  <2>2. "acceptUpdate" \in AcceptSteps \ HoldingSteps
    BY DEF AcceptSteps, HoldingSteps
  <2> QED
    BY <1>2, <1>3, <1>5, <2>1, <2>2 DEF AcceptRead
<1>6. CASE RejectRead(t)
  <2>1. ~At(t, "idle")
    BY <1>6 DEF RejectRead, At
  <2>2. "rejectUpdate" \in RejectSteps \ (AcceptSteps \cup HoldingSteps)
    BY DEF AcceptSteps, HoldingSteps, RejectSteps
  <2> QED
    BY <1>2, <1>3, <1>6, <2>1, <2>2 DEF RejectRead
<1> QED
    BY <1>1, <1>4, <1>5, <1>6 DEF CheckFriends, CheckExisting, CheckReverse, AddSteps

\* The INSERT of createFriendRequest and the UPDATE of rejectFriendRequest,
\* autocommitted or inside a transaction left open.
LEMMA WriteKeepsInv ==
    ASSUME FriendInv, NEW t \in Threads, ~At(t, "idle"),
           NEW old \in {"none", "pending"}, NEW new \in {"pending", "rejected"},
           NEW op \in {"add", "reject"}, WriteRequest(t, old, new, op)
    PROVE  FriendInv'
<1> USE DEF FriendInv
<1> DEFINE p == Pair(t)
           r == RequestRow(p)
<1>1. p \in FriendPairs /\ r \in Rows
    BY HandlerHasPair, RowsOfPair
<1>2. Free(t, r) /\ Return(t) /\ friendships' = friendships
    BY DEF WriteRequest
<1>3. /\ handler' \in [Threads -> [pc : AddSteps \cup AcceptSteps \cup RejectSteps,
                                   pair : FriendPairs] \cup {NoHandler}]
      /\ handler'[t].pc = "idle" /\ \A u \in Threads \ {t} : handler'[u] = handler[u]
    BY <1>2, ReturnType
<1>4. AcceptHoldsRow(t)' /\ handler'[t].pc \notin AcceptSteps
    BY <1>3 DEF AcceptHoldsRow, HoldingSteps, AcceptSteps
<1>5. ASSUME NoWrite(t) PROVE FriendInv'
  <2>1. UNCHANGED <<requests, leftover, told>>
    BY <1>5 DEF NoWrite
  <2>2. Lock(t, r) \/ rowLock' = rowLock
    BY <1>5 DEF NoWrite
  <2>3. /\ rowLock' \in [Rows -> Threads \cup {None}]
        /\ \A u \in Threads \ {t}, q \in Rows : rowLock[q] = u => rowLock'[q] = u
        /\ \A q \in Rows : rowLock[q] = t => rowLock'[q] = t
    BY <1>1, <1>2, <2>2, LockType, LockSparesOthers DEF FriendTypeOK
  <2>4. FriendTypeOK'
    BY <1>2, <1>3, <2>1, <2>3, Zenon DEF FriendTypeOK
  <2>5. LeftoverHoldsRows(t)'
    BY <1>4, <2>1, <2>3, RowsOfPair, Zenon DEF LeftoverHoldsRows
  <2> QED
    BY <1>3, <1>4, <2>1, <2>3, <2>4, <2>5, InvKept
<1>6. ASSUME JoinWrite(t, new), Latest(t, p) = old PROVE FriendInv'
  <2>1. UNCHANGED <<requests, told>> /\ Lock(t, r)
        /\ leftover' = [leftover EXCEPT ![t] = [leftover[t] EXCEPT ![p] = new]]
    BY <1>6 DEF JoinWrite
  <2>2. /\ leftover' \in [Threads -> [FriendPairs -> {"none", "pending", "accepted", "rejected"}]]
        /\ \A u \in Threads \ {t} : leftover'[u] = leftover[u]
        /\ \A q \in FriendPairs : q # p => leftover'[t][q] = leftover[t][q]
    BY <1>1, <2>1 DEF FriendTypeOK
  <2>3. /\ rowLock' \in [Rows -> Threads \cup {None}]
        /\ \A u \in Threads \ {t}, q \in Rows : rowLock[q] = u => rowLock'[q] = u
        /\ \A q \in Rows : rowLock[q] = t => rowLock'[q] = t
        /\ rowLock'[r] = t
    BY <1>1, <1>2, <2>1, LockType, LockSparesOthers
  <2>4. FriendTypeOK'
    BY <1>2, <1>3, <2>1, <2>2, <2>3, Zenon DEF FriendTypeOK
  <2>5. requests[p] \in {"none", "pending"}
    BY <1>1, <1>6 DEF Latest, LeftoverHoldsRows
  <2>6. LeftoverHoldsRows(t)'
    <3> SUFFICES ASSUME NEW q \in FriendPairs, leftover'[t][q] # "none"
                 PROVE  rowLock'[RequestRow(q)] = t /\ requests'[q] \in {"none", "pending"}
      BY <1>4, Zenon DEF LeftoverHoldsRows
    <3>1. CASE q = p
      BY <2>1, <2>3, <2>5, <3>1
    <3>2. CASE q # p
      <4>1. rowLock[RequestRow(q)] = t /\ requests[q] \in {"none", "pending"}
        BY <2>2, <3>2 DEF LeftoverHoldsRows
      <4> QED
        BY <2>1, <2>3, <4>1, RowsOfPair
    <3> QED
      BY <3>1, <3>2
  <2> QED
    BY <1>3, <1>4, <2>1, <2>2, <2>3, <2>4, <2>6, InvKept
<1>7. ASSUME CommitWrite(t, new, op), ~LeftOpen(t) PROVE FriendInv'
  <2>1. requests' = [requests EXCEPT ![p] = new] /\ Answer(t, op) /\ UNCHANGED <<rowLock, leftover>>
    BY <1>7 DEF CommitWrite
  <2>2. told' \subseteq {"add", "accept", "reject"} \X FriendPairs
    BY <2>1, AnswerType
  <2>3. FriendTypeOK'
    BY <1>1, <1>2, <1>3, <2>1, <2>2 DEF FriendTypeOK
  <2>4. \A q \in FriendPairs : requests'[q] # requests[q] => q = p
    BY <1>1, <2>1 DEF FriendTypeOK
  <2>5. \A q \in FriendPairs : leftover'[t][q] = "none"
    BY <1>7, <2>1 DEF LeftOpen, NoWrites
  <2>6. LeftoverHoldsRows(t)'
    BY <1>4, <2>5, Zenon DEF LeftoverHoldsRows
  <2> QED
    BY <1>2, <1>3, <1>4, <2>1, <2>3, <2>4, <2>6, InvKept DEF Free
<1> QED
    BY <1>5, <1>6, <1>7 DEF WriteRequest

LEMMA WritesKeepInv ==
    ASSUME FriendInv, NEW t \in Threads, InsertRequest(t) \/ RejectUpdate(t)
    PROVE  FriendInv'
<1>1. ~At(t, "idle")
    BY DEF InsertRequest, RejectUpdate, At
<1> QED
    BY <1>1, WriteKeepsInv DEF InsertRequest, RejectUpdate

\* START TRANSACTION: what was left open is committed, and its rows are free.
LEMMA BeginAcceptKeepsInv ==
    ASSUME FriendInv, NEW t \in Threads, BeginAccept(t)
    PROVE  FriendInv'
<1> USE DEF FriendInv
<1>1. PICK p \in FriendPairs : handler' = [handler EXCEPT ![t] = [pc |-> "acceptRead", pair |-> p]]
    BY Zenon DEF BeginAccept
<1>2. /\ handler' \in [Threads -> [pc : AddSteps \cup AcceptSteps \cup RejectSteps,
                                   pair : FriendPairs] \cup {NoHandler}]
      /\ handler'[t].pc = "acceptRead" /\ \A u \in Threads \ {t} : handler'[u] = handler[u]
    BY <1>1 DEF FriendTypeOK, AcceptSteps
<1>3. /\ leftover' \in [Threads -> [FriendPairs -> {"none", "pending", "accepted", "rejected"}]]
      /\ leftover'[t] = NoWrites /\ \A u \in Threads \ {t} : leftover'[u] = leftover[u]
    BY DEF BeginAccept, Forget, FriendTypeOK, NoWrites
<1>4. requests' = [q \in FriendPairs |-> Latest(t, q)] /\ Unlock(t) /\ told' = told
    BY DEF BeginAccept
<1>5. requests' \in [FriendPairs -> {"none", "pending", "accepted", "rejected"}]
    BY <1>4 DEF Latest, FriendTypeOK
<1>6. friendships' \subseteq FriendPairs
    BY DEF BeginAccept, FriendTypeOK
<1>7. FriendTypeOK'
    BY <1>2, <1>3, <1>4, <1>5, <1>6, UnlockType DEF FriendTypeOK
<1>8. \A q \in FriendPairs : requests'[q] # requests[q] => rowLock[RequestRow(q)] = t
    BY <1>4 DEF Latest, LeftoverHoldsRows
<1>9. AcceptHoldsRow(t)' /\ LeftoverHoldsRows(t)'
    BY <1>2, <1>3 DEF AcceptHoldsRow, LeftoverHoldsRows, HoldingSteps, NoWrites
<1> QED
    BY <1>2, <1>3, <1>4, <1>7, <1>8, <1>9, UnlockSparesOthers, InvKept

\* Every later step of acceptFriendRequest.
LEMMA AcceptKeepsInv ==
    ASSUME FriendInv, NEW t \in Threads,
           AcceptUpdate(t) \/ InsertFirst(t) \/ InsertSecond(t) \/ CommitAccept(t)
               \/ AcceptRefused(t)
    PROVE  FriendInv'
<1> USE DEF FriendInv
<1>0. ~At(t, "idle") /\ handler[t].pc \in AcceptSteps
    BY DEF AcceptUpdate, InsertFirst, InsertSecond, InsertFriendshipRow,
           CommitAccept, AcceptRefused, At, AcceptSteps
<1>1. /\ Pair(t) \in FriendPairs /\ Mirror(Pair(t)) \in FriendPairs
      /\ RequestRow(Pair(t)) \in Rows /\ FriendRow(Pair(t)) \in Rows
      /\ FriendRow(Mirror(Pair(t))) \in Rows
    BY <1>0, HandlerHasPair, MirrorIsPair, RowsOfPair
<1>2. leftover[t] = NoWrites
    BY <1>0 DEF LeftoverHoldsRows
<1>3. leftover' = leftover => LeftoverHoldsRows(t)'
    BY <1>2 DEF LeftoverHoldsRows, NoWrites
<1>4. ASSUME AcceptUpdate(t) PROVE FriendInv'
  <2>1. CASE requests[Pair(t)] = "pending"
    <3>1. Lock(t, RequestRow(Pair(t))) /\ Step(t, "insertFirst") /\ Free(t, RequestRow(Pair(t)))
          /\ UNCHANGED <<requests, friendships, leftover, told>>
      BY <1>4, <2>1 DEF AcceptUpdate
    <3>2. FriendTypeOK'
      BY <1>0, <1>1, <3>1, StepType, LockType DEF FriendTypeOK, AcceptSteps
    <3>3. Pair(t)' = Pair(t) /\ \A u \in Threads \ {t} : handler'[u] = handler[u]
      BY <1>0, <3>1, StepType DEF AcceptSteps
    <3>4. rowLock'[RequestRow(Pair(t))] = t
          /\ \A u \in Threads \ {t}, q \in Rows : rowLock[q] = u => rowLock'[q] = u
      BY <1>1, <3>1, LockSparesOthers
    <3>5. AcceptHoldsRow(t)'
      BY <2>1, <3>1, <3>3, <3>4 DEF AcceptHoldsRow
    <3> QED
      BY <1>3, <3>1, <3>2, <3>3, <3>4, <3>5, InvKept
  <2>2. CASE requests[Pair(t)] # "pending"
    BY <1>2, <1>4, <2>2, EndKeepsInv, SMTT(20) DEF AcceptUpdate, LeftOpen
  <2> QED
    BY <2>1, <2>2
<1>5. ASSUME NEW from \in HoldingSteps, NEW next \in HoldingSteps, NEW p \in FriendPairs,
             InsertFriendshipRow(t, from, p, next)
      PROVE  FriendInv'
  <2>1. Free(t, FriendRow(p)) /\ Lock(t, FriendRow(p)) /\ Step(t, next) /\ FriendRow(p) \in Rows
        /\ UNCHANGED <<requests, friendships, leftover, told>>
    BY <1>5, RowsOfPair DEF InsertFriendshipRow
  <2>2. next \in AcceptSteps
    BY Zenon DEF HoldingSteps, AcceptSteps
  <2>3. FriendTypeOK'
    BY <1>0, <2>1, <2>2, StepType, LockType, SMTT(20) DEF FriendTypeOK
  <2>4. Pair(t)' = Pair(t) /\ \A u \in Threads \ {t} : handler'[u] = handler[u]
    BY <1>0, <2>1, <2>2, StepType, SMTT(20)
  <2>5. rowLock[RequestRow(Pair(t))] = t /\ requests[Pair(t)] = "pending"
    BY <1>5, Zenon DEF InsertFriendshipRow, At, AcceptHoldsRow
  <2>6. rowLock'[RequestRow(Pair(t))] = t
        /\ \A u \in Threads \ {t}, q \in Rows : rowLock[q] = u => rowLock'[q] = u
    BY <1>1, <2>1, <2>5, LockSparesOthers, SMTT(20)
  <2>7. AcceptHoldsRow(t)'
    BY <2>1, <2>4, <2>5, <2>6 DEF AcceptHoldsRow
  <2> QED
    BY <1>3, <2>1, <2>3, <2>4, <2>6, <2>7, InvKept
<1>6. ASSUME At(t, "commit") PROVE rowLock[RequestRow(Pair(t))] = t /\ requests[Pair(t)] = "pending"
    BY <1>6 DEF At, AcceptHoldsRow, HoldingSteps
<1>7. ASSUME Return(t) PROVE AcceptHoldsRow(t)' /\ handler'[t].pc \notin AcceptSteps
    BY <1>7, ReturnType, SMTT(20) DEF AcceptHoldsRow, HoldingSteps, AcceptSteps
<1>8. ASSUME CommitAccept(t) PROVE FriendInv'
  <2>1. told' \subseteq {"add", "accept", "reject"} \X FriendPairs
    BY <1>0, <1>8, AnswerType DEF CommitAccept
  <2>2. FriendTypeOK'
    BY <1>1, <1>8, <2>1, ReturnType, UnlockType DEF CommitAccept, FriendTypeOK
  <2>3. \A p \in FriendPairs : requests'[p] # requests[p] => rowLock[RequestRow(p)] = t
    BY <1>1, <1>6, <1>8, SMTT(20) DEF CommitAccept, FriendTypeOK
  <2> QED
    BY <1>3, <1>7, <1>8, <2>2, <2>3, ReturnType, UnlockSparesOthers, InvKept DEF CommitAccept
<1>9. ASSUME AcceptRefused(t) PROVE FriendInv'
  <2>1. UNCHANGED <<requests, friendships, rowLock, told>> /\ Return(t) /\ At(t, "commit")
        /\ leftover' = [leftover EXCEPT ![t] = [leftover[t] EXCEPT ![Pair(t)] = "accepted"]]
    BY <1>9 DEF AcceptRefused
  <2>2. /\ leftover' \in [Threads -> [FriendPairs -> {"none", "pending", "accepted", "rejected"}]]
        /\ \A u \in Threads \ {t} : leftover'[u] = leftover[u]
        /\ \A q \in FriendPairs : q # Pair(t) => leftover'[t][q] = "none"
    BY <1>1, <1>2, <2>1 DEF FriendTypeOK, NoWrites
  <2>3. FriendTypeOK'
    BY <2>1, <2>2, ReturnType DEF FriendTypeOK
  <2>4. LeftoverHoldsRows(t)'
    BY <1>6, <1>7, <2>1, <2>2, Zenon DEF LeftoverHoldsRows
  <2> QED
    BY <1>7, <2>1, <2>2, <2>3, <2>4, ReturnType, InvKept
<1> QED
    BY <1>1, <1>4, <1>5, <1>8, <1>9 DEF InsertFirst, InsertSecond, HoldingSteps

\* A failing statement, a lost connection and a deadlock's victim.
LEMMA FailuresKeepInv ==
    ASSUME FriendInv, NEW t \in Threads,
           FriendFails(t) \/ ConnectionLost(t) \/ DeadlockVictim(t)
    PROVE  FriendInv'
<1>1. CASE ConnectionLost(t) \/ DeadlockVictim(t)
    BY <1>1, EndKeepsInv DEF ConnectionLost, DeadlockVictim
<1>2. CASE FriendFails(t) /\ handler[t].pc \in AcceptSteps
  <2>1. ~LeftOpen(t)
    BY <1>2 DEF FriendInv, LeftoverHoldsRows, LeftOpen
  <2> QED
    BY <1>2, <2>1, EndKeepsInv DEF FriendFails
<1>3. CASE FriendFails(t) /\ handler[t].pc \notin AcceptSteps
  <2>1. UNCHANGED <<requests, friendships, rowLock, leftover, told>> /\ Return(t)
    BY <1>3 DEF FriendFails
  <2>2. FriendTypeOK'
    BY <2>1, ReturnType DEF FriendInv, FriendTypeOK
  <2> QED
    BY <2>1, <2>2, ReturnType, MoveKeepsInv DEF FriendInv, HoldingSteps, AcceptSteps
<1> QED
    BY <1>1, <1>2, <1>3

LEMMA FriendInvStep == FriendInv /\ [FriendNext]_friendVars => FriendInv'
<1> SUFFICES ASSUME FriendInv, [FriendNext]_friendVars PROVE FriendInv'
    OBVIOUS
<1>1. CASE UNCHANGED friendVars
    BY <1>1 DEF friendVars, FriendInv, FriendTypeOK, AcceptHoldsRow, LeftoverHoldsRows, Pair
<1>2. CASE FriendNext
    BY <1>2, ReadsKeepInv, WritesKeepInv, BeginAcceptKeepsInv, AcceptKeepsInv, FailuresKeepInv
    DEF FriendNext, FriendStep
<1> QED
    BY <1>1, <1>2

LEMMA FriendInvInit == FriendInit => FriendInv
BY DEF FriendInit, FriendInv, FriendTypeOK, AcceptHoldsRow, LeftoverHoldsRows, HoldingSteps,
       AcceptSteps, NoHandler, NoWrites

\* The tables, the row locks and the handlers keep their types, and an accepting
\* transaction owns its request from the UPDATE to the COMMIT, and beyond when
\* the COMMIT is refused.
THEOREM AcceptOwnsRequest == FriendSpec => []FriendInv
<1> QED
    BY FriendInvInit, FriendInvStep, PTL DEF FriendSpec

-----------------------------------------------------------------------------
\* An autocommitted write finds the row in the status it asks for.
LEMMA WriteCases ==
    ASSUME FriendInv, NEW t \in Threads, InsertRequest(t) \/ RejectUpdate(t)
    PROVE  /\ friendships' = friendships
           /\ Pair(t) \in FriendPairs
           /\ \/ requests' = requests /\ told' = told
              \/ \E old \in {"none", "pending"}, new \in {"pending", "rejected"},
                    op \in {"add", "reject"} :
                    /\ <<old, new, op>> \in {<<"none", "pending", "add">>,
                                             <<"pending", "rejected", "reject">>}
                    /\ requests[Pair(t)] = old
                    /\ requests' = [requests EXCEPT ![Pair(t)] = new]
                    /\ Answer(t, op)
<1>1. Pair(t) \in FriendPairs
    BY HandlerHasPair DEF FriendInv, InsertRequest, RejectUpdate, At
<1>2. ASSUME NEW old \in {"none", "pending"}, NEW new \in {"pending", "rejected"},
             NEW op \in {"add", "reject"}, WriteRequest(t, old, new, op)
      PROVE  /\ friendships' = friendships
             /\ \/ requests' = requests /\ told' = told
                \/ /\ requests[Pair(t)] = old
                   /\ requests' = [requests EXCEPT ![Pair(t)] = new]
                   /\ Answer(t, op)
  <2>1. LeftOpen(t) \/ Latest(t, Pair(t)) = requests[Pair(t)]
    BY <1>1 DEF LeftOpen, Latest, NoWrites
  <2> QED
    BY <1>2, <2>1, Zenon DEF WriteRequest, NoWrite, JoinWrite, CommitWrite
<1>3. CASE InsertRequest(t)
    BY <1>1, <1>2, <1>3 DEF InsertRequest
<1>4. CASE RejectUpdate(t)
    BY <1>1, <1>2, <1>4 DEF RejectUpdate
<1> QED
    BY <1>3, <1>4

\* What START TRANSACTION commits for an earlier handler.
LEMMA CommitsLeftover ==
    ASSUME FriendInv, NEW t \in Threads, BeginAccept(t), NEW p \in FriendPairs
    PROVE  /\ leftover[t][p] = "none" => requests'[p] = requests[p]
           /\ leftover[t][p] # "none" =>
                  requests'[p] = leftover[t][p] /\ requests[p] \in {"none", "pending"}
BY DEF BeginAccept, Latest, FriendInv, LeftoverHoldsRows

\* The only steps that make friends are the COMMIT of an accept and the START
\* TRANSACTION after one that was refused, and each inserts both directions with
\* the new status of the request.
LEMMA FriendsStep == FriendInv /\ FriendsIffAccepted /\ [FriendNext]_friendVars => FriendsIffAccepted'
<1> SUFFICES ASSUME FriendInv, FriendsIffAccepted, [FriendNext]_friendVars
             PROVE  FriendsIffAccepted'
    OBVIOUS
<1>1. \A p \in FriendPairs : AreFriends(p) <=> p \in friendships
    BY DEF FriendInv, AreFriends, GetFriends, FriendPairs
<1>2. \A p \in FriendPairs : AreFriends(p)' <=> p \in friendships'
    BY DEF FriendInv, AreFriends, GetFriends, FriendPairs
<1>3. CASE /\ friendships' = friendships
           /\ \A p \in FriendPairs : requests'[p] = "accepted" <=> requests[p] = "accepted"
    BY <1>1, <1>2, <1>3, MirrorIsPair DEF FriendsIffAccepted
<1>4. CASE UNCHANGED friendVars
    BY <1>3, <1>4 DEF friendVars
<1>5. ASSUME NEW t \in Threads, CommitAccept(t) PROVE FriendsIffAccepted'
  <2>1. Pair(t) \in FriendPairs
    BY <1>5, HandlerHasPair DEF FriendInv, CommitAccept, At
  <2>2. requests' = [requests EXCEPT ![Pair(t)] = "accepted"]
        /\ friendships' = friendships \cup {Pair(t), Mirror(Pair(t))}
    BY <1>5 DEF CommitAccept
  <2>3. requests \in [FriendPairs -> {"none", "pending", "accepted", "rejected"}]
    BY DEF FriendInv, FriendTypeOK
  <2> SUFFICES ASSUME NEW p \in FriendPairs
               PROVE  AreFriends(p)' <=> "accepted" \in {requests'[p], requests'[Mirror(p)]}
    BY Zenon DEF FriendsIffAccepted, Mirror
  <2>4. CASE p = Pair(t) \/ p = Mirror(Pair(t))
    BY <1>2, <2>1, <2>2, <2>3, <2>4, MirrorIsPair
  <2>5. CASE p # Pair(t) /\ p # Mirror(Pair(t))
    <3>1. Mirror(p) # Pair(t)
      BY <2>1, <2>5, MirrorIsPair
    <3> QED
      BY <1>1, <1>2, <2>1, <2>2, <2>3, <2>5, <3>1, MirrorIsPair DEF FriendsIffAccepted
  <2> QED
    BY <2>4, <2>5
<1>6. ASSUME NEW t \in Threads, BeginAccept(t) PROVE FriendsIffAccepted'
  <2>1. friendships' = friendships
            \cup {p \in FriendPairs : "accepted" \in {leftover[t][p], leftover[t][Mirror(p)]}}
    BY <1>6 DEF BeginAccept
  <2>2. \A p \in FriendPairs :
            requests'[p] = "accepted" <=> requests[p] = "accepted" \/ leftover[t][p] = "accepted"
    BY <1>6, CommitsLeftover
  <2> SUFFICES ASSUME NEW p \in FriendPairs
               PROVE  AreFriends(p)' <=> "accepted" \in {requests'[p], requests'[Mirror(p)]}
    BY Zenon DEF FriendsIffAccepted, Mirror
  <2>3. p \in friendships <=> "accepted" \in {requests[p], requests[Mirror(p)]}
    BY <1>1 DEF FriendsIffAccepted
  <2> QED
    BY <1>2, <2>1, <2>2, <2>3, MirrorIsPair
<1>7. ASSUME NEW t \in Threads,
             BeginFriend(t) \/ CheckFriends(t) \/ CheckExisting(t) \/ CheckReverse(t)
               \/ AcceptRead(t) \/ AcceptUpdate(t) \/ InsertFirst(t) \/ InsertSecond(t)
               \/ AcceptRefused(t) \/ RejectRead(t) \/ FriendFails(t) \/ ConnectionLost(t)
               \/ DeadlockVictim(t)
      PROVE  FriendsIffAccepted'
    BY <1>3, <1>7 DEF BeginFriend, CheckFriends, CheckExisting, CheckReverse, CheckBefore,
        AcceptRead, AcceptUpdate, InsertFirst, InsertSecond, InsertFriendshipRow,
        AcceptRefused, RejectRead, FriendFails, ConnectionLost, DeadlockVictim
<1>8. ASSUME NEW t \in Threads, InsertRequest(t) \/ RejectUpdate(t) PROVE FriendsIffAccepted'
  <2>1. friendships' = friendships
    BY <1>8, WriteCases
  <2>2. \A p \in FriendPairs : requests'[p] = "accepted" <=> requests[p] = "accepted"
    BY <1>8, WriteCases DEF FriendInv, FriendTypeOK
  <2> QED
    BY <1>3, <2>1, <2>2
<1> QED
    BY <1>4, <1>5, <1>6, <1>7, <1>8 DEF FriendNext, FriendStep

\* Two users are friends, in both directions, exactly when one accepted the
\* other's request: the transaction of acceptFriendRequest is all or nothing
\* also when it is the victim of a deadlock or its COMMIT is refused.
THEOREM FriendshipIsMutual == FriendSpec => []FriendsIffAccepted
<1>1. FriendInit => FriendsIffAccepted
    BY MirrorIsPair DEF FriendInit, FriendsIffAccepted, AreFriends, GetFriends
<1> QED
    BY <1>1, FriendInvInit, FriendInvStep, FriendsStep, PTL DEF FriendSpec

-----------------------------------------------------------------------------
\* A request that has been answered is never answered again.
LEMMA AnswerStep == FriendInv /\ AnswerStaysTrue /\ [FriendNext]_friendVars => AnswerStaysTrue'
<1> SUFFICES ASSUME FriendInv, AnswerStaysTrue, [FriendNext]_friendVars
             PROVE  AnswerStaysTrue'
    OBVIOUS
<1>1. CASE requests' = requests /\ told' = told
    BY <1>1, Zenon DEF AnswerStaysTrue
<1>2. ASSUME NEW t \in Threads, NEW op \in {"add", "accept", "reject"}, NEW status,
             Pair(t) \in FriendPairs,
             requests' = [requests EXCEPT ![Pair(t)] = status],
             Answer(t, op),
             \/ op = "add" /\ requests[Pair(t)] = "none" /\ status = "pending"
             \/ op = "accept" /\ requests[Pair(t)] = "pending" /\ status = "accepted"
             \/ op = "reject" /\ requests[Pair(t)] = "pending" /\ status = "rejected"
      PROVE  AnswerStaysTrue'
  <2>1. told' \subseteq told \cup {<<op, Pair(t)>>}
    BY <1>2 DEF Answer
  <2> QED
    BY <1>2, <2>1, Zenon DEF AnswerStaysTrue, FriendInv, FriendTypeOK
<1>3. ASSUME NEW t \in Threads, CommitAccept(t) PROVE AnswerStaysTrue'
  <2>1. Pair(t) \in FriendPairs /\ requests[Pair(t)] = "pending"
    BY <1>3, HandlerHasPair DEF FriendInv, CommitAccept, At, AcceptHoldsRow, HoldingSteps
  <2> QED
    BY <1>2, <1>3, <2>1, Zenon DEF CommitAccept
<1>4. ASSUME NEW t \in Threads, InsertRequest(t) \/ RejectUpdate(t) PROVE AnswerStaysTrue'
    BY <1>1, <1>2, <1>4, WriteCases
<1>5. ASSUME NEW t \in Threads, BeginAccept(t) PROVE AnswerStaysTrue'
  <2>1. told' = told
    BY <1>5 DEF BeginAccept
  <2>2. \A p \in FriendPairs :
            /\ requests[p] \in {"accepted", "rejected"} => requests'[p] = requests[p]
            /\ requests[p] # "none" => requests'[p] # "none"
    BY <1>5, CommitsLeftover
  <2> QED
    BY <2>1, <2>2, Zenon DEF AnswerStaysTrue
<1>6. ASSUME NEW t \in Threads,
             BeginFriend(t) \/ CheckFriends(t) \/ CheckExisting(t) \/ CheckReverse(t)
               \/ AcceptRead(t) \/ AcceptUpdate(t) \/ InsertFirst(t) \/ InsertSecond(t)
               \/ AcceptRefused(t) \/ RejectRead(t) \/ FriendFails(t) \/ ConnectionLost(t)
               \/ DeadlockVictim(t)
      PROVE  AnswerStaysTrue'
    BY <1>1, <1>6 DEF BeginFriend, CheckFriends, CheckExisting, CheckReverse, CheckBefore,
        AcceptRead, AcceptUpdate, InsertFirst, InsertSecond, InsertFriendshipRow,
        AcceptRefused, RejectRead, FriendFails, ConnectionLost, DeadlockVictim
<1> QED
    BY <1>1, <1>3, <1>4, <1>5, <1>6 DEF FriendNext, FriendStep, friendVars

\* An OK stays true: of an accept and a reject of one request, however often they
\* are sent, one wins, because the UPDATE repeats the test of the status under
\* the row's lock, which a refused COMMIT keeps.
THEOREM AnswersAreFinal == FriendSpec => []AnswerStaysTrue
<1>1. FriendInit => AnswerStaysTrue
    BY DEF FriendInit, AnswerStaysTrue
<1> QED
    BY <1>1, FriendInvInit, FriendInvStep, AnswerStep, PTL DEF FriendSpec

-----------------------------------------------------------------------------
\* The rows a transaction may have locked at a step.
LocksOf(t) ==
    ~LeftOpen(t) =>
        \A p \in FriendPairs :
            /\ rowLock[RequestRow(p)] = t => Pair(t) = p /\ handler[t].pc \in HoldingSteps
            /\ rowLock[FriendRow(p)] = t
               => \/ Pair(t) = p /\ handler[t].pc \in {"insertSecond", "commit"}
                  \/ Pair(t) = Mirror(p) /\ handler[t].pc = "commit"

\* It is enough that the stepping thread keeps to it and takes no new row for
\* another thread.
LEMMA LocksKept ==
    ASSUME FriendTypeOK, LocksHaveOwner, NEW t \in Threads,
           \A u \in Threads \ {t} : handler'[u] = handler[u] /\ leftover'[u] = leftover[u],
           \A u \in Threads \ {t}, r \in Rows : rowLock'[r] = u => rowLock[r] = u,
           LocksOf(t)'
    PROVE  LocksHaveOwner'
BY RowsOfPair DEF LocksHaveOwner, LocksOf, LeftOpen, HoldingSteps, Pair

\* Outside its transaction a thread has no row, unless one was left open.
LEMMA NoLocksOutside ==
    ASSUME FriendTypeOK, LocksHaveOwner, NEW t \in Threads, ~LeftOpen(t),
           handler[t].pc \notin HoldingSteps
    PROVE  \A r \in Rows : rowLock[r] # t
<1> SUFFICES ASSUME NEW r \in Rows PROVE rowLock[r] # t
    OBVIOUS
<1>1. PICK p \in FriendPairs : r = RequestRow(p) \/ r = FriendRow(p)
    BY DEF Rows, RequestRow, FriendRow
<1> QED
    BY <1>1 DEF LocksHaveOwner, HoldingSteps

LEMMA LocksStep ==
    FriendInv /\ LocksHaveOwner /\ [FriendNext]_friendVars => LocksHaveOwner'
<1> SUFFICES ASSUME FriendInv, LocksHaveOwner, [FriendNext]_friendVars
             PROVE  LocksHaveOwner'
    OBVIOUS
<1>0. FriendTypeOK
    BY DEF FriendInv
<1>1. CASE UNCHANGED friendVars
    BY <1>1 DEF friendVars, LocksHaveOwner, LeftOpen, Pair
<1>2. ASSUME NEW t \in Threads, handler[t].pc \notin HoldingSteps,
             UNCHANGED <<rowLock, leftover>>,
             \A u \in Threads \ {t} : handler'[u] = handler[u]
      PROVE  LocksHaveOwner'
  <2>1. LocksOf(t)'
    BY <1>0, <1>2, NoLocksOutside, RowsOfPair DEF LocksOf, LeftOpen
  <2> QED
    BY <1>0, <1>2, <2>1, LocksKept
<1>3. ASSUME NEW t \in Threads, Unlock(t), leftover' = leftover \/ Forget(t),
             \A u \in Threads \ {t} : handler'[u] = handler[u]
      PROVE  LocksHaveOwner'
  <2>1. \A r \in Rows : rowLock'[r] # t
    BY <1>3, BusinessAssumption DEF Unlock
  <2>2. LocksOf(t)'
    BY <2>1, RowsOfPair DEF LocksOf
  <2>3. \A u \in Threads \ {t}, r \in Rows : rowLock'[r] = u => rowLock[r] = u
    BY <1>3, BusinessAssumption DEF Unlock
  <2>4. \A u \in Threads \ {t} : leftover'[u] = leftover[u]
    BY <1>0, <1>3 DEF Forget, FriendTypeOK
  <2> QED
    BY <1>0, <1>3, <2>2, <2>3, <2>4, LocksKept
<1>4. ASSUME NEW t \in Threads, NEW r \in Rows, Lock(t, r), leftover' = leftover,
             NEW next \in HoldingSteps, Step(t, next), ~At(t, "idle"), LocksOf(t)'
      PROVE  LocksHaveOwner'
  <2>1. \A u \in Threads \ {t}, q \in Rows : rowLock'[q] = u => rowLock[q] = u
    BY <1>0, <1>4 DEF Lock, FriendTypeOK
  <2>2. \A u \in Threads \ {t} : handler'[u] = handler[u]
    BY <1>0, <1>4, StepType DEF HoldingSteps, AcceptSteps
  <2> QED
    BY <1>0, <1>4, <2>1, <2>2, LocksKept
<1>5. ASSUME NEW t \in Threads, Return(t), LeftOpen(t)', NEW r \in Rows,
             Lock(t, r) \/ rowLock' = rowLock,
             \A u \in Threads \ {t} : leftover'[u] = leftover[u]
      PROVE  LocksHaveOwner'
  <2>1. \A u \in Threads \ {t}, q \in Rows : rowLock'[q] = u => rowLock[q] = u
    BY <1>0, <1>5 DEF Lock, FriendTypeOK
  <2>2. LocksOf(t)'
    BY <1>5 DEF LocksOf
  <2> QED
    BY <1>0, <1>5, <2>1, <2>2, ReturnType, LocksKept
<1>6. ASSUME NEW t \in Threads, BeginFriend(t) PROVE LocksHaveOwner'
    BY <1>0, <1>2, <1>6 DEF BeginFriend, At, HoldingSteps, FriendTypeOK
<1>7. ASSUME NEW t \in Threads, BeginAccept(t) PROVE LocksHaveOwner'
    BY <1>0, <1>3, <1>7 DEF BeginAccept, FriendTypeOK
<1>8. ASSUME NEW t \in Threads,
             CheckFriends(t) \/ CheckExisting(t) \/ CheckReverse(t) \/ AcceptRead(t)
               \/ RejectRead(t)
      PROVE  LocksHaveOwner'
  <2>1. handler[t].pc \notin HoldingSteps /\ UNCHANGED <<rowLock, leftover>>
    BY <1>8 DEF CheckFriends, CheckExisting, CheckReverse, CheckBefore,
        AcceptRead, RejectRead, At, HoldingSteps
  <2>2. Return(t) \/ \E pc : Step(t, pc)
    BY <1>8 DEF CheckFriends, CheckExisting, CheckReverse, CheckBefore, AcceptRead, RejectRead
  <2>3. \A u \in Threads \ {t} : handler'[u] = handler[u]
    BY <1>0, <2>2 DEF Return, Step, FriendTypeOK
  <2> QED
    BY <1>2, <2>1, <2>3
<1>9. ASSUME NEW t \in Threads, InsertRequest(t) \/ RejectUpdate(t) PROVE LocksHaveOwner'
  <2>1. ~At(t, "idle") /\ Pair(t) \in FriendPairs /\ handler[t].pc \notin HoldingSteps
    BY <1>0, <1>9, HandlerHasPair DEF InsertRequest, RejectUpdate, At, HoldingSteps
  <2>2. PICK old \in {"none", "pending"}, new \in {"pending", "rejected"},
             op \in {"add", "reject"} : WriteRequest(t, old, new, op)
    BY <1>9 DEF InsertRequest, RejectUpdate
  <2>3. Return(t) /\ \A u \in Threads \ {t} : handler'[u] = handler[u]
    BY <1>0, <2>2, ReturnType DEF WriteRequest
  <2>4. CASE NoWrite(t)
    <3>1. CASE LeftOpen(t)
      BY <1>5, <2>1, <2>3, <2>4, <3>1, RowsOfPair DEF NoWrite, LeftOpen
    <3>2. CASE ~LeftOpen(t)
      BY <1>2, <2>1, <2>3, <2>4, <3>2 DEF NoWrite
    <3> QED
      BY <3>1, <3>2
  <2>5. CASE JoinWrite(t, new)
    <3>1. leftover' = [leftover EXCEPT ![t] = [leftover[t] EXCEPT ![Pair(t)] = new]]
      BY <2>5 DEF JoinWrite
    <3>2. leftover'[t][Pair(t)] = new /\ \A u \in Threads \ {t} : leftover'[u] = leftover[u]
      BY <1>0, <2>1, <3>1 DEF FriendTypeOK
    <3>3. LeftOpen(t)'
      BY <2>1, <3>2 DEF LeftOpen, NoWrites
    <3> QED
      BY <1>5, <2>1, <2>3, <2>5, <3>2, <3>3, RowsOfPair DEF JoinWrite
  <2>6. CASE CommitWrite(t, new, op)
    BY <1>2, <2>1, <2>3, <2>6 DEF CommitWrite
  <2> QED
    BY <2>2, <2>4, <2>5, <2>6 DEF WriteRequest
<1>10. ASSUME NEW t \in Threads, AcceptUpdate(t) PROVE LocksHaveOwner'
  <2>1. ~At(t, "idle") /\ Pair(t) \in FriendPairs /\ handler[t].pc \notin HoldingSteps
    BY <1>0, <1>10, HandlerHasPair DEF AcceptUpdate, At, HoldingSteps
  <2>2. ~LeftOpen(t) /\ leftover' = leftover
    BY <1>10 DEF AcceptUpdate, At, AcceptSteps, FriendInv, LeftoverHoldsRows, LeftOpen
  <2>3. CASE Lock(t, RequestRow(Pair(t))) /\ Step(t, "insertFirst")
    <3>1. handler'[t].pc = "insertFirst" /\ Pair(t)' = Pair(t)
      BY <1>0, <2>1, <2>3, StepType DEF AcceptSteps
    <3>2. \A q \in Rows : rowLock'[q] = t => q = RequestRow(Pair(t))
      BY <1>0, <2>1, <2>2, <2>3, NoLocksOutside, RowsOfPair DEF Lock, FriendTypeOK
    <3>3. LocksOf(t)'
      BY <3>1, <3>2, RowsOfPair, Zenon DEF LocksOf, RequestRow, FriendRow, HoldingSteps
    <3> QED
      BY <1>4, <2>1, <2>2, <2>3, <3>3, RowsOfPair DEF HoldingSteps
  <2>4. CASE Unlock(t) /\ Return(t)
    BY <1>0, <1>3, <2>2, <2>4, ReturnType
  <2> QED
    BY <1>10, <2>3, <2>4 DEF AcceptUpdate
<1>11. ASSUME NEW t \in Threads, InsertFirst(t) \/ InsertSecond(t) PROVE LocksHaveOwner'
  <2>1. ~At(t, "idle") /\ Pair(t) \in FriendPairs /\ Mirror(Pair(t)) \in FriendPairs
    BY <1>0, <1>11, HandlerHasPair, MirrorIsPair
    DEF InsertFirst, InsertSecond, InsertFriendshipRow, At
  <2>2. ~LeftOpen(t) /\ leftover' = leftover
    BY <1>11 DEF InsertFirst, InsertSecond, InsertFriendshipRow, At, AcceptSteps,
        FriendInv, LeftoverHoldsRows, LeftOpen
  <2>3. CASE InsertFirst(t)
    <3>1. /\ Lock(t, FriendRow(Pair(t))) /\ Step(t, "insertSecond")
          /\ handler[t].pc = "insertFirst"
      BY <2>3 DEF InsertFirst, InsertFriendshipRow, At
    <3>2. handler'[t].pc = "insertSecond" /\ Pair(t)' = Pair(t)
      BY <1>0, <2>1, <3>1, StepType DEF AcceptSteps
    <3>3. LocksOf(t)'
      BY <1>0, <2>1, <2>2, <3>1, <3>2, RowsOfPair, Zenon
      DEF LocksOf, LocksHaveOwner, Lock, RequestRow, FriendRow, HoldingSteps, FriendTypeOK
    <3> QED
      BY <1>4, <2>1, <2>2, <3>1, <3>3, RowsOfPair DEF HoldingSteps
  <2>4. CASE InsertSecond(t)
    <3>1. /\ Lock(t, FriendRow(Mirror(Pair(t)))) /\ Step(t, "commit")
          /\ handler[t].pc = "insertSecond"
      BY <2>4 DEF InsertSecond, InsertFriendshipRow, At
    <3>2. handler'[t].pc = "commit" /\ Pair(t)' = Pair(t)
      BY <1>0, <2>1, <3>1, StepType DEF AcceptSteps
    <3>3. LocksOf(t)'
      BY <1>0, <2>1, <2>2, <3>1, <3>2, RowsOfPair, MirrorIsPair, Zenon
      DEF LocksOf, LocksHaveOwner, Lock, RequestRow, FriendRow, HoldingSteps, FriendTypeOK
    <3> QED
      BY <1>4, <2>1, <2>2, <3>1, <3>3, RowsOfPair DEF HoldingSteps
  <2> QED
    BY <1>11, <2>3, <2>4
<1>12. ASSUME NEW t \in Threads, CommitAccept(t) \/ ConnectionLost(t) \/ DeadlockVictim(t)
       PROVE  LocksHaveOwner'
    BY <1>0, <1>3, <1>12, ReturnType DEF CommitAccept, ConnectionLost, DeadlockVictim
<1>13. ASSUME NEW t \in Threads, AcceptRefused(t) PROVE LocksHaveOwner'
  <2>1. Pair(t) \in FriendPairs /\ rowLock' = rowLock /\ Return(t)
        /\ leftover' = [leftover EXCEPT ![t] = [leftover[t] EXCEPT ![Pair(t)] = "accepted"]]
    BY <1>0, <1>13, HandlerHasPair DEF AcceptRefused, At
  <2>2. leftover'[t][Pair(t)] = "accepted" /\ \A u \in Threads \ {t} : leftover'[u] = leftover[u]
    BY <1>0, <2>1 DEF FriendTypeOK
  <2>3. LeftOpen(t)'
    BY <2>1, <2>2 DEF LeftOpen, NoWrites
  <2> QED
    BY <1>5, <2>1, <2>2, <2>3, RowsOfPair
<1>14. ASSUME NEW t \in Threads, FriendFails(t) PROVE LocksHaveOwner'
  <2>1. Return(t) /\ leftover' = leftover /\ \A u \in Threads \ {t} : handler'[u] = handler[u]
    BY <1>0, <1>14, ReturnType DEF FriendFails
  <2>2. CASE handler[t].pc \in AcceptSteps
    BY <1>3, <1>14, <2>1, <2>2 DEF FriendFails
  <2>3. CASE handler[t].pc \notin AcceptSteps
    BY <1>2, <1>14, <2>1, <2>3 DEF FriendFails, HoldingSteps, AcceptSteps
  <2> QED
    BY <2>2, <2>3
<1> QED
    BY <1>1, <1>6, <1>7, <1>8, <1>9, <1>10, <1>11, <1>12, <1>13, <1>14 DEF FriendNext, FriendStep

\* A row locked by a thread whose handler has returned belongs to a transaction
\* whose COMMIT was refused: every other error path, and a deadlock, ends the
\* transaction before the connection goes back to the pool.
THEOREM NoLockOutlivesHandler == FriendSpec => []LocksHaveOwner
<1>1. FriendInit => LocksHaveOwner
    BY BusinessAssumption, RowsOfPair DEF FriendInit, LocksHaveOwner
<1> QED
    BY <1>1, FriendInvInit, FriendInvStep, LocksStep, PTL DEF FriendSpec

-----------------------------------------------------------------------------
\* A function on the first n places is a sequence.
LEMMA FunctionIsSeq ==
    ASSUME NEW S, NEW n \in Nat, NEW f \in [1..n -> S]
    PROVE  f \in Seq(S)
OBVIOUS

\* The ids of a finite set, in descending order: a place for each id is the
\* number of ids that are not below it.
LEMMA NewestFirstProperties ==
    ASSUME NEW S \in SUBSET Nat, IsFiniteSet(S)
    PROVE  LET s == NewestFirst(S)
           IN  /\ s \in Seq(S)
               /\ \A i, j \in DOMAIN s : i < j => s[i] > s[j]
               /\ \A m \in S : \E i \in DOMAIN s : s[i] = m
<1> DEFINE n == Cardinality(S)
           Above(m) == {k \in S : k >= m}
           rank == [m \in S |-> Cardinality(Above(m))]
           Sorted(s) == \A i, j \in DOMAIN s : i < j => s[i] > s[j]
<1>1. n \in Nat
  BY FS_CardinalityType
<1>2. ASSUME NEW m \in S
      PROVE  IsFiniteSet(Above(m)) /\ Cardinality(Above(m)) \in 1..n
  <2>1. Above(m) \in SUBSET S
    OBVIOUS
  <2>2. IsFiniteSet(Above(m)) /\ Cardinality(Above(m)) <= n /\ Cardinality(Above(m)) \in Nat
    BY <2>1, FS_Subset, FS_CardinalityType
  <2>3. Above(m) # {}
    OBVIOUS
  <2>4. Cardinality(Above(m)) # 0
    BY <2>2, <2>3, FS_EmptySet
  <2> HIDE DEF Above
  <2>5. QED
    BY <1>1, <2>2, <2>4
<1>3. ASSUME NEW m \in S, NEW k \in S, m > k PROVE rank[m] < rank[k]
  <2>0. m \in Nat /\ k \in Nat
    OBVIOUS
  <2>1. Above(m) \subseteq Above(k) /\ k \in Above(k) /\ k \notin Above(m)
    <3>1. \A x \in S : x \in Nat /\ (x >= m => x >= k)
      BY <1>3, <2>0
    <3>2. k >= k /\ ~(k >= m)
      BY <1>3, <2>0
    <3>3. QED
      BY <3>1, <3>2, Zenon
  <2>2. IsFiniteSet(Above(k)) /\ Cardinality(Above(m)) \in Nat /\ Cardinality(Above(k)) \in Nat
    BY <1>1, <1>2
  <2> HIDE DEF Above
  <2>3. /\ Cardinality(Above(m)) <= Cardinality(Above(k))
        /\ Cardinality(Above(k)) # Cardinality(Above(m))
    BY <2>1, <2>2, FS_Subset
  <2>4. QED
    BY <2>2, <2>3 DEF rank
<1>4. rank \in [S -> 1..n]
  BY <1>2
<1> HIDE DEF rank
<1>5. rank \in Surjection(S, 1..n)
  <2>1. rank \in Injection(S, 1..n)
    <3>1. ASSUME NEW a \in S, NEW b \in S, rank[a] = rank[b] PROVE a = b
      BY <1>3, <1>4, <3>1
    <3>2. QED
      BY <1>4, <3>1 DEF Injection, IsInjective
  <2>2. IsFiniteSet(1..n) /\ Cardinality(1..n) = n
    BY <1>1, FS_Interval
  <2>3. QED
    BY <2>1, <2>2, FS_Injection
<1> DEFINE e == [i \in 1..n |-> CHOOSE m \in S : rank[m] = i]
<1>6. \A i \in 1..n : e[i] \in S /\ rank[e[i]] = i
  BY <1>5 DEF Surjection
<1>7. e \in Injection(1..n, S) /\ Sorted(e)
  <2>1. e \in [1..n -> S] /\ DOMAIN e = 1..n
    BY <1>6
  <2> HIDE DEF e
  <2>2. \A i, j \in 1..n : i # j => e[i] # e[j]
    BY <1>6
  <2>3. ASSUME NEW i \in 1..n, NEW j \in 1..n, i < j PROVE e[i] > e[j]
    <3>1. PICK a \in S, b \in S : a = e[i] /\ b = e[j] /\ rank[a] = i /\ rank[b] = j
      BY <1>6, Zenon
    <3>2. a \in Nat /\ b \in Nat /\ ~(a < b) /\ a # b
      BY <1>3, <2>3, <3>1
    <3>3. QED
      BY <3>1, <3>2
  <2>4. QED
    BY <2>1, <2>2, <2>3 DEF Injection, IsInjective
<1> HIDE DEF e
<1> DEFINE s == NewestFirst(S)
<1>8. s \in Injection(1..n, S) /\ Sorted(s)
  BY <1>7, Zenon DEF NewestFirst
<1> HIDE DEF s
<1>9. s \in [1..n -> S] /\ \A i, j \in 1..n : i # j => s[i] # s[j]
  BY <1>8 DEF Injection, IsInjective
<1>10. s \in Seq(S)
  BY <1>1, <1>9, FunctionIsSeq
<1>11. s \in Surjection(1..n, S)
  <2>1. s \in Injection(1..n, S)
    BY <1>9 DEF Injection, IsInjective
  <2>2. Cardinality(1..n) = n
    BY <1>1, FS_Interval
  <2>3. QED
    BY <2>1, <2>2, FS_Injection
<1>12. \A m \in S : \E i \in DOMAIN s : s[i] = m
  BY <1>9, <1>11 DEF Surjection
<1>13. QED
  BY <1>8, <1>10, <1>12 DEF s

\* A page holds the newest of the rows, and all of them down to its last one.
LEMMA PageProperties ==
    ASSUME NEW S \in SUBSET Nat, IsFiniteSet(S), NEW limit \in Nat \ {0}
    PROVE  LET rows == NewestFirst(S)
               page == SubSeq(rows, 1, Smaller(limit, Len(rows)))
           IN  /\ page \in Seq(S)
               /\ \A i, j \in DOMAIN page : i < j => page[i] > page[j]
               /\ page = <<>> => S = {}
               /\ page # <<>> =>
                     /\ Len(page) \in DOMAIN page
                     /\ \A m \in S : m >= page[Len(page)] => \E i \in DOMAIN page : page[i] = m
<1> DEFINE rows == NewestFirst(S)
           n == Smaller(limit, Len(rows))
           page == SubSeq(rows, 1, n)
<1>1. /\ rows \in Seq(S)
      /\ \A i, j \in DOMAIN rows : i < j => rows[i] > rows[j]
      /\ \A m \in S : \E i \in DOMAIN rows : rows[i] = m
  BY NewestFirstProperties
<1> HIDE DEF rows
<1>2. /\ Len(rows) \in Nat /\ DOMAIN rows = 1..Len(rows) /\ n \in 0..Len(rows)
      /\ n = 0 => Len(rows) = 0
  BY <1>1 DEF Smaller
<1> HIDE DEF n
<1>3. page \in Seq(S) /\ Len(page) = n /\ DOMAIN page = 1..n /\ \A i \in 1..n : page[i] = rows[i]
  BY <1>1, <1>2
<1>4. \A i, j \in DOMAIN page : i < j => page[i] > page[j]
  BY <1>1, <1>2, <1>3
<1>5. ASSUME page = <<>> PROVE S = {}
  <2>1. n = 0
    BY <1>3, <1>5, Zenon
  <2>2. QED
    BY <1>1, <1>2, <2>1
<1>6. ASSUME page # <<>>
      PROVE  /\ Len(page) \in DOMAIN page
             /\ \A m \in S : m >= page[Len(page)] => \E i \in DOMAIN page : page[i] = m
  <2>1. n \in 1..Len(rows) /\ n \in 1..n
    <3>1. n # 0
      BY <1>3, <1>6
    <3>2. QED
      BY <1>2, <3>1
  <2>2. ASSUME NEW m \in S, m >= rows[n] PROVE \E i \in 1..n : rows[i] = m
    <3>1. PICK i \in 1..Len(rows) : rows[i] = m
      BY <1>1, <1>2
    <3>2. CASE i <= n
      BY <1>2, <3>1, <3>2
    <3>3. CASE i > n
      <4>1. rows[n] > rows[i] /\ rows[n] \in Nat /\ rows[i] \in Nat
        <5>1. n \in DOMAIN rows /\ i \in DOMAIN rows /\ n < i
          BY <1>2, <2>1, <3>3
        <5>2. rows[n] \in S /\ rows[i] \in S
          BY <1>1, <5>1
        <5>3. QED
          BY <1>1, <5>1, <5>2, Zenon
      <4>2. QED
        BY <2>2, <3>1, <4>1
    <3>4. QED
      BY <1>2, <3>2, <3>3
  <2>3. QED
    BY <1>3, <2>1, <2>2, Zenon
<1>7. QED
  BY <1>3, <1>4, <1>5, <1>6 DEF rows, n

-----------------------------------------------------------------------------
\* Quotient and remainder are unique.
LEMMA DivisionUnique ==
    ASSUME NEW p \in Nat \ {0}, NEW q \in Int, NEW x \in Int,
           NEW r \in 0..(p - 1), NEW s \in 0..(p - 1),
           p * q + r = p * x + s
    PROVE  q = x /\ r = s
<1>1. ASSUME q > x PROVE FALSE
  <2>1. p * q >= p * (x + 1)
    BY <1>1
  <2>2. QED
    BY <2>1
<1>2. ASSUME x > q PROVE FALSE
  <2>1. p * x >= p * (q + 1)
    BY <1>2
  <2>2. QED
    BY <2>1
<1>3. q = x
  BY <1>1, <1>2
<1>4. QED
  BY <1>3

\* What \div and % are.
LEMMA Division ==
    ASSUME NEW p \in Nat \ {0}, NEW n \in Int
    PROVE  /\ n \div p \in Int /\ n % p \in 0..(p - 1)
           /\ n = p * (n \div p) + (n % p)
  OBVIOUS


\* A conversation id is taken apart into the two numbers it was made from.
LEMMA QuotientAndRemainder ==
    ASSUME NEW p \in Nat \ {0}, NEW q \in Nat, NEW r \in 0..(p - 1)
    PROVE  (q * p + r) \div p = q /\ (q * p + r) % p = r
<1> DEFINE n == q * p + r
           x == n \div p
           s == n % p
<1>1. n \in Int /\ n = p * q + r
  OBVIOUS
<1>2. x \in Int /\ s \in 0..(p - 1) /\ n = p * x + s
  BY <1>1, Division
<1> SUFFICES q = x /\ r = s
  OBVIOUS
<1> HIDE DEF n, x, s
<1>3. QED
  BY <1>1, <1>2, DivisionUnique

\* The number of a private conversation: server and client make the same of two
\* user ids, and decodePrivateConversationId reads the two ids out of it.
LEMMA ConversationIds ==
    ASSUME NEW u \in Nat \ {0}, NEW v \in Nat \ {0}, u # v, Larger(u, v) < Word
    PROVE  /\ PrivateConversationId(u, v) \in Nat \ {0}
           /\ ClientConversationId(u, v) = PrivateConversationId(u, v)
           /\ DecodePrivateConversationId(PrivateConversationId(u, v)) =
                 <<Smaller(u, v), Larger(u, v)>>
<1> DEFINE a == Smaller(u, v)
           b == Larger(u, v)
           id == PrivateConversationId(u, v)
<1>1. a \in Nat \ {0} /\ b \in Nat \ {0} /\ a < b /\ b < Word
  BY DEF Smaller, Larger
<1>2. Base \in Nat \ {0} /\ Word \in Nat \ {0} /\ Base * Base <= Word
  BY <1>1, HistoryAssumption
<1>3. id = IF b < Base THEN a * Base + b ELSE a * Word + b
  BY DEF PrivateConversationId
<1>4. ClientConversationId(u, v) = IF a = 0 \/ a = b THEN 0
                                   ELSE IF a < Base /\ b < Base THEN a * Base + b
                                   ELSE IF b >= Word THEN 0 ELSE a * Word + b
  BY DEF ClientConversationId
<1>5. DecodePrivateConversationId(id) = IF id < Base * Base THEN <<id \div Base, id % Base>>
                                        ELSE <<id \div Word, id % Word>>
  BY DEF DecodePrivateConversationId
<1> HIDE DEF a, b, id
<1>6. ClientConversationId(u, v) = id
  <2>1. a # 0 /\ a # b /\ ~(b >= Word) /\ (b < Base => a < Base)
    BY <1>1, <1>2
  <2>2. QED
    BY <1>3, <1>4, <2>1, Zenon
<1>7. CASE b < Base
  <2>1. id = a * Base + b /\ id \in Nat \ {0}
    BY <1>1, <1>2, <1>3, <1>7
  <2>2. id < Base * Base
    <3>1. a * Base <= (Base - 1) * Base
      BY <1>1, <1>2, <1>7
    <3>2. QED
      BY <1>1, <1>2, <1>7, <2>1, <3>1
  <2>3. id \div Base = a /\ id % Base = b
    BY <1>1, <1>2, <1>7, <2>1, QuotientAndRemainder
  <2>4. QED
    BY <1>5, <1>6, <2>1, <2>2, <2>3 DEF a, b, id
<1>8. CASE ~(b < Base)
  <2>1. id = a * Word + b /\ id \in Nat \ {0}
    BY <1>1, <1>2, <1>3, <1>8
  <2>2. ~(id < Base * Base)
    <3>1. a * Word >= Word
      BY <1>1, <1>2
    <3>2. QED
      BY <1>1, <1>2, <2>1, <3>1
  <2>3. id \div Word = a /\ id % Word = b
    BY <1>1, <1>2, <2>1, QuotientAndRemainder
  <2>4. QED
    BY <1>5, <1>6, <2>1, <2>2, <2>3 DEF a, b, id
<1>9. QED
  BY <1>7, <1>8

\* Those are all the numbers that the client asks for.
LEMMA ClientAsksForPairs ==
    ASSUME NEW u \in Nat \ {0}, NEW v \in Nat \ {0}, ClientConversationId(u, v) # 0
    PROVE  u # v /\ Larger(u, v) < Word
<1>1. Base <= Base * Base /\ Base * Base <= Word /\ Base \in Nat /\ Word \in Nat
  BY HistoryAssumption
<1>2. u # v
  BY DEF ClientConversationId, Smaller, Larger
<1>3. ~(Larger(u, v) >= Word) \/ Larger(u, v) < Base
  BY DEF ClientConversationId
<1>4. Larger(u, v) \in Nat
  BY DEF Larger
<1>5. QED
  BY <1>1, <1>2, <1>3, <1>4

-----------------------------------------------------------------------------
Kinds == {"private", "group"}

\* A private message carries the number of its two parties.
Messages ==
    {m \in [kind : Kinds, conv : Nat, parties : SUBSET Accounts] :
        m.kind = "private" =>
            \E u, v \in Accounts : /\ u # v /\ Larger(u, v) < Word
                                   /\ m.conv = PrivateConversationId(u, v) /\ m.parties = {u, v}}

LogInv ==
    /\ log \in Seq(Messages) /\ visible \subseteq DOMAIN log
    /\ joined \in [GroupIds -> SUBSET Accounts]

Pagers ==
    [at : {"idle", "query", "read", "denied", "done"}, user : Nat, kind : Kinds, id : Nat,
     before : Nat, limit : Nat, got : Seq(Nat), base : SUBSET Nat]

\* What was got is what the conversation had from before on, newest first.
GotIsSuffix(p) ==
    /\ \A i, j \in DOMAIN p.got : i < j => p.got[i] > p.got[j]
    /\ \A i \in DOMAIN p.got : p.got[i] \in InConversation(p.kind, p.id)
    /\ p.base \subseteq InConversation(p.kind, p.id)
    /\ p.before = 0 => p.got = <<>> /\ p.base = {}
    /\ p.before # 0 => \A i \in DOMAIN p.got : p.got[i] >= p.before
    /\ \A m \in p.base : m >= p.before \/ p.at = "done" => \E i \in DOMAIN p.got : p.got[i] = m

\* Only what authorizeQuery let through was read.
PagerIsAuthorized(p) ==
    /\ p.at # "idle" => p.user \in Accounts /\ p.id # 0
    /\ p.at = "read" => p.limit # 0
    /\ p.at \in {"read", "done"} \/ p.got # <<>> => Authorized(p.user, p.kind, p.id)
    /\ p.at = "denied" /\ p.kind = "private" => ~IsPrivateMember(p.user, p.id)

PagerInv(p) == p \in Pagers /\ GotIsSuffix(p) /\ PagerIsAuthorized(p)

HistoryInv == LogInv /\ PagerInv(pager)

\* An empty log and nobody paging.
LEMMA HistoryInvInit == HistoryInit => HistoryInv
<1> SUFFICES ASSUME HistoryInit PROVE HistoryInv
  OBVIOUS
<1>1. LogInv
  BY DEF HistoryInit, LogInv
<1>2. pager \in Pagers
  BY DEF HistoryInit, NoPager, Pagers, Kinds
<1>3. pager.at = "idle" /\ pager.before = 0 /\ pager.got = <<>> /\ pager.base = {}
  BY DEF HistoryInit, NoPager
<1>4. QED
  BY <1>1, <1>2, <1>3 DEF HistoryInv, PagerInv, GotIsSuffix, PagerIsAuthorized

\* What is saved, committed or joined takes nothing away.
LEMMA OnlyMore ==
    ASSUME HistoryInv, LogInv', pager' = pager,
           \A m \in visible : m \in visible' /\ log'[m] = log[m],
           \A g \in GroupIds : joined[g] \subseteq joined'[g]
    PROVE  HistoryInv'
<1>1. \A kind, id : InConversation(kind, id) \subseteq InConversation(kind, id)'
  BY DEF InConversation
<1>2. Authorized(pager.user, pager.kind, pager.id) => Authorized(pager.user, pager.kind, pager.id)'
  <2>1. pager.kind \in Kinds
    BY DEF HistoryInv, PagerInv, Pagers
  <2>2. CASE pager.kind = "private"
    BY <2>2 DEF Authorized
  <2>3. CASE pager.kind = "group"
    BY <2>3 DEF Authorized
  <2>4. QED
    BY <2>1, <2>2, <2>3 DEF Kinds
<1>3. GotIsSuffix(pager)'
  <2>1. InConversation(pager.kind, pager.id) \subseteq InConversation(pager.kind, pager.id)'
    BY <1>1
  <2>2. QED
    BY <2>1 DEF HistoryInv, PagerInv, GotIsSuffix
<1>4. PagerIsAuthorized(pager)'
  BY <1>2 DEF HistoryInv, PagerInv, PagerIsAuthorized
<1>5. QED
  BY <1>3, <1>4 DEF HistoryInv, PagerInv

\* A row that is inserted is not visible yet.
LEMMA InsertInv ==
    ASSUME HistoryInv, NEW message \in Messages, Insert(message)
    PROVE  HistoryInv'
<1>1. /\ log' = Append(log, message) /\ log' \in Seq(Messages)
      /\ \A m \in DOMAIN log : m \in DOMAIN log' /\ log'[m] = log[m]
  BY DEF Insert, HistoryInv, LogInv
<1>2. LogInv'
  BY <1>1 DEF Insert, HistoryInv, LogInv
<1>3. QED
  BY <1>1, <1>2, OnlyMore DEF Insert, HistoryInv, LogInv

\* Saving a message, committing one and joining a group.
LEMMA LogStepsInv ==
    ASSUME HistoryInv,
           \/ \E u, v \in Accounts : InsertPrivate(u, v)
           \/ \E u \in Accounts, g \in GroupIds : InsertGroup(u, g) \/ Join(u, g)
           \/ \E m \in DOMAIN log : CommitMessage(m)
    PROVE  HistoryInv'
<1>1. ASSUME NEW u \in Accounts, NEW v \in Accounts, InsertPrivate(u, v) PROVE HistoryInv'
  <2> DEFINE m == [kind |-> "private", conv |-> PrivateConversationId(u, v), parties |-> {u, v}]
  <2>1. u # v /\ Larger(u, v) < Word /\ Insert(m)
    BY <1>1 DEF InsertPrivate
  <2>2. PrivateConversationId(u, v) \in Nat
    BY <2>1, ConversationIds, HistoryAssumption
  <2>3. m \in Messages
    BY <2>1, <2>2 DEF Messages, Kinds
  <2> HIDE DEF m
  <2>4. QED
    BY <2>1, <2>3, InsertInv
<1>2. ASSUME NEW u \in Accounts, NEW g \in GroupIds, InsertGroup(u, g) PROVE HistoryInv'
  <2>1. [kind |-> "group", conv |-> g, parties |-> {}] \in Messages
    BY HistoryAssumption DEF Messages, Kinds
  <2>2. QED
    BY <1>2, <2>1, InsertInv DEF InsertGroup
<1>3. ASSUME NEW u \in Accounts, NEW g \in GroupIds, Join(u, g) PROVE HistoryInv'
  <2>1. /\ joined' \in [GroupIds -> SUBSET Accounts]
        /\ \A h \in GroupIds : joined[h] \subseteq joined'[h]
    BY <1>3 DEF Join, HistoryInv, LogInv
  <2>2. QED
    BY <1>3, <2>1, OnlyMore DEF Join, HistoryInv, LogInv
<1>4. ASSUME NEW m \in DOMAIN log, CommitMessage(m) PROVE HistoryInv'
  BY <1>4, OnlyMore DEF CommitMessage, HistoryInv, LogInv
<1>5. QED
  BY <1>1, <1>2, <1>3, <1>4

\* A request for the newest page, with the client's conversation id.
LEMMA OpenHistoryInv ==
    ASSUME HistoryInv, NEW u \in Accounts, NEW c \in Conversations, NEW limit \in Limits,
           OpenHistory(u, c, limit)
    PROVE  HistoryInv'
<1>1. c.kind \in Kinds /\ c.id \in Nat \ {0}
  <2>1. CASE \E n \in {ClientConversationId(x, y) : x, y \in Accounts} \ {0} :
               c = [kind |-> "private", id |-> n]
    <3>1. PICK x \in Accounts, y \in Accounts :
             /\ ClientConversationId(x, y) # 0
             /\ c = [kind |-> "private", id |-> ClientConversationId(x, y)]
      BY <2>1
    <3>2. ClientConversationId(x, y) \in Nat \ {0}
      BY <3>1, ClientAsksForPairs, ConversationIds, HistoryAssumption
    <3>3. QED
      BY <3>1, <3>2 DEF Kinds
  <2>2. CASE \E g \in GroupIds : c = [kind |-> "group", id |-> g]
    BY <2>2, HistoryAssumption DEF Kinds
  <2>3. QED
    BY <2>1, <2>2 DEF Conversations
<1>2. /\ pager' \in Pagers /\ pager'.at = "query" /\ pager'.got = <<>> /\ pager'.base = {}
      /\ pager'.before = 0 /\ pager'.user = u /\ pager'.id = c.id
  <2>1. NoPager \in Pagers /\ NoPager.got = <<>> /\ NoPager.base = {} /\ NoPager.before = 0
    BY DEF NoPager, Pagers, Kinds
  <2>2. u \in Nat /\ limit \in Nat
    BY HistoryAssumption
  <2>3. pager' = [NoPager EXCEPT !.at = "query", !.user = u, !.kind = c.kind, !.id = c.id,
                                 !.limit = limit]
    BY DEF OpenHistory
  <2>4. QED
    BY <1>1, <2>1, <2>2, <2>3, Zenon DEF Pagers
<1>3. LogInv'
  BY DEF OpenHistory, HistoryInv, LogInv
<1>4. PagerInv(pager)'
  BY <1>1, <1>2 DEF PagerInv, GotIsSuffix, PagerIsAuthorized
<1>5. QED
  BY <1>3, <1>4 DEF HistoryInv

\* HistoryService's test of the requester.
LEMMA AuthorizeInv ==
    ASSUME HistoryInv, Authorize
    PROVE  HistoryInv'
<1>1. LogInv' /\ \A kind, id : InConversation(kind, id)' = InConversation(kind, id)
  BY DEF Authorize, HistoryInv, LogInv, InConversation
<1>2. PICK next \in {"idle", "read", "denied"} :
         /\ pager' = [pager EXCEPT !.at = next]
         /\ next = "read" => pager.limit # 0 /\ Authorized(pager.user, pager.kind, pager.id)
         /\ next = "denied" => ~Authorized(pager.user, pager.kind, pager.id)
  <2> DEFINE x == IF pager.limit = 0 THEN "idle"
                  ELSE IF Authorized(pager.user, pager.kind, pager.id) THEN "read"
                  ELSE "denied"
  <2>1. /\ x \in {"idle", "read", "denied"} /\ pager' = [pager EXCEPT !.at = x]
        /\ x = "read" => pager.limit # 0 /\ Authorized(pager.user, pager.kind, pager.id)
        /\ x = "denied" => ~Authorized(pager.user, pager.kind, pager.id)
    BY DEF Authorize
  <2>2. QED
    BY <2>1
<1>3. /\ pager' \in Pagers /\ pager'.at = next /\ pager.at = "query"
      /\ pager'.user = pager.user /\ pager'.kind = pager.kind /\ pager'.id = pager.id
      /\ pager'.before = pager.before /\ pager'.limit = pager.limit
      /\ pager'.got = pager.got /\ pager'.base = pager.base
  BY <1>2, Zenon DEF HistoryInv, PagerInv, Pagers, Authorize
<1>4. GotIsSuffix(pager)'
  <2>1. InConversation(pager.kind, pager.id)' = InConversation(pager.kind, pager.id)
    BY <1>1, <1>3 DEF InConversation, Authorize
  <2>2. QED
    BY <1>2, <1>3, <2>1 DEF HistoryInv, PagerInv, GotIsSuffix
<1>5. PagerIsAuthorized(pager)'
  <2>1. Authorized(pager.user, pager.kind, pager.id)' = Authorized(pager.user, pager.kind, pager.id)
    BY <1>3, Zenon DEF Authorized, Authorize
  <2>2. pager.kind = "private" =>
           (Authorized(pager.user, pager.kind, pager.id) = IsPrivateMember(pager.user, pager.id))
    BY DEF Authorized
  <2>3. QED
    BY <1>2, <1>3, <2>1, <2>2 DEF HistoryInv, PagerInv, PagerIsAuthorized
<1>6. QED
  BY <1>1, <1>3, <1>4, <1>5 DEF HistoryInv, PagerInv

\* The places of two sequences in their concatenation.
LEMMA ConcatPlaces ==
    ASSUME NEW a \in Seq(Nat), NEW b \in Seq(Nat)
    PROVE  /\ a \o b \in Seq(Nat)
           /\ \A k \in DOMAIN (a \o b) :
                 \/ k \in DOMAIN a /\ (a \o b)[k] = a[k]
                 \/ \E i \in DOMAIN b : k = Len(a) + i /\ (a \o b)[k] = b[i]
           /\ \A i \in DOMAIN a : i \in DOMAIN (a \o b) /\ (a \o b)[i] = a[i]
           /\ \A i \in DOMAIN b : Len(a) + i \in DOMAIN (a \o b) /\ (a \o b)[Len(a) + i] = b[i]
<1> DEFINE c == a \o b
<1>1. /\ c \in Seq(Nat) /\ Len(a) \in Nat /\ Len(b) \in Nat
      /\ DOMAIN a = 1..Len(a) /\ DOMAIN b = 1..Len(b) /\ DOMAIN c = 1..(Len(a) + Len(b))
  OBVIOUS
<1>2. \A k \in 1..(Len(a) + Len(b)) : c[k] = IF k <= Len(a) THEN a[k] ELSE b[k - Len(a)]
  OBVIOUS
<1> HIDE DEF c
<1>3. ASSUME NEW k \in 1..(Len(a) + Len(b)), ~(k <= Len(a))
      PROVE  \E i \in 1..Len(b) : k = Len(a) + i /\ c[k] = b[i]
  <2>1. k - Len(a) \in 1..Len(b) /\ k = Len(a) + (k - Len(a)) /\ c[k] = b[k - Len(a)]
    BY <1>1, <1>2, <1>3
  <2>2. QED
    BY <2>1
<1>4. ASSUME NEW i \in 1..Len(b)
      PROVE  Len(a) + i \in 1..(Len(a) + Len(b)) /\ c[Len(a) + i] = b[i]
  <2>1. Len(a) + i \in 1..(Len(a) + Len(b)) /\ ~(Len(a) + i <= Len(a)) /\ (Len(a) + i) - Len(a) = i
    BY <1>1
  <2>2. QED
    BY <1>2, <2>1
<1>5. ASSUME NEW i \in 1..Len(a) PROVE i \in 1..(Len(a) + Len(b)) /\ c[i] = a[i]
  BY <1>1, <1>2
<1>6. ASSUME NEW k \in 1..(Len(a) + Len(b)), k <= Len(a) PROVE k \in 1..Len(a) /\ c[k] = a[k]
  BY <1>1, <1>2, <1>6
<1>7. QED
  BY <1>1, <1>3, <1>4, <1>5, <1>6, Zenon DEF c

\* A page goes on where the last one ended; an empty one shows that nothing is left.
LEMMA ReadPageInv ==
    ASSUME HistoryInv, ReadPage
    PROVE  HistoryInv'
<1> DEFINE C == InConversation(pager.kind, pager.id)
           S == {m \in C : pager.before = 0 \/ m < pager.before}
           page == Page(pager.kind, pager.id, pager.before, EffectiveLimit(pager.limit))
           got == pager.got
           all == got \o page
           base == IF pager.before = 0 THEN C ELSE pager.base
<1>1. LogInv' /\ C \in SUBSET (Nat \ {0}) /\ IsFiniteSet(C)
  <2>1. LogInv'
    BY DEF ReadPage, HistoryInv, LogInv
  <2>2. Len(log) \in Nat /\ C \subseteq 1..Len(log)
    BY DEF HistoryInv, LogInv, InConversation
  <2>3. IsFiniteSet(1..Len(log))
    BY <2>2, FS_Interval
  <2>4. QED
    BY <2>1, <2>2, <2>3, FS_Subset
<1>2. /\ pager \in Pagers /\ got \in Seq(Nat) /\ pager.before \in Nat /\ pager.base \in SUBSET Nat
      /\ pager.limit \in Nat \ {0} /\ pager.at = "read"
      /\ \A i \in DOMAIN got : got[i] \in C
  BY DEF ReadPage, HistoryInv, PagerInv, Pagers, PagerIsAuthorized, GotIsSuffix
<1>3. EffectiveLimit(pager.limit) \in Nat \ {0}
  BY <1>2, HistoryAssumption DEF EffectiveLimit
<1>4. S \in SUBSET Nat /\ IsFiniteSet(S) /\ S \in SUBSET C
  <2>1. S \in SUBSET C
    OBVIOUS
  <2>2. QED
    BY <1>1, <2>1, FS_Subset
<1>5. /\ page \in Seq(S)
      /\ \A i, j \in DOMAIN page : i < j => page[i] > page[j]
      /\ page = <<>> => S = {}
      /\ page # <<>> => /\ Len(page) \in DOMAIN page
                        /\ \A m \in S : m >= page[Len(page)] => \E i \in DOMAIN page : page[i] = m
  BY <1>3, <1>4, PageProperties, Zenon DEF Page
<1>6. pager' = [pager EXCEPT !.at = IF page = <<>> THEN "done" ELSE "query",
                             !.before = IF page = <<>> THEN @ ELSE page[Len(page)],
                             !.got = all, !.base = base]
  BY DEF ReadPage
<1>7. UNCHANGED <<log, visible, joined>>
  BY DEF ReadPage
<1> HIDE DEF page
<1>8. base \subseteq C
  BY DEF HistoryInv, PagerInv, GotIsSuffix
<1>9. \A i \in DOMAIN page : page[i] \in S /\ page[i] \in Nat
  BY <1>4, <1>5
<1>10. /\ all \in Seq(Nat)
       /\ \A k \in DOMAIN all :
             \/ k \in DOMAIN got /\ all[k] = got[k]
             \/ \E i \in DOMAIN page : k = Len(got) + i /\ all[k] = page[i]
       /\ \A i \in DOMAIN got : i \in DOMAIN all /\ all[i] = got[i]
       /\ \A i \in DOMAIN page : Len(got) + i \in DOMAIN all /\ all[Len(got) + i] = page[i]
  <2>1. page \in Seq(Nat)
    BY <1>4, <1>5
  <2>2. QED
    BY <1>2, <2>1, ConcatPlaces, Zenon
<1>11. \A i \in DOMAIN got : i \in 1..Len(got) /\ Len(got) \in Nat
  BY <1>2
<1>12. \A i \in DOMAIN page : i \in Nat \ {0}
  BY <1>5
<1> HIDE DEF C, S, base, all
<1>13. /\ pager' \in Pagers /\ pager'.at \in {"done", "query"}
       /\ (pager'.at = "done" <=> page = <<>>)
       /\ pager'.before = IF page = <<>> THEN pager.before ELSE page[Len(page)]
       /\ pager'.got = all /\ pager'.base = base
       /\ pager'.user = pager.user /\ pager'.kind = pager.kind /\ pager'.id = pager.id
       /\ pager'.limit = pager.limit
  BY <1>1, <1>2, <1>5, <1>6, <1>8, <1>9, <1>10, Zenon DEF Pagers

<1>14. InConversation(pager.kind, pager.id)' = C
  BY <1>7, <1>13 DEF C, InConversation
<1>15. /\ \A i, j \in DOMAIN got : i < j => got[i] > got[j]
       /\ pager.before = 0 => got = <<>> /\ pager.base = {}
       /\ pager.before # 0 => \A i \in DOMAIN got : got[i] >= pager.before
       /\ \A m \in pager.base : m >= pager.before => \E i \in DOMAIN got : got[i] = m
  BY DEF HistoryInv, PagerInv, GotIsSuffix
<1>16. /\ \A m \in S : m \in C /\ (pager.before = 0 \/ m < pager.before)
       /\ \A m \in C : ~(m \in S) => pager.before # 0 /\ ~(m < pager.before)
       /\ \A m \in C : m \in Nat \ {0}
  BY <1>1 DEF S
<1>17. \A i \in DOMAIN got, j \in DOMAIN page : got[i] > page[j]
  <2> SUFFICES ASSUME NEW i \in DOMAIN got, NEW j \in DOMAIN page PROVE got[i] > page[j]
    OBVIOUS
  <2>1. pager.before # 0 /\ got[i] >= pager.before /\ got[i] \in Nat
    BY <1>2, <1>15
  <2>2. page[j] < pager.before /\ page[j] \in Nat
    BY <1>9, <1>16, <2>1
  <2>3. QED
    BY <1>2, <2>1, <2>2
<1>18. \A i, j \in DOMAIN all : i < j => all[i] > all[j]
  <2> SUFFICES ASSUME NEW i \in DOMAIN all, NEW j \in DOMAIN all, i < j PROVE all[i] > all[j]
    OBVIOUS
  <2>1. CASE i \in DOMAIN got /\ all[i] = got[i]
    BY <1>10, <1>15, <1>17, <2>1
  <2>2. CASE \E k \in DOMAIN page : i = Len(got) + k /\ all[i] = page[k]
    <3>1. PICK k \in DOMAIN page : i = Len(got) + k /\ all[i] = page[k]
      BY <2>2
    <3>2. k \in Nat \ {0} /\ Len(got) \in Nat
      BY <1>2, <1>12
    <3>3. ~(j \in DOMAIN got)
      BY <1>11, <3>1, <3>2
    <3>4. PICK l \in DOMAIN page : j = Len(got) + l /\ all[j] = page[l]
      BY <1>10, <3>3
    <3>5. k < l
      BY <1>12, <3>1, <3>2, <3>4
    <3>6. QED
      BY <1>5, <3>1, <3>4, <3>5
  <2>3. QED
    BY <1>10, <2>1, <2>2
<1>19. \A k \in DOMAIN all : all[k] \in C
  BY <1>2, <1>9, <1>10, <1>16
<1>20. ASSUME page = <<>>
       PROVE  /\ pager.before = 0 => all = <<>> /\ base = {}
              /\ pager.before # 0 => \A k \in DOMAIN all : all[k] >= pager.before
              /\ \A m \in base : \E k \in DOMAIN all : all[k] = m
  <2>1. S = {} /\ all = got
    BY <1>2, <1>5, <1>20 DEF all
  <2>2. pager.before = 0 => base = {}
    BY <1>16, <2>1 DEF base
  <2>3. ASSUME NEW m \in base PROVE \E k \in DOMAIN got : got[k] = m
    <3>1. m \in C /\ m \in Nat /\ pager.before # 0 /\ ~(m < pager.before) /\ m \in pager.base
      BY <1>8, <1>16, <2>1, <2>3 DEF base
    <3>2. m >= pager.before
      BY <1>2, <3>1
    <3>3. QED
      BY <1>15, <3>1, <3>2
  <2>4. QED
    BY <1>15, <2>1, <2>2, <2>3
<1>21. ASSUME page # <<>>
       PROVE  LET last == page[Len(page)]
              IN  /\ last # 0
                  /\ \A k \in DOMAIN all : all[k] >= last
                  /\ \A m \in base : m >= last => \E k \in DOMAIN all : all[k] = m
  <2>1. PICK last \in S : last = page[Len(page)] /\ Len(page) \in DOMAIN page
    BY <1>5, <1>9, <1>21
  <2>2. last \in Nat \ {0}
    BY <1>16
  <2>3. \A i \in DOMAIN page : page[i] >= last
    <3> SUFFICES ASSUME NEW i \in DOMAIN page PROVE page[i] >= last
      OBVIOUS
    <3>1. i \in 1..Len(page) /\ Len(page) \in Nat /\ page[i] \in Nat
      BY <1>5, <1>9
    <3>2. CASE i = Len(page)
      BY <2>1, <2>2, <3>2
    <3>3. CASE i < Len(page)
      <4>1. page[i] > last
        BY <1>5, <2>1, <3>3
      <4>2. QED
        BY <2>2, <3>1, <4>1
    <3>4. QED
      BY <3>1, <3>2, <3>3
  <2>4. \A i \in DOMAIN got : got[i] >= last
    <3> SUFFICES ASSUME NEW i \in DOMAIN got PROVE got[i] >= last
      OBVIOUS
    <3>1. got[i] > last /\ got[i] \in Nat
      BY <1>2, <1>17, <2>1
    <3>2. QED
      BY <2>2, <3>1
  <2>5. \A k \in DOMAIN all : all[k] >= last
    BY <1>10, <2>3, <2>4
  <2>6. ASSUME NEW m \in base, m >= last PROVE \E k \in DOMAIN all : all[k] = m
    <3>1. CASE m \in S
      <4>1. PICK i \in DOMAIN page : page[i] = m
        BY <1>5, <1>21, <2>1, <2>6, <3>1
      <4>2. QED
        BY <1>10, <4>1
    <3>2. CASE ~(m \in S)
      <4>1. m \in C /\ m \in Nat /\ pager.before # 0 /\ ~(m < pager.before) /\ m \in pager.base
        BY <1>8, <1>16, <2>6, <3>2 DEF base
      <4>2. m >= pager.before
        BY <1>2, <4>1
      <4>3. PICK i \in DOMAIN got : got[i] = m
        BY <1>15, <4>1, <4>2
      <4>4. QED
        BY <1>10, <4>3
    <3>3. QED
      BY <3>1, <3>2
  <2>7. QED
    BY <2>1, <2>2, <2>5, <2>6
<1> HIDE DEF got
<1>22. GotIsSuffix(pager)'
  <2>1. CASE page = <<>>
    BY <1>8, <1>13, <1>14, <1>18, <1>19, <1>20, <2>1 DEF GotIsSuffix
  <2>2. CASE page # <<>>
    BY <1>8, <1>13, <1>14, <1>18, <1>19, <1>21, <2>2 DEF GotIsSuffix
  <2>3. QED
    BY <2>1, <2>2
<1>23. PagerIsAuthorized(pager)'
  <2>1. Authorized(pager.user, pager.kind, pager.id)' = Authorized(pager.user, pager.kind, pager.id)
    BY <1>7, <1>13 DEF Authorized
  <2>2. QED
    BY <1>2, <1>13, <2>1 DEF HistoryInv, PagerInv, PagerIsAuthorized
<1>24. QED
  BY <1>1, <1>13, <1>22, <1>23 DEF HistoryInv, PagerInv

\* Every step of the log and of the pager.
LEMMA HistoryInvNext == HistoryInv /\ [HistoryNext]_historyVars => HistoryInv'
<1> SUFFICES ASSUME HistoryInv, [HistoryNext]_historyVars PROVE HistoryInv'
  OBVIOUS
<1>1. CASE UNCHANGED historyVars
  BY <1>1, OnlyMore DEF historyVars, HistoryInv, LogInv
<1>2. CASE HistoryNext
  BY <1>2, LogStepsInv, OpenHistoryInv, AuthorizeInv, ReadPageInv DEF HistoryNext
<1>3. QED
  BY <1>1, <1>2

-----------------------------------------------------------------------------
\* For any accounts, groups and limits, and any messages saved and committed
\* meanwhile: paging back with the smallest id of each page of
\* getHistoryByConversation gives every message that was there when the paging
\* began, newest first and none twice.
THEOREM PagingGivesEveryMessage == HistorySpec => []PagingIsComplete
<1>1. HistoryInv => PagingIsComplete
  BY DEF HistoryInv, PagerInv, GotIsSuffix, PagingIsComplete, Range
<1>2. QED
  BY HistoryInvInit, HistoryInvNext, <1>1, PTL DEF HistorySpec

\* The members of a private conversation are the two users it was numbered for.
LEMMA MembersOfPair ==
    ASSUME NEW u \in Accounts, NEW v \in Accounts, u # v, Larger(u, v) < Word
    PROVE  \A w : IsPrivateMember(w, PrivateConversationId(u, v)) <=> w \in {u, v}
<1>1. u \in Nat \ {0} /\ v \in Nat \ {0}
  BY HistoryAssumption
<1>2. DecodePrivateConversationId(PrivateConversationId(u, v)) = <<Smaller(u, v), Larger(u, v)>>
  BY <1>1, ConversationIds
<1>3. /\ {Smaller(u, v), Larger(u, v)} = {u, v} /\ Smaller(u, v) # Larger(u, v)
      /\ Smaller(u, v) # 0 /\ Larger(u, v) # 0
  BY <1>1 DEF Smaller, Larger
<1>4. QED
  BY <1>2, <1>3 DEF IsPrivateMember

\* What the user of an authorized request gets is a message of theirs.
LEMMA MessageOfMember ==
    ASSUME HistoryInv, Authorized(pager.user, pager.kind, pager.id),
           NEW m \in InConversation(pager.kind, pager.id)
    PROVE  IF log[m].kind = "private"
           THEN /\ pager.user \in log[m].parties
                /\ ClientConversationId(pager.user, Peer(m)) = pager.id
           ELSE pager.user \in joined[log[m].conv]
<1>1. log[m] \in Messages /\ log[m].kind = pager.kind /\ log[m].conv = pager.id
  BY DEF HistoryInv, LogInv, InConversation
<1>2. CASE pager.kind = "private"
  <2>1. IsPrivateMember(pager.user, pager.id)
    BY <1>2 DEF Authorized
  <2>2. PICK u \in Accounts, v \in Accounts :
           /\ u # v /\ Larger(u, v) < Word
           /\ pager.id = PrivateConversationId(u, v) /\ log[m].parties = {u, v}
    BY <1>1, <1>2 DEF Messages
  <2>3. pager.user \in {u, v}
    BY <2>1, <2>2, MembersOfPair
  <2>4. PICK w \in {u, v} : w # pager.user /\ \A x \in {u, v} : x # pager.user => x = w
    BY <2>2, <2>3
  <2>5. Peer(m) = w
    BY <2>2, <2>4 DEF Peer
  <2>6. Larger(pager.user, w) = Larger(u, v) /\ Smaller(pager.user, w) = Smaller(u, v)
    BY <2>2, <2>3, <2>4, HistoryAssumption DEF Larger, Smaller
  <2>7. PrivateConversationId(pager.user, w) = pager.id
    BY <2>2, <2>6 DEF PrivateConversationId
  <2>8. ClientConversationId(pager.user, w) = PrivateConversationId(pager.user, w)
    <3>1. pager.user \in Nat \ {0} /\ w \in Nat \ {0}
      BY <2>3, HistoryAssumption
    <3>2. QED
      BY <2>2, <2>4, <2>6, <3>1, ConversationIds
  <2>9. QED
    BY <1>1, <1>2, <2>2, <2>3, <2>5, <2>7, <2>8
<1>3. CASE pager.kind = "group"
  BY <1>1, <1>3 DEF Authorized
<1>4. QED
  BY <1>1, <1>2, <1>3 DEF Messages, Kinds

\* For any user ids, and any base whose square fits a word: HistoryService
\* denies no user their own private conversation, and what it returns are
\* messages of the user, since decodePrivateConversationId inverts the numbers
\* that ChatService and the client make of two ids.
THEOREM HistoryReachesItsMembers == HistorySpec => []HistoryForMembers
<1>1. ASSUME HistoryInv PROVE HistoryForMembers
  <2>1. ASSUME pager.at = "denied", pager.kind = "private", NEW v \in Accounts,
               ClientConversationId(pager.user, v) = pager.id
        PROVE  FALSE
    <3>1. /\ pager.user \in Accounts /\ pager.id # 0
          /\ ~IsPrivateMember(pager.user, pager.id)
      BY <1>1, <2>1 DEF HistoryInv, PagerInv, PagerIsAuthorized
    <3>2. pager.user \in Nat \ {0} /\ v \in Nat \ {0}
      BY <3>1, HistoryAssumption, Zenon
    <3>3. /\ pager.user # v /\ Larger(pager.user, v) < Word
          /\ pager.id = PrivateConversationId(pager.user, v)
      BY <2>1, <3>1, <3>2, ClientAsksForPairs, ConversationIds
    <3>4. QED
      BY <3>1, <3>3, MembersOfPair
  <2>2. ASSUME pager.at = "done", pager.kind = "private", NEW m \in pager.base
        PROVE  ClientConversationId(pager.user, Peer(m)) = pager.id
    <3>1. /\ m \in InConversation(pager.kind, pager.id)
          /\ Authorized(pager.user, pager.kind, pager.id)
      BY <1>1, <2>2 DEF HistoryInv, PagerInv, GotIsSuffix, PagerIsAuthorized
    <3>2. log[m].kind = "private"
      BY <2>2, <3>1 DEF InConversation
    <3>3. QED
      BY <1>1, <3>1, <3>2, MessageOfMember
  <2>3. ASSUME NEW i \in DOMAIN pager.got
        PROVE  LET m == log[pager.got[i]]
               IN  IF m.kind = "private" THEN pager.user \in m.parties
                   ELSE pager.user \in joined[m.conv]
    <3>1. /\ pager.got[i] \in InConversation(pager.kind, pager.id)
          /\ Authorized(pager.user, pager.kind, pager.id)
      BY <1>1, <2>3 DEF HistoryInv, PagerInv, GotIsSuffix, PagerIsAuthorized
    <3>2. QED
      BY <1>1, <3>1, MessageOfMember
  <2>4. QED
    BY <2>1, <2>2, <2>3 DEF HistoryForMembers
<1>2. QED
  BY HistoryInvInit, HistoryInvNext, <1>1, PTL DEF HistorySpec

=============================================================================
