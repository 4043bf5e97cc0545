------------------------- MODULE OnlineServiceProofs -------------------------
(***************************************************************************)
(* Proofs about the login path for every number of users, sessions and     *)
(* threads, and with or without Redis and pool failures.                   *)
(***************************************************************************)
EXTENDS OnlineService, TLAPS

TableNextTypeOK ==
    /\ users' \in [Users -> Sessions \cup {None}]
    /\ sessions' \in [Sessions -> Users \cup {None}]

-----------------------------------------------------------------------------
\* The critical sections of SessionManager, one lemma each: they keep the maps
\* typed and inverse to each other.

\* bindUser: the displaced session's entry goes with the user's old entry.
LEMMA BindLockedKeepsTable ==
    ASSUME TableTypeOK, BindingsConsistent,
           NEW u \in Users, NEW s \in Sessions, BindLocked(u, s)
    PROVE  TableNextTypeOK /\ BindingsConsistent'
BY NoneAssumption DEF TableTypeOK, TableNextTypeOK, BindingsConsistent, BindLocked,
                      BoundToAnother

\* unbindUser: both entries go, or neither.
LEMMA UnbindLockedKeepsTable ==
    ASSUME TableTypeOK, BindingsConsistent,
           NEW u \in Users, NEW s \in Sessions, UnbindLocked(u, s)
    PROVE  TableNextTypeOK /\ BindingsConsistent'
BY NoneAssumption DEF TableTypeOK, TableNextTypeOK, BindingsConsistent, UnbindLocked,
                      UnbindMatches, EraseBindingLocked, tableVars

\* getSessionByUser: erasing a dead binding erases both of its entries.
LEMMA GetSessionByUserKeepsTable ==
    ASSUME TableTypeOK, BindingsConsistent,
           NEW u \in Users, GetSessionByUser(u)
    PROVE  TableNextTypeOK /\ BindingsConsistent'
BY NoneAssumption DEF TableTypeOK, TableNextTypeOK, BindingsConsistent, GetSessionByUser,
                      EraseBindingLocked, tableVars

\* getUserBySession: likewise; its stale-entry branch is never taken.
LEMMA GetUserBySessionKeepsTable ==
    ASSUME TableTypeOK, BindingsConsistent,
           NEW s \in Sessions, GetUserBySession(s)
    PROVE  TableNextTypeOK /\ BindingsConsistent'
BY NoneAssumption DEF TableTypeOK, TableNextTypeOK, BindingsConsistent, GetUserBySession,
                      UserOf

-----------------------------------------------------------------------------
\* The inductive invariant.  Type correctness needs the table to be consistent
\* (a lookup indexes users_ with what it found in sessions_), so they go together.
Inv == TypeOK /\ BindingsConsistent

\* A thread that is past the dispatch holds a user and a session.
LEMMA RunningTaskTyped ==
    ASSUME TypeOK, NEW t \in Threads, task[t].pc # "idle"
    PROVE  task[t].uid \in Users /\ task[t].sid \in Sessions
BY DEF TypeOK, Idle, Task

\* Each step of a running handler keeps the invariant.
LEMMA ThreadStepKeepsInv ==
    ASSUME Inv, NEW t \in Threads, ThreadStep(t)
    PROVE  Inv'
<1> USE NoneAssumption
<1> DEFINE u == task[t].uid
           s == task[t].sid
<1>1. task[t].pc # "idle"
  BY DEF ThreadStep, LoginLookup, SetUserOnline, BindCheck, BindRefused, BindUser,
         CloseOld, Rollback, UnbindUser, SetUserOffline, RefreshCheck, RefreshUserOnline
<1>2. u \in Users /\ s \in Sessions
  BY <1>1, RunningTaskTyped DEF Inv
<1>3. ASSUME NEW pc \in Steps \ {"idle"}, Goto(t, pc)
      PROVE  task' \in [Threads -> [pc : Steps \ {"idle"}, uid : Users, sid : Sessions]
                                   \cup {Idle}]
  BY <1>1, <1>3 DEF Inv, TypeOK, Goto, Idle, Task
<1>4. ASSUME Finish(t)
      PROVE  task' \in [Threads -> [pc : Steps \ {"idle"}, uid : Users, sid : Sessions]
                                   \cup {Idle}]
  BY <1>4 DEF Inv, TypeOK, Finish
<1>5. CASE LoginLookup(t)
  <2>1. TableNextTypeOK /\ BindingsConsistent'
    BY <1>2, <1>5, GetUserBySessionKeepsTable DEF Inv, TypeOK, LoginLookup
  <2> QED
    BY <1>3, <1>4, <1>5, <2>1
    DEF Inv, TypeOK, TableTypeOK, TableNextTypeOK, LoginLookup, Steps
<1>6. CASE SetUserOnline(t)
  <2>1. online' \in [Users -> [sid : Sessions, ttl : {"fresh", "aged"}] \cup {None}]
    BY <1>2, <1>6 DEF Inv, TypeOK, SetUserOnline, Key
  <2> QED
    BY <1>3, <1>4, <1>6, <2>1
    DEF Inv, TypeOK, TableTypeOK, BindingsConsistent, SetUserOnline, Steps
<1>7. CASE BindCheck(t)
  BY <1>3, <1>7 DEF Inv, TypeOK, TableTypeOK, BindingsConsistent, BindCheck, Steps
<1>8. CASE BindRefused(t)
  BY <1>3, <1>8 DEF Inv, TypeOK, TableTypeOK, BindingsConsistent, BindRefused, Steps
<1>9. CASE BindUser(t)
  <2>1. TableNextTypeOK /\ BindingsConsistent'
    BY <1>2, <1>9, BindLockedKeepsTable DEF Inv, TypeOK, BindUser
  <2>2. users[u] \in Sessions \cup {None}
    BY <1>2 DEF Inv, TypeOK, TableTypeOK
  <2>3. task' \in [Threads -> [pc : Steps \ {"idle"}, uid : Users, sid : Sessions]
                              \cup {Idle}]
    BY <1>2, <1>4, <1>9, <2>2 DEF Inv, TypeOK, BindUser, Task, Steps
  <2>4. displaced' \subseteq Sessions /\ orphans' \subseteq Sessions
    BY <1>2, <1>9, <2>2 DEF Inv, TypeOK, BindUser
  <2> QED
    BY <1>9, <2>1, <2>3, <2>4 DEF Inv, TypeOK, TableTypeOK, TableNextTypeOK, BindUser
<1>10. CASE CloseOld(t)
  BY <1>2, <1>4, <1>10 DEF Inv, TypeOK, TableTypeOK, BindingsConsistent, CloseOld
<1>11. CASE Rollback(t)
  <2>1. online' \in [Users -> [sid : Sessions, ttl : {"fresh", "aged"}] \cup {None}]
    BY <1>2, <1>11 DEF Inv, TypeOK, Rollback, RedisOutcomes
  <2> QED
    BY <1>4, <1>11, <2>1 DEF Inv, TypeOK, TableTypeOK, BindingsConsistent, Rollback
<1>12. CASE UnbindUser(t)
  <2>1. TableNextTypeOK /\ BindingsConsistent'
    BY <1>2, <1>12, UnbindLockedKeepsTable DEF Inv, TypeOK, UnbindUser
  <2> QED
    BY <1>3, <1>4, <1>12, <2>1
    DEF Inv, TypeOK, TableTypeOK, TableNextTypeOK, UnbindUser, Steps
<1>13. CASE SetUserOffline(t)
  <2>1. online' \in [Users -> [sid : Sessions, ttl : {"fresh", "aged"}] \cup {None}]
    BY <1>2, <1>13 DEF Inv, TypeOK, SetUserOffline, RedisOutcomes
  <2> QED
    BY <1>4, <1>13, <2>1 DEF Inv, TypeOK, TableTypeOK, BindingsConsistent, SetUserOffline
<1>14. CASE RefreshCheck(t)
  <2>1. TableNextTypeOK /\ BindingsConsistent'
    BY <1>2, <1>14, GetUserBySessionKeepsTable DEF Inv, TypeOK, RefreshCheck
  <2> QED
    BY <1>3, <1>4, <1>14, <2>1
    DEF Inv, TypeOK, TableTypeOK, TableNextTypeOK, RefreshCheck, Steps
<1>15. CASE RefreshUserOnline(t)
  <2>1. online' \in [Users -> [sid : Sessions, ttl : {"fresh", "aged"}] \cup {None}]
    BY <1>2, <1>15 DEF Inv, TypeOK, RefreshUserOnline, RedisOutcomes
  <2> QED
    BY <1>4, <1>15, <2>1 DEF Inv, TypeOK, TableTypeOK, BindingsConsistent, RefreshUserOnline
<1> QED
  BY <1>5, <1>6, <1>7, <1>8, <1>9, <1>10, <1>11, <1>12, <1>13, <1>14, <1>15 DEF ThreadStep

\* Dispatching a request or a cleanup task keeps the invariant.
LEMMA BeginTaskKeepsInv ==
    ASSUME Inv, NEW t \in Threads, BeginTask(t)
    PROVE  Inv'
<1> USE NoneAssumption
<1>1. PICK s \in Sessions : \/ \E u \in Users : BeginLogin(t, u, s)
                            \/ BeginLogout(t, s)
                            \/ BeginHeartbeat(t, s)
                            \/ BeginCleanup(t, s)
  BY DEF BeginTask
<1>2. ASSUME UnbindSession(t, s)
      PROVE  task' \in [Threads -> [pc : Steps \ {"idle"}, uid : Users, sid : Sessions]
                                   \cup {Idle}]
  BY <1>2 DEF Inv, TypeOK, TableTypeOK, UnbindSession, GetBoundUserBySession, Task, Steps
<1>3. ASSUME NEW u \in Users, BeginLogin(t, u, s)
      PROVE  Inv'
  BY <1>3 DEF Inv, TypeOK, TableTypeOK, BindingsConsistent, BeginLogin, Task, Steps
<1>4. CASE BeginLogout(t, s)
  BY <1>2, <1>4 DEF Inv, TypeOK, TableTypeOK, BindingsConsistent, BeginLogout
<1>5. CASE BeginHeartbeat(t, s)
  BY <1>5 DEF Inv, TypeOK, TableTypeOK, BindingsConsistent, BeginHeartbeat, UserOf, Task,
              Steps
<1>6. CASE BeginCleanup(t, s)
  BY <1>2, <1>6 DEF Inv, TypeOK, TableTypeOK, BindingsConsistent, BeginCleanup
<1> QED
  BY <1>1, <1>3, <1>4, <1>5, <1>6

\* Connections, lookups of other handlers and Redis' clock keep the invariant.
LEMMA EnvironmentKeepsInv ==
    ASSUME Inv,
           \/ \E s \in Sessions : \/ Connect(s) \/ CloseInLoop(s) \/ CloseCallback(s)
                                  \/ LookupUser(s)
           \/ \E u \in Users : LookupSession(u) \/ Age(u) \/ Expire(u)
    PROVE  Inv'
<1> USE NoneAssumption DEF Inv, TypeOK, svcVars
<1>1. ASSUME NEW s \in Sessions, Connect(s) \/ CloseInLoop(s)
      PROVE  Inv'
  BY <1>1 DEF TableTypeOK, BindingsConsistent, ConnStates, Connect, CloseInLoop
<1>2. ASSUME NEW s \in Sessions, CloseCallback(s)
      PROVE  Inv'
  BY <1>2 DEF TableTypeOK, BindingsConsistent, ConnStates, CloseCallback,
              CleanupSubmitted, CleanupRejected
<1>3. ASSUME NEW s \in Sessions, LookupUser(s)
      PROVE  Inv'
  BY <1>3, GetUserBySessionKeepsTable DEF TableTypeOK, TableNextTypeOK, LookupUser
<1>4. ASSUME NEW u \in Users, LookupSession(u)
      PROVE  Inv'
  BY <1>4, GetSessionByUserKeepsTable DEF TableTypeOK, TableNextTypeOK, LookupSession
<1>5. ASSUME NEW u \in Users, Age(u) \/ Expire(u)
      PROVE  Inv'
  BY <1>5 DEF TableTypeOK, BindingsConsistent, Age, Expire
<1> QED
  BY <1>1, <1>2, <1>3, <1>4, <1>5

\* The three kinds of step together.
LEMMA NextKeepsInv ==
    ASSUME Inv, [Next]_vars
    PROVE  Inv'
<1>1. CASE Next
  BY <1>1, ThreadStepKeepsInv, BeginTaskKeepsInv, EnvironmentKeepsInv DEF Next
<1>2. CASE UNCHANGED vars
  BY <1>2 DEF Inv, TypeOK, TableTypeOK, BindingsConsistent, vars, svcVars
<1> QED
  BY <1>1, <1>2

\* Initially the table is empty and every thread idle.
LEMMA InitEstablishesInv == Init => Inv
BY NoneAssumption DEF Init, TableInit, Inv, TypeOK, TableTypeOK, BindingsConsistent,
                      ConnStates

\* The inductive invariant holds in every reachable state.
THEOREM InvHolds == Spec => []Inv
BY InitEstablishesInv, NextKeepsInv, PTL DEF Spec

\* Every variable keeps its type: in particular a thread in the middle of a
\* handler always holds a real user and a real session, also when it is about
\* to close the session a login displaced.
THEOREM TypeCorrect == Spec => []TypeOK
<1>1. Inv => TypeOK
  BY DEF Inv
<1> QED
  BY <1>1, InvHolds, PTL

\* users_ and sessions_ are inverse to each other after any interleaving of
\* logins, logouts, cleanups, heartbeats and lazy lookups.
THEOREM TableConsistent == Spec => []BindingsConsistent
<1>1. Inv => BindingsConsistent
  BY DEF Inv
<1> QED
  BY <1>1, InvHolds, PTL

-----------------------------------------------------------------------------
\* Who changes the table, and what else such a step leaves alone.
Reads == \/ \E s \in Sessions : GetUserBySession(s)
         \/ \E u \in Users : GetSessionByUser(u)
         \/ UNCHANGED tableVars

LEMMA TableWriters ==
    ASSUME Inv, [Next]_vars
    PROVE  \/ \E t \in Threads : BindUser(t) \/ UnbindUser(t)
           \/ Reads /\ UNCHANGED <<conn, displaced>>
           \/ UNCHANGED tableVars
<1> USE DEF Reads, vars, svcVars, tableVars
<1>1. ASSUME NEW t \in Threads, ThreadStep(t), ~BindUser(t), ~UnbindUser(t)
      PROVE  Reads /\ UNCHANGED <<conn, displaced>>
  <2>1. task[t].pc # "idle"
    BY <1>1 DEF ThreadStep, LoginLookup, SetUserOnline, BindCheck, BindRefused, CloseOld,
                Rollback, SetUserOffline, RefreshCheck, RefreshUserOnline
  <2>2. task[t].sid \in Sessions
    BY <2>1, RunningTaskTyped DEF Inv
  <2> QED
    BY <1>1, <2>2 DEF ThreadStep, LoginLookup, SetUserOnline, BindCheck, BindRefused,
                      CloseOld, Rollback, SetUserOffline, RefreshCheck, RefreshUserOnline
<1>2. ASSUME NEW t \in Threads, BeginTask(t)
      PROVE  UNCHANGED tableVars
  BY <1>2 DEF BeginTask, BeginLogin, BeginLogout, BeginHeartbeat, BeginCleanup
<1>3. ASSUME NEW s \in Sessions,
             Connect(s) \/ CloseInLoop(s) \/ CloseCallback(s) \/ LookupUser(s)
      PROVE  (Reads /\ UNCHANGED <<conn, displaced>>) \/ UNCHANGED tableVars
  BY <1>3 DEF Connect, CloseInLoop, CloseCallback, LookupUser
<1>4. ASSUME NEW u \in Users, LookupSession(u) \/ Age(u) \/ Expire(u)
      PROVE  (Reads /\ UNCHANGED <<conn, displaced>>) \/ UNCHANGED tableVars
  BY <1>4 DEF LookupSession, Age, Expire
<1> QED
  BY <1>1, <1>2, <1>3, <1>4 DEF Next

\* A lookup removes only bindings of closed sessions, and creates none.
LEMMA ReadsDropOnlyDead ==
    ASSUME Inv, Reads
    PROVE  /\ \A s \in Sessions : sessions'[s] \in {None, sessions[s]}
           /\ \A u \in Users : \/ users'[u] = users[u]
                              \/ /\ users[u] # None /\ Closed(users[u])
                                 /\ users' = [users EXCEPT ![u] = None]
BY NoneAssumption DEF Inv, TypeOK, TableTypeOK, BindingsConsistent, Reads, GetUserBySession,
    GetSessionByUser, UserOf, EraseBindingLocked, tableVars

\* A running handler's record is what its fields say.
LEMMA TaskIsItsFields ==
    ASSUME TypeOK, NEW t \in Threads, task[t].pc # "idle"
    PROVE  task[t] = Task(task[t].pc, task[t].uid, task[t].sid)
BY DEF TypeOK, Idle, Task

\* No interleaving moves a bound session to another user.
THEOREM SessionKeepsUser == Spec => SessionNeverChangesUser
<1> DEFINE Stays == \A s \in Sessions :
               sessions[s] # None /\ sessions'[s] # None => sessions'[s] = sessions[s]
<1>1. ASSUME Inv, [Next]_vars
      PROVE  Stays
  <2>1. ASSUME NEW t \in Threads, BindUser(t)
        PROVE  Stays
    BY <1>1, <2>1 DEF Inv, TypeOK, TableTypeOK, BindUser, BindLocked, BoundToAnother
  <2>2. ASSUME NEW t \in Threads, UnbindUser(t)
        PROVE  Stays
    BY <1>1, <2>2 DEF Inv, TypeOK, TableTypeOK, UnbindUser, UnbindLocked,
                      EraseBindingLocked, tableVars
  <2>3. CASE Reads
    BY <1>1, <2>3, ReadsDropOnlyDead
  <2>4. CASE UNCHANGED tableVars
    BY <2>4 DEF tableVars
  <2> QED
    BY <1>1, <2>1, <2>2, <2>3, <2>4, TableWriters
<1>2. Inv /\ [Next]_vars => [Stays]_vars
  BY <1>1
<1> QED
  BY <1>2, InvHolds, PTL DEF Spec, SessionNeverChangesUser

-----------------------------------------------------------------------------
\* The stronger invariant behind the kick, the cleanup and the refinement: only
\* sessions that have connected are bound or worked on, and the two promises
\* about displaced and dead sessions, which are inductive together with it.
Connected ==
    /\ \A t \in Threads : task[t].pc # "idle" => conn[task[t].sid] # "new"
    /\ \A s \in Sessions : sessions[s] # None => conn[s] # "new"
    /\ \A s \in cleanup : conn[s] # "new"

\* conn never goes back to "new".
LEMMA ConnectedStays ==
    ASSUME TypeOK, [Next]_vars, NEW s \in Sessions, conn[s] # "new"
    PROVE  conn'[s] # "new"
BY DEF TypeOK, TableTypeOK, Next, BeginTask, ThreadStep, BeginLogin, BeginLogout,
    BeginHeartbeat, BeginCleanup, LoginLookup, SetUserOnline, BindCheck, BindRefused, BindUser,
    CloseOld, Rollback, UnbindUser, SetUserOffline, RefreshCheck, RefreshUserOnline,
    Connect, CloseInLoop, CloseCallback, LookupUser, LookupSession, Age, Expire, vars

\* A thread keeps its session until it finishes, except where bindUser turns to
\* the session it displaced.
LEMMA TaskSession ==
    ASSUME Inv, Connected, [Next]_vars, NEW t \in Threads, task'[t].pc # "idle"
    PROVE  /\ task'[t].sid \in Sessions
           /\ conn[task'[t].sid] # "new"
<1> USE NoneAssumption
<1>1. ASSUME task'[t] = task[t]
      PROVE  task'[t].sid \in Sessions /\ conn[task'[t].sid] # "new"
  BY <1>1, RunningTaskTyped DEF Inv, Connected
<1>2. ASSUME NEW r \in Threads, NEW pc, Goto(r, pc), task[r].pc # "idle"
      PROVE  task'[t].sid \in Sessions /\ conn[task'[t].sid] # "new"
  <2>1. task'[t].sid = task[t].sid /\ task[t].pc # "idle"
    BY <1>2 DEF Inv, TypeOK, Goto, Idle, Task
  <2> QED
    BY <2>1, RunningTaskTyped DEF Inv, Connected
<1>3. ASSUME NEW r \in Threads, Finish(r)
      PROVE  task'[t] = task[t]
  BY <1>3 DEF Inv, TypeOK, Finish, Idle, Task
<1>4. ASSUME NEW r \in Threads, BindUser(r)
      PROVE  task'[t].sid \in Sessions /\ conn[task'[t].sid] # "new"
  <2>1. task[r].uid \in Users /\ task[r].sid \in Sessions
    BY <1>4, RunningTaskTyped DEF Inv, BindUser
  <2>2. CASE users[task[r].uid] \in {None, task[r].sid}
    BY <1>1, <1>3, <1>4, <2>2 DEF BindUser
  <2>3. CASE users[task[r].uid] \notin {None, task[r].sid}
    <3>1. /\ users[task[r].uid] \in Sessions
          /\ sessions[users[task[r].uid]] # None
      BY <2>1, <2>3 DEF Inv, TypeOK, TableTypeOK, BindingsConsistent
    <3>2. CASE t = r
      <4>1. task'[t].sid = users[task[r].uid]
        BY <1>4, <2>3, <3>2 DEF Inv, TypeOK, BindUser, Task
      <4> QED
        BY <3>1, <4>1 DEF Connected
    <3>3. CASE t # r
      BY <1>1, <1>4, <2>3, <3>3 DEF Inv, TypeOK, BindUser
    <3> QED
      BY <3>2, <3>3
  <2> QED
    BY <2>2, <2>3
<1>5. ASSUME NEW r \in Threads, ThreadStep(r)
      PROVE  task'[t].sid \in Sessions /\ conn[task'[t].sid] # "new"
  <2>1. CASE BindUser(r)
    BY <1>4, <2>1
  <2>2. CASE ~BindUser(r)
    <3>1. task[r].pc # "idle" /\ (Finish(r) \/ \E pc : Goto(r, pc))
      BY <1>5, <2>2 DEF ThreadStep, LoginLookup, SetUserOnline, BindCheck, BindRefused,
          CloseOld, Rollback, UnbindUser, SetUserOffline, RefreshCheck, RefreshUserOnline
    <3> QED
      BY <1>1, <1>2, <1>3, <3>1
  <2> QED
    BY <2>1, <2>2
<1>6. ASSUME NEW r \in Threads, NEW s \in Sessions,
             \/ \E u \in Users : BeginLogin(r, u, s)
             \/ BeginLogout(r, s) \/ BeginHeartbeat(r, s) \/ BeginCleanup(r, s)
      PROVE  task'[t].sid \in Sessions /\ conn[task'[t].sid] # "new"
  <2>1. conn[s] # "new"
    BY <1>6 DEF Connected, BeginLogin, BeginLogout, BeginHeartbeat, BeginCleanup
  <2>2. task'[t] = task[t] \/ task'[t].sid = s
    BY <1>6 DEF Inv, TypeOK, BeginLogin, BeginLogout, BeginHeartbeat, BeginCleanup,
        UnbindSession, Task, Idle
  <2> QED
    BY <1>1, <2>1, <2>2
<1>7. CASE UNCHANGED task
  BY <1>1, <1>7
<1> QED
  BY <1>5, <1>6, <1>7
  DEF Next, BeginTask, Connect, CloseInLoop, CloseCallback, LookupUser, LookupSession, Age,
      Expire, vars, svcVars

\* Connected is inductive.
LEMMA NextKeepsConnected ==
    ASSUME Inv, Connected, [Next]_vars
    PROVE  Connected'
<1>1. \A t \in Threads : task'[t].pc # "idle" => conn'[task'[t].sid] # "new"
  BY TaskSession, ConnectedStays DEF Inv
<1>2. ASSUME NEW s \in Sessions, sessions'[s] # None
      PROVE  conn[s] # "new"
  <2>1. ASSUME NEW t \in Threads, BindUser(t)
        PROVE  conn[s] # "new"
    <3>1. s = task[t].sid \/ sessions[s] # None
      BY <1>2, <2>1 DEF BindUser, BindLocked
    <3> QED
      BY <2>1, <3>1 DEF Connected, BindUser
  <2>2. ASSUME NEW t \in Threads, UnbindUser(t)
        PROVE  sessions[s] # None
    BY <1>2, <2>2 DEF Inv, TypeOK, TableTypeOK, UnbindUser, UnbindLocked,
                      EraseBindingLocked, tableVars
  <2>3. CASE Reads
    BY <1>2, <2>3, ReadsDropOnlyDead DEF Connected
  <2>4. CASE UNCHANGED tableVars
    BY <1>2, <2>4 DEF tableVars, Connected
  <2> QED
    BY <2>1, <2>2, <2>3, <2>4, TableWriters DEF Connected
<1>3. \A s \in cleanup' : s \in Sessions /\ conn[s] # "new"
  BY DEF Inv, TypeOK, TableTypeOK, Connected, Next, BeginTask, ThreadStep, BeginLogin,
    BeginLogout, BeginHeartbeat, BeginCleanup, LoginLookup, SetUserOnline, BindCheck,
    BindRefused, BindUser, CloseOld, Rollback, UnbindUser, SetUserOffline, RefreshCheck,
    RefreshUserOnline, Connect, CloseInLoop, CloseCallback, CleanupSubmitted, CleanupRejected,
    LookupUser, LookupSession, Age, Expire, vars, svcVars
<1> QED
  BY <1>1, <1>2, <1>3, ConnectedStays DEF Inv, Connected

\* A step of one thread, a connection or Redis leaves the other threads' tasks
\* alone.
LEMMA OthersKeepTask ==
    ASSUME Inv, [Next]_vars, NEW t \in Threads, ~ThreadStep(t), ~BeginTask(t)
    PROVE  task'[t] = task[t]
<1>1. ASSUME NEW r \in Threads, r # t, Finish(r) \/ \E pc : Goto(r, pc)
      PROVE  task'[t] = task[t]
  BY <1>1 DEF Inv, TypeOK, Finish, Goto
<1>2. ASSUME NEW r \in Threads, r # t, ThreadStep(r)
      PROVE  task'[t] = task[t]
  <2>1. CASE BindUser(r)
    BY <1>1, <1>2, <2>1 DEF Inv, TypeOK, BindUser
  <2>2. CASE ~BindUser(r)
    BY <1>1, <1>2, <2>2 DEF ThreadStep, LoginLookup, SetUserOnline, BindCheck, BindRefused,
        CloseOld, Rollback, UnbindUser, SetUserOffline, RefreshCheck, RefreshUserOnline
  <2> QED
    BY <2>1, <2>2
<1>3. ASSUME NEW r \in Threads, r # t, BeginTask(r)
      PROVE  task'[t] = task[t]
  BY <1>3 DEF Inv, TypeOK, BeginTask, BeginLogin, BeginLogout, BeginHeartbeat, BeginCleanup,
      UnbindSession
<1> QED
  BY <1>2, <1>3 DEF Next, Connect, CloseInLoop, CloseCallback, LookupUser, LookupSession,
      Age, Expire, vars, svcVars

\* Only an idle thread is given a task.
LEMMA BusyTakesNoTask ==
    ASSUME NEW t \in Threads, task[t].pc # "idle"
    PROVE  ~BeginTask(t)
BY DEF BeginTask, BeginLogin, BeginLogout, BeginHeartbeat, BeginCleanup, Idle, Task

\* A thread that owes a displaced session its close() keeps owing it until
\* CloseOld.
LEMMA OwedClose ==
    ASSUME Inv, [Next]_vars, NEW t \in Threads, task[t].pc = "closeOld",
           ~CloseOld(t)
    PROVE  task'[t] = task[t]
<1>1. ~ThreadStep(t)
  BY DEF ThreadStep, LoginLookup, SetUserOnline, BindCheck, BindRefused, BindUser,
         Rollback, UnbindUser, SetUserOffline, RefreshCheck, RefreshUserOnline
<1> QED
  BY <1>1, BusyTakesNoTask, OthersKeepTask

\* KickIsNeverLost is preserved by every step.
LEMMA NextKeepsKick ==
    ASSUME Inv, Connected, KickIsNeverLost, [Next]_vars
    PROVE  KickIsNeverLost'
<1> USE NoneAssumption
<1> SUFFICES ASSUME NEW s \in displaced'
             PROVE  /\ conn'[s] = "open"
                    /\ \/ s \in closing'
                       \/ \E t \in Threads : task'[t].pc = "closeOld" /\ task'[t].sid = s
  BY DEF KickIsNeverLost
<1>1. CASE s \notin displaced
  <2>1. PICK t \in Threads : BindUser(t) /\ s \in {users[task[t].uid]} \ {None, task[t].sid}
                             /\ ~Closed(s)
    BY <1>1 DEF Next, BeginTask, ThreadStep, BeginLogin,
        BeginLogout, BeginHeartbeat, BeginCleanup, LoginLookup, SetUserOnline, BindCheck,
        BindRefused, BindUser, CloseOld, Rollback, UnbindUser, SetUserOffline, RefreshCheck,
        RefreshUserOnline, Connect, CloseInLoop, CloseCallback,
        LookupUser, LookupSession, Age, Expire, vars, svcVars
  <2>2. task[t].uid \in Users
    BY <2>1, RunningTaskTyped DEF Inv, BindUser
  <2>3. s \in Sessions /\ conn[s] # "new"
    BY <2>1, <2>2 DEF Inv, TypeOK, TableTypeOK, BindingsConsistent, Connected
  <2>4. conn'[s] = "open"
    BY <2>1, <2>3 DEF Inv, TypeOK, TableTypeOK, ConnStates, Closed, BindUser
  <2>5. task'[t].pc = "closeOld" /\ task'[t].sid = s
    BY <2>1 DEF Inv, TypeOK, BindUser, Task
  <2> QED
    BY <2>4, <2>5
<1>2. CASE s \in displaced
  <2>1. s \in Sessions /\ conn[s] = "open"
    BY <1>2 DEF Inv, TypeOK, KickIsNeverLost
  <2>2. ~CloseInLoop(s)
    BY DEF CloseInLoop
  <2>3. conn'[s] = "open" /\ (s \in closing => s \in closing')
    BY <2>1, <2>2 DEF Inv, TypeOK, TableTypeOK, Next, BeginTask, ThreadStep, BeginLogin,
        BeginLogout, BeginHeartbeat, BeginCleanup, LoginLookup, SetUserOnline, BindCheck,
        BindRefused, BindUser, CloseOld, Rollback, UnbindUser, SetUserOffline, RefreshCheck,
        RefreshUserOnline, Connect, CloseInLoop, CloseCallback,
        LookupUser, LookupSession, Age, Expire, vars, svcVars
  <2>4. ASSUME NEW t \in Threads, task[t].pc = "closeOld", task[t].sid = s
        PROVE  s \in closing' \/ (task'[t].pc = "closeOld" /\ task'[t].sid = s)
    <3>1. CASE CloseOld(t)
      BY <2>1, <2>4, <3>1 DEF CloseOld, Closed
    <3>2. CASE ~CloseOld(t)
      BY <2>4, <3>2, OwedClose
    <3> QED
      BY <3>1, <3>2
  <2> QED
    BY <1>2, <2>3, <2>4 DEF KickIsNeverLost
<1> QED
  BY <1>1, <1>2

\* A running unbind of a binding that is still there either keeps waiting for
\* the mutex or removes it.
LEMMA OwedUnbind ==
    ASSUME Inv, [Next]_vars, NEW t \in Threads, NEW s \in Sessions,
           sessions[s] # None, task[t] = Task("unbind", sessions[s], s)
    PROVE  task'[t] = task[t] \/ sessions'[s] = None
<1>1. task[t].pc = "unbind" /\ task[t].uid = sessions[s] /\ task[t].sid = s
  BY DEF Task
<1>2. CASE ThreadStep(t)
  <2>1. UnbindUser(t)
    BY <1>1, <1>2 DEF ThreadStep, LoginLookup, SetUserOnline, BindCheck, BindRefused,
        BindUser, CloseOld, Rollback, SetUserOffline, RefreshCheck, RefreshUserOnline
  <2> QED
    BY <1>1, <2>1 DEF Inv, TypeOK, TableTypeOK, BindingsConsistent, UnbindUser, UnbindLocked,
        UnbindMatches, EraseBindingLocked
<1>3. CASE ~ThreadStep(t)
  BY <1>1, <1>3, BusyTakesNoTask, OthersKeepTask
<1> QED
  BY <1>2, <1>3

\* A cleanup task stays in the pool until a thread takes it.
LEMMA CleanupWaits ==
    ASSUME Inv, [Next]_vars, NEW s \in cleanup
    PROVE  s \in cleanup' \/ \E t \in Threads : BeginCleanup(t, s)
BY DEF Next, BeginTask, ThreadStep, BeginLogin,
    BeginLogout, BeginHeartbeat, BeginCleanup, LoginLookup, SetUserOnline, BindCheck,
    BindRefused, BindUser, CloseOld, Rollback, UnbindUser, SetUserOffline, RefreshCheck,
    RefreshUserOnline, Connect, CloseInLoop, CloseCallback, CleanupSubmitted, CleanupRejected,
    LookupUser, LookupSession, Age, Expire, vars, svcVars

\* An orphan stays one.
LEMMA OrphansGrow ==
    ASSUME Inv, [Next]_vars
    PROVE  orphans \subseteq orphans'
BY DEF Next, BeginTask, ThreadStep, BeginLogin,
    BeginLogout, BeginHeartbeat, BeginCleanup, LoginLookup, SetUserOnline, BindCheck,
    BindRefused, BindUser, CloseOld, Rollback, UnbindUser, SetUserOffline, RefreshCheck,
    RefreshUserOnline, Connect, CloseInLoop, CloseCallback, CleanupSubmitted, CleanupRejected,
    LookupUser, LookupSession, Age, Expire, vars, svcVars

\* A session reaches "closed" only through its close callback.
LEMMA ClosedByCallback ==
    ASSUME Inv, [Next]_vars, NEW s \in Sessions, conn[s] # "closed", conn'[s] = "closed"
    PROVE  CloseCallback(s)
BY DEF Inv, TypeOK, TableTypeOK, Next, BeginTask, ThreadStep, BeginLogin,
    BeginLogout, BeginHeartbeat, BeginCleanup, LoginLookup, SetUserOnline, BindCheck,
    BindRefused, BindUser, CloseOld, Rollback, UnbindUser, SetUserOffline, RefreshCheck,
    RefreshUserOnline, Connect, CloseInLoop, CloseCallback,
    LookupUser, LookupSession, Age, Expire, vars, svcVars

\* A session becomes bound only in bindUser's critical section.
LEMMA BoundByBindUser ==
    ASSUME Inv, [Next]_vars, NEW s \in Sessions, sessions'[s] # None,
           sessions'[s] # sessions[s]
    PROVE  \E t \in Threads : BindUser(t) /\ task[t].sid = s
<1>1. ASSUME NEW t \in Threads, UnbindUser(t)
      PROVE  sessions'[s] \in {None, sessions[s]}
  BY <1>1 DEF Inv, TypeOK, TableTypeOK, UnbindUser, UnbindLocked, EraseBindingLocked,
              tableVars
<1>2. ASSUME NEW t \in Threads, BindUser(t), task[t].sid # s
      PROVE  sessions'[s] \in {None, sessions[s]}
  BY <1>2 DEF BindUser, BindLocked
<1> QED
  BY <1>1, <1>2, TableWriters, ReadsDropOnlyDead DEF tableVars

\* DeadBindingHasOwner is preserved by every step.
LEMMA NextKeepsDeadOwner ==
    ASSUME Inv, DeadBindingHasOwner, [Next]_vars
    PROVE  DeadBindingHasOwner'
<1> SUFFICES ASSUME NEW s \in Sessions, conn'[s] = "closed", sessions'[s] # None
             PROVE  \/ s \in cleanup' \cup orphans'
                    \/ \E t \in Threads : task'[t] = Task("unbind", sessions'[s], s)
  BY DEF DeadBindingHasOwner
<1>1. CASE conn[s] # "closed"
  BY <1>1, ClosedByCallback DEF CloseCallback, CleanupSubmitted, CleanupRejected
<1>2. CASE conn[s] = "closed" /\ sessions'[s] # sessions[s]
  <2>1. PICK t \in Threads : BindUser(t) /\ task[t].sid = s
    BY <1>2, BoundByBindUser
  <2> QED
    BY <1>2, <2>1 DEF BindUser
<1>3. CASE conn[s] = "closed" /\ sessions'[s] = sessions[s]
  <2>1. CASE s \in orphans
    BY <2>1, OrphansGrow
  <2>2. CASE s \in cleanup
    <3>1. ASSUME NEW t \in Threads, BeginCleanup(t, s)
          PROVE  task'[t] = Task("unbind", sessions'[s], s)
      BY <1>3, <3>1 DEF Inv, TypeOK, BeginCleanup, UnbindSession, GetBoundUserBySession
    <3> QED
      BY <2>2, <3>1, CleanupWaits
  <2>3. ASSUME NEW t \in Threads, task[t] = Task("unbind", sessions[s], s)
        PROVE  task'[t] = Task("unbind", sessions'[s], s)
    BY <1>3, <2>3, OwedUnbind
  <2> QED
    BY <1>3, <2>1, <2>2, <2>3 DEF DeadBindingHasOwner
<1> QED
  BY <1>1, <1>2, <1>3

IInv == Inv /\ Connected /\ KickIsNeverLost /\ DeadBindingHasOwner

\* The strengthened invariant holds in every reachable state.
THEOREM IInvHolds == Spec => []IInv
<1>1. Init => IInv
  BY InitEstablishesInv DEF Init, TableInit, IInv, Connected, KickIsNeverLost,
      DeadBindingHasOwner, Idle, Task
<1>2. IInv /\ [Next]_vars => IInv'
  BY NextKeepsInv, NextKeepsConnected, NextKeepsKick, NextKeepsDeadOwner DEF IInv
<1> QED
  BY <1>1, <1>2, PTL DEF Spec

\* The close of a session that a newer login displaced is always either owed
\* by the thread that displaced it or queued on the session's I/O loop.
THEOREM KickNeverLost == Spec => []KickIsNeverLost
<1>1. IInv => KickIsNeverLost
  BY DEF IInv
<1> QED
  BY <1>1, IInvHolds, PTL

\* The binding of a closed session is on its way out unless its cleanup was
\* refused or had run before a late bind.
THEOREM DeadBindingOwned == Spec => []DeadBindingHasOwner
<1>1. IInv => DeadBindingHasOwner
  BY DEF IInv
<1> QED
  BY <1>1, IInvHolds, PTL

-----------------------------------------------------------------------------
\* A live binding is lost only to a newer login of its user, which condemns the
\* session, or to an unbind of exactly this binding.
THEOREM LossJustified == Spec => BindingLossJustified
<1> DEFINE Justified(u) ==
        LET s == users[u]
        IN  s # None /\ conn[s] = "open" /\ users'[u] # s
            => \E t \in Threads :
                  \/ task[t] = Task("unbind", u, s)
                  \/ /\ task[t] = Task("bind", u, users'[u])
                     /\ s \in displaced'
<1>1. ASSUME IInv, [Next]_vars, NEW u \in Users
      PROVE  Justified(u)
  <2> SUFFICES ASSUME users[u] # None, conn[users[u]] = "open", users'[u] # users[u]
               PROVE  \E t \in Threads :
                         \/ task[t] = Task("unbind", u, users[u])
                         \/ /\ task[t] = Task("bind", u, users'[u])
                            /\ users[u] \in displaced'
    OBVIOUS
  <2> USE DEF IInv, Inv
  <2>1. ASSUME NEW t \in Threads, BindUser(t)
        PROVE  task[t] = Task("bind", u, users'[u]) /\ users[u] \in displaced'
    <3>1. task[t] = Task("bind", task[t].uid, task[t].sid)
      BY <1>1, <2>1, TaskIsItsFields DEF BindUser
    <3>2. u = task[t].uid /\ users'[u] = task[t].sid
      BY <1>1, <2>1 DEF TypeOK, TableTypeOK, BindUser, BindLocked
    <3>3. users[u] \in displaced'
      BY <2>1, <3>2 DEF BindUser, Closed
    <3> QED
      BY <3>1, <3>2, <3>3
  <2>2. ASSUME NEW t \in Threads, UnbindUser(t)
        PROVE  task[t] = Task("unbind", u, users[u])
    <3>1. task[t] = Task("unbind", task[t].uid, task[t].sid)
      BY <1>1, <2>2, TaskIsItsFields DEF UnbindUser
    <3>2. u = task[t].uid /\ users[u] = task[t].sid
      BY <1>1, <2>2 DEF TypeOK, TableTypeOK, UnbindUser, UnbindLocked, UnbindMatches,
          EraseBindingLocked, tableVars
    <3> QED
      BY <3>1, <3>2
  <2>3. CASE Reads
    BY <1>1, <2>3, ReadsDropOnlyDead DEF Closed
  <2>4. CASE UNCHANGED tableVars
    BY <2>4 DEF tableVars
  <2> QED
    BY <1>1, <2>1, <2>2, <2>3, <2>4, TableWriters
<1>2. IInv /\ [Next]_vars => [\A u \in Users : Justified(u)]_vars
  BY <1>1
<1> QED
  BY <1>2, IInvHolds, PTL DEF Spec, BindingLossJustified

-----------------------------------------------------------------------------
\* Refinement: every step of the login path is a step of LoginRegistry.

\* bindUser's critical section is the abstract login.
LEMMA BindIsLogin ==
    ASSUME IInv, NEW t \in Threads, BindUser(t)
    PROVE  Registry!Login(task[t].uid, task[t].sid)
<1> USE NoneAssumption DEF IInv, Inv
<1>1. task[t].uid \in Users /\ task[t].sid \in Sessions
  BY RunningTaskTyped DEF BindUser
<1>2. Life[task[t].sid] # "new"
  BY <1>1 DEF Life, Connected, BindUser
<1>3. \A v \in Users \ {task[t].uid} : users[v] # task[t].sid
  BY <1>1 DEF BindUser, BindLocked, BoundToAnother, BindingsConsistent, TypeOK, TableTypeOK
<1>4. users' = [users EXCEPT ![task[t].uid] = task[t].sid]
  BY DEF BindUser, BindLocked
<1>5. ASSUME NEW x \in {users[task[t].uid]} \ {task[t].sid, None}
      PROVE  ~Closed(x) <=> Life[x] = "open"
  <2>1. x \in Sessions /\ conn[x] # "new"
    BY <1>1, <1>5 DEF TypeOK, TableTypeOK, BindingsConsistent, Connected
  <2> QED
    BY <2>1 DEF Life, Closed, TypeOK, TableTypeOK, ConnStates
<1>6. displaced' = displaced \cup
          {x \in {users[task[t].uid]} \ {task[t].sid, None} : Life[x] = "open"}
  BY <1>5 DEF BindUser
<1>7. Life' = Life
  BY DEF BindUser, Life, Closed
<1> QED
  BY <1>2, <1>3, <1>4, <1>6, <1>7 DEF Registry!Login

\* Removing a binding is the abstract unbind.
LEMMA UnbindIsUnbind ==
    ASSUME IInv, NEW t \in Threads, UnbindUser(t)
    PROVE  Registry!Unbind(task[t].uid) \/ UNCHANGED Registry!vars
<1> USE NoneAssumption DEF IInv, Inv
<1>1. task[t].uid \in Users /\ task[t].sid \in Sessions
  BY RunningTaskTyped DEF UnbindUser
<1>2. Life' = Life /\ displaced' = displaced
  BY DEF UnbindUser, Life, Closed
<1>3. \/ users' = users
      \/ users[task[t].uid] # None /\ users' = [users EXCEPT ![task[t].uid] = None]
  BY <1>1 DEF UnbindUser, UnbindLocked, UnbindMatches, EraseBindingLocked, tableVars
<1> QED
  BY <1>2, <1>3 DEF Registry!Unbind, Registry!vars

\* A lookup is an abstract unbind of a dead binding, or nothing.
LEMMA ReadIsUnbind ==
    ASSUME IInv, Reads, UNCHANGED <<conn, displaced>>
    PROVE  (\E u \in Users : Registry!Unbind(u)) \/ UNCHANGED Registry!vars
<1> USE DEF IInv, Inv
<1>1. Life' = Life
  BY DEF Life, Closed
<1>2. users' \in [Users -> Sessions \cup {None}]
  BY GetUserBySessionKeepsTable, GetSessionByUserKeepsTable
  DEF Reads, TypeOK, TableTypeOK, TableNextTypeOK, tableVars
<1>3. CASE \A u \in Users : users'[u] = users[u]
  <2>1. users' = users
    BY <1>2, <1>3 DEF TypeOK, TableTypeOK
  <2> QED
    BY <1>1, <2>1 DEF Registry!vars
<1>4. CASE \E u \in Users : users'[u] # users[u]
  <2>1. PICK u \in Users : users[u] # None /\ users' = [users EXCEPT ![u] = None]
    BY <1>4, ReadsDropOnlyDead
  <2> QED
    BY <1>1, <2>1 DEF Registry!Unbind
<1> QED
  BY <1>3, <1>4

\* Steps that leave the table alone connect or close a session, or do nothing
\* the registry can see.
LEMMA RestIsConnectOrClose ==
    ASSUME IInv, [Next]_vars, UNCHANGED tableVars,
           \A t \in Threads : ~BindUser(t) /\ ~UnbindUser(t)
    PROVE  (\E s \in Sessions : Registry!Connect(s) \/ Registry!Close(s))
           \/ UNCHANGED Registry!vars
<1> USE DEF IInv, Inv, TypeOK, TableTypeOK, tableVars
<1>1. ASSUME NEW s \in Sessions, Connect(s)
      PROVE  Registry!Connect(s)
  BY <1>1 DEF Connect, Life, Closed, Registry!Connect, svcVars
<1>2. ASSUME NEW s \in Sessions, CloseInLoop(s)
      PROVE  Registry!Close(s)
  BY <1>2 DEF CloseInLoop, Life, Closed, Registry!Close
<1>3. ASSUME NEW s \in Sessions, CloseCallback(s)
      PROVE  UNCHANGED Registry!vars
  BY <1>3 DEF CloseCallback, Life, Closed, Registry!vars
<1>4. ASSUME UNCHANGED <<conn, displaced>>
      PROVE  UNCHANGED Registry!vars
  BY <1>4 DEF Life, Closed, Registry!vars
<1>5. \/ UNCHANGED <<conn, displaced>>
      \/ \E s \in Sessions : Connect(s) \/ CloseInLoop(s) \/ CloseCallback(s)
  BY DEF Next, BeginTask, ThreadStep, BeginLogin, BeginLogout, BeginHeartbeat, BeginCleanup,
      LoginLookup, SetUserOnline, BindCheck, BindRefused, CloseOld, Rollback, SetUserOffline,
      RefreshCheck, RefreshUserOnline, LookupUser, LookupSession, Age, Expire, vars, svcVars
<1> QED
  BY <1>1, <1>2, <1>3, <1>4, <1>5

\* The login path, whatever its interleavings and failures, implements the
\* registry's safety promise: newest login wins, at most one session per user
\* and one user per session, and the displaced session is condemned at once.
THEOREM RefinesRegistry == Spec => Registry!SafetySpec
<1>1. Init => Registry!Init
  BY DEF Init, TableInit, Life, Closed, Registry!Init
<1>2. ASSUME IInv, [Next]_vars
      PROVE  [Registry!Next]_Registry!vars
  <2>1. ASSUME NEW t \in Threads, BindUser(t)
        PROVE  Registry!Next
    BY <1>2, <2>1, BindIsLogin, RunningTaskTyped DEF Registry!Next, IInv, Inv, BindUser
  <2>2. ASSUME NEW t \in Threads, UnbindUser(t)
        PROVE  [Registry!Next]_Registry!vars
    BY <1>2, <2>2, UnbindIsUnbind, RunningTaskTyped DEF Registry!Next, IInv, Inv, UnbindUser
  <2>3. CASE Reads /\ UNCHANGED <<conn, displaced>>
    BY <1>2, <2>3, ReadIsUnbind DEF Registry!Next
  <2>4. CASE UNCHANGED tableVars /\ \A t \in Threads : ~BindUser(t) /\ ~UnbindUser(t)
    BY <1>2, <2>4, RestIsConnectOrClose DEF Registry!Next
  <2> QED
    BY <1>2, <2>1, <2>2, <2>3, <2>4, TableWriters DEF IInv
<1> QED
  BY <1>1, <1>2, IInvHolds, PTL DEF Spec, Registry!SafetySpec

-----------------------------------------------------------------------------
\* The Redis key against the table, when one worker runs the handlers and no
\* Redis command fails.  Between the SETEX of a login and its bind or its DEL
\* the key is ahead of the table, so the induction needs to know which handler
\* excuses the difference and that the key is then the one this login wrote.
OneWorker == \A t1, t2 \in Threads : t1 = t2

Rewriting(t, u) == task[t].uid = u /\ task[t].pc \in {"check", "bind", "rollback"}

KeyNamesSession ==
    \A u \in Users :
        SessionOf(u) # None /\ online[u] # None
        => \/ online[u].sid = SessionOf(u)
           \/ \E t \in Threads : Rewriting(t, u)

KeyNamesLogin ==
    \A t \in Threads :
        task[t].pc \in {"check", "bind"} /\ online[task[t].uid] # None
        => online[task[t].uid].sid = task[t].sid

\* A user gets a live session only from a bind of this user; every other step
\* keeps it or loses it.
LEMMA SessionFades ==
    ASSUME Inv, [Next]_vars, NEW u \in Users,
           ~ \E t \in Threads : BindUser(t) /\ task[t].uid = u
    PROVE  SessionOf(u)' \in {None, SessionOf(u)}
<1> USE NoneAssumption
<1>1. users'[u] \in {None, users[u]}
  <2>1. ASSUME NEW t \in Threads, BindUser(t)
        PROVE  users'[u] = users[u]
    BY <2>1 DEF Inv, TypeOK, TableTypeOK, BindUser, BindLocked
  <2>2. ASSUME NEW t \in Threads, UnbindUser(t)
        PROVE  users'[u] \in {None, users[u]}
    BY <2>2 DEF Inv, TypeOK, TableTypeOK, UnbindUser, UnbindLocked, EraseBindingLocked,
                tableVars
  <2>3. CASE Reads
    BY <2>3, ReadsDropOnlyDead DEF Inv, TypeOK, TableTypeOK
  <2> QED
    BY <2>1, <2>2, <2>3, TableWriters DEF tableVars
<1>2. ASSUME NEW s \in Sessions, Closed(s)
      PROVE  Closed(s)'
  BY <1>2 DEF Inv, TypeOK, TableTypeOK, Closed, Next, BeginTask, ThreadStep, BeginLogin,
      BeginLogout, BeginHeartbeat, BeginCleanup, LoginLookup, SetUserOnline, BindCheck,
      BindRefused, BindUser, CloseOld, Rollback, UnbindUser, SetUserOffline, RefreshCheck,
      RefreshUserOnline, Connect, CloseInLoop, CloseCallback, LookupUser, LookupSession, Age,
      Expire, vars
<1>3. users[u] \in Sessions \cup {None}
  BY DEF Inv, TypeOK, TableTypeOK
<1> QED
  BY <1>1, <1>2, <1>3 DEF SessionOf

\* Only SETEX puts a session id into a key.
LEMMA KeyWriters ==
    ASSUME Inv, [Next]_vars, NEW u \in Users, online'[u] # None
    PROVE  \/ online[u] # None /\ online'[u].sid = online[u].sid
           \/ \E t \in Threads : SetUserOnline(t) /\ task[t].uid = u
<1> USE DEF Inv, TypeOK
<1>1. ASSUME NEW t \in Threads, SetUserOnline(t), task[t].uid # u
      PROVE  online'[u] = online[u]
  BY <1>1 DEF SetUserOnline
<1>2. ASSUME NEW t \in Threads, Rollback(t) \/ SetUserOffline(t)
      PROVE  online'[u] \in {None, online[u]}
  BY <1>2 DEF Rollback, SetUserOffline, RedisOutcomes
<1>3. ASSUME NEW t \in Threads, RefreshUserOnline(t)
      PROVE  online[u] # None /\ online'[u].sid = online[u].sid
  BY <1>3 DEF RefreshUserOnline, RedisOutcomes
<1>4. ASSUME NEW v \in Users, Age(v)
      PROVE  online[u] # None /\ online'[u].sid = online[u].sid
  BY <1>4 DEF Age
<1>5. ASSUME NEW v \in Users, Expire(v)
      PROVE  online'[u] = online[u]
  BY <1>5 DEF Expire
<1>6. CASE UNCHANGED online
  BY <1>6
<1> QED
  BY <1>1, <1>2, <1>3, <1>4, <1>5, <1>6
  DEF Next, BeginTask, ThreadStep, BeginLogin, BeginLogout, BeginHeartbeat, BeginCleanup,
      LoginLookup, BindCheck, BindRefused, BindUser, CloseOld, UnbindUser, RefreshCheck,
      Connect, CloseInLoop, CloseCallback, LookupUser, LookupSession, vars, svcVars

\* A thread at "check" or "bind" has stayed there, or has just come from the
\* SETEX or from the test of closed() of the same login.
LEMMA LoginArrives ==
    ASSUME Inv, [Next]_vars, NEW t \in Threads, task'[t].pc \in {"check", "bind"}
    PROVE  \/ task'[t] = task[t] /\ ~SetUserOnline(t)
           \/ /\ SetUserOnline(t) \/ BindCheck(t)
              /\ task'[t].uid = task[t].uid /\ task'[t].sid = task[t].sid
<1> USE DEF Inv, TypeOK
<1>1. CASE ThreadStep(t)
  <2>1. ASSUME Finish(t)
        PROVE  FALSE
    BY <2>1 DEF Finish, Idle, Task
  <2>2. ASSUME NEW pc, Goto(t, pc), task[t].pc # "idle"
        PROVE  /\ task'[t].pc = pc
               /\ task'[t].uid = task[t].uid /\ task'[t].sid = task[t].sid
    BY <2>2 DEF Goto, Idle, Task
  <2>3. CASE SetUserOnline(t) \/ BindCheck(t)
    BY <2>1, <2>2, <2>3 DEF SetUserOnline, BindCheck
  <2>4. ~BindUser(t)
    BY <2>1 DEF BindUser, Task
  <2>5. ~(LoginLookup(t) \/ BindRefused(t) \/ UnbindUser(t) \/ RefreshCheck(t))
    BY <2>1, <2>2 DEF LoginLookup, BindRefused, UnbindUser, RefreshCheck
  <2>6. ~(CloseOld(t) \/ Rollback(t) \/ SetUserOffline(t) \/ RefreshUserOnline(t))
    BY <2>1 DEF CloseOld, Rollback, SetUserOffline, RefreshUserOnline
  <2> QED
    BY <1>1, <2>3, <2>4, <2>5, <2>6 DEF ThreadStep
<1>2. ~BeginTask(t)
  BY DEF BeginTask, BeginLogin, BeginLogout, BeginHeartbeat, BeginCleanup, UnbindSession,
         Task, Idle
<1>3. CASE ~ThreadStep(t)
  BY <1>2, <1>3, OthersKeepTask DEF ThreadStep
<1> QED
  BY <1>1, <1>3

\* A login that wrote the key keeps excusing it until its bind, or until its
\* DEL has removed the key.
LEMMA RewritingStays ==
    ASSUME Inv, [Next]_vars, ~RedisMayFail, NEW t \in Threads, NEW u \in Users,
           Rewriting(t, u), ~BindUser(t), online'[u] # None
    PROVE  Rewriting(t, u)'
<1> USE DEF Inv, TypeOK
<1>1. CASE ThreadStep(t)
  <2>1. ASSUME NEW pc \in {"bind", "rollback"}, Goto(t, pc)
        PROVE  Rewriting(t, u)'
    BY <2>1 DEF Goto, Rewriting, Idle, Task
  <2>2. ~Rollback(t)
    BY DEF Rollback, RedisOutcomes, Rewriting
  <2>3. BindCheck(t) \/ BindRefused(t)
    BY <1>1, <2>2 DEF Rewriting, ThreadStep, LoginLookup, SetUserOnline, CloseOld,
        UnbindUser, SetUserOffline, RefreshCheck, RefreshUserOnline
  <2> QED
    BY <2>1, <2>3 DEF BindCheck, BindRefused
<1>2. CASE ~ThreadStep(t)
  <2>1. ~BeginTask(t)
    BY BusyTakesNoTask DEF Rewriting
  <2> QED
    BY <1>2, <2>1, OthersKeepTask DEF Rewriting
<1> QED
  BY <1>1, <1>2

SerialInv == Inv /\ KeyNamesSession /\ KeyNamesLogin

\* Every step keeps the key and the table in this relation.
LEMMA NextKeepsSerialInv ==
    ASSUME SerialInv, [Next]_vars, OneWorker, ~RedisMayFail
    PROVE  SerialInv'
<1> USE NoneAssumption
<1>1. KeyNamesLogin'
  <2> SUFFICES ASSUME NEW t \in Threads, task'[t].pc \in {"check", "bind"},
                      online'[task'[t].uid] # None
               PROVE  online'[task'[t].uid].sid = task'[t].sid
    BY DEF KeyNamesLogin
  <2>1. CASE task'[t] = task[t] /\ ~SetUserOnline(t)
    <3>1. task[t].uid \in Users
      BY <2>1, RunningTaskTyped DEF SerialInv, Inv
    <3>2. online[task[t].uid] # None /\ online'[task[t].uid].sid = online[task[t].uid].sid
      BY <2>1, <3>1, KeyWriters DEF SerialInv, OneWorker
    <3> QED
      BY <2>1, <3>2 DEF SerialInv, KeyNamesLogin
  <2>2. CASE SetUserOnline(t) /\ task'[t].uid = task[t].uid /\ task'[t].sid = task[t].sid
    <3>1. task[t].uid \in Users
      BY <2>2, RunningTaskTyped DEF SerialInv, Inv, SetUserOnline
    <3>2. online' = [online EXCEPT ![task[t].uid] = Key(task[t].sid)]
      BY <2>2 DEF SetUserOnline
    <3> QED
      BY <2>2, <3>1, <3>2 DEF SerialInv, Inv, TypeOK, Key
  <2>3. CASE BindCheck(t) /\ task'[t].uid = task[t].uid /\ task'[t].sid = task[t].sid
    BY <2>3 DEF SerialInv, KeyNamesLogin, BindCheck
  <2> QED
    BY <2>1, <2>2, <2>3, LoginArrives DEF SerialInv
<1>2. KeyNamesSession'
  <2> SUFFICES ASSUME NEW u \in Users, SessionOf(u)' # None, online'[u] # None
               PROVE  \/ online'[u].sid = SessionOf(u)'
                      \/ \E t \in Threads : Rewriting(t, u)'
    BY DEF KeyNamesSession
  <2>1. ASSUME NEW t \in Threads, BindUser(t), task[t].uid = u
        PROVE  online'[u].sid = SessionOf(u)'
    <3>1. users'[u] = task[t].sid
      BY <2>1 DEF SerialInv, Inv, TypeOK, TableTypeOK, BindUser, BindLocked
    <3>2. online'[u].sid = task[t].sid
      BY <2>1 DEF SerialInv, KeyNamesLogin, BindUser
    <3> QED
      BY <3>1, <3>2 DEF SessionOf
  <2>2. ASSUME NEW t \in Threads, SetUserOnline(t), task[t].uid = u
        PROVE  Rewriting(t, u)'
    BY <2>2 DEF SerialInv, Inv, TypeOK, SetUserOnline, Goto, Rewriting, Idle, Task
  <2>3. CASE ~ \E t \in Threads : (BindUser(t) \/ SetUserOnline(t)) /\ task[t].uid = u
    <3>1. SessionOf(u)' = SessionOf(u)
      BY <2>3, SessionFades DEF SerialInv
    <3>2. online[u] # None /\ online'[u].sid = online[u].sid
      BY <2>3, KeyWriters DEF SerialInv
    <3>3. ASSUME NEW t \in Threads, Rewriting(t, u)
          PROVE  Rewriting(t, u)'
      BY <2>3, <3>3, RewritingStays DEF SerialInv, Rewriting
    <3> QED
      BY <3>1, <3>2, <3>3 DEF SerialInv, KeyNamesSession
  <2> QED
    BY <2>1, <2>2, <2>3
<1> QED
  BY <1>1, <1>2, NextKeepsInv DEF SerialInv

\* With one business thread and a Redis that answers, a live session of a user
\* who has a key is the session the key names whenever no handler is running:
\* bindUser's order (SETEX, bind, DEL on failure) is right when it is not
\* interleaved, and the disagreement two workers can produce is due to the
\* missing lock alone.
THEOREM SerialKeysAgree ==
    ASSUME OneWorker, ~RedisMayFail
    PROVE  Spec => []QuiescentAgreement
<1>1. Init => SerialInv
  BY InitEstablishesInv, NoneAssumption
  DEF Init, SerialInv, KeyNamesSession, KeyNamesLogin, Idle, Task
<1>2. SerialInv /\ [Next]_vars => SerialInv'
  BY NextKeepsSerialInv
<1>3. SerialInv => QuiescentAgreement
  BY DEF SerialInv, KeyNamesSession, QuiescentAgreement, Rewriting, Idle, Task
<1> QED
  BY <1>1, <1>2, <1>3, PTL DEF Spec
=============================================================================
