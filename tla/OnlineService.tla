---------------------------- MODULE OnlineService ----------------------------
(***************************************************************************)
(* Login, logout, heartbeat and close cleanup as the business threads run  *)
(* them: OnlineService over SessionManager (the table, under a mutex) and  *)
(* the Redis key online:user:<id> (a TTL entry, written without any lock). *)
(*                                                                         *)
(* MessageRouter hands every request to a pool of business threads and     *)
(* serialises nothing, so two requests, even of one session, interleave    *)
(* between any two critical sections or Redis commands.  A thread's        *)
(* position in its handler is task[t]; each step below is the code from    *)
(* one such point to the next.                                             *)
(***************************************************************************)
EXTENDS SessionManager

CONSTANTS
    Threads,        \* workers of the business ThreadPool
    RedisMayFail,   \* a Redis command may return an error, applied or not
    PoolMayReject   \* the pool may refuse the close-cleanup task

ASSUME FaultAssumption == RedisMayFail \in BOOLEAN /\ PoolMayReject \in BOOLEAN

VARIABLES
    online,     \* Redis: user -> [sid, ttl], or None when there is no key
    task,       \* what each business thread is executing
    closing,    \* sessions with a queued Session::close on their I/O loop
    cleanup,    \* sessions whose unbindSession task waits in the pool
    displaced,  \* history: sessions kicked by a newer login, yet to close
    orphans     \* history: closed sessions no cleanup task will visit again

svcVars == <<online, task, closing, cleanup, displaced, orphans>>
vars == <<conn, users, sessions, svcVars>>

Steps == {"idle", "lookup", "setex", "check", "bind", "closeOld", "rollback",
          "unbind", "setOffline", "refresh", "expire"}

Task(pc, u, s) == [pc |-> pc, uid |-> u, sid |-> s]
Idle == Task("idle", None, None)

\* Variant: SET without an expiry in place of SETEX.
KeyWithoutTtl(s) == [sid |-> s, ttl |-> "persistent"]

Key(s) == [sid |-> s, ttl |-> "fresh"]

TypeOK ==
    /\ TableTypeOK
    /\ online \in [Users -> [sid : Sessions, ttl : {"fresh", "aged"}] \cup {None}]
    /\ task \in [Threads -> [pc  : Steps \ {"idle"}, uid : Users, sid : Sessions]
                            \cup {Idle}]
    /\ closing \subseteq Sessions
    /\ cleanup \subseteq Sessions
    /\ displaced \subseteq Sessions
    /\ orphans \subseteq Sessions

Init ==
    /\ TableInit
    /\ online = [u \in Users |-> None]
    /\ task = [t \in Threads |-> Idle]
    /\ closing = {} /\ cleanup = {} /\ displaced = {} /\ orphans = {}

Goto(t, pc) == task' = [task EXCEPT ![t].pc = pc]
Finish(t) == task' = [task EXCEPT ![t] = Idle]

\* A Redis command that answers with an error may or may not have been applied.
RedisOutcomes(value) == {value} \cup (IF RedisMayFail THEN {online} ELSE {})

-----------------------------------------------------------------------------
\* Connections.  A session closes at any time: end of stream, error, idle
\* timeout, output above the high water mark, or a queued close().

Connect(s) ==
    /\ conn[s] = "new"
    /\ conn' = [conn EXCEPT ![s] = "open"]
    /\ UNCHANGED <<users, sessions, svcVars>>

\* closeInLoop up to the callback: closed() is true from here on.
CloseInLoop(s) ==
    /\ conn[s] = "open"
    /\ conn' = [conn EXCEPT ![s] = "closing"]
    /\ closing' = closing \ {s}
    /\ displaced' = displaced \ {s}
    /\ UNCHANGED <<users, sessions, online, task, cleanup, orphans>>

\* The close callback submits unbindSession; a refusal is only logged.
CleanupSubmitted(s) ==
    /\ cleanup' = cleanup \cup {s}
    /\ UNCHANGED orphans

CleanupRejected(s) ==
    /\ PoolMayReject
    /\ orphans' = orphans \cup {s}
    /\ UNCHANGED cleanup

CloseCallback(s) ==
    /\ conn[s] = "closing"
    /\ conn' = [conn EXCEPT ![s] = "closed"]
    /\ CleanupSubmitted(s) \/ CleanupRejected(s)
    /\ UNCHANGED <<users, sessions, online, task, closing, displaced>>

-----------------------------------------------------------------------------
\* Login: handleLogin's call of OnlineService::bindUser.

\* The router skips the requests of a closed session, validateSession too.
BeginLogin(t, u, s) ==
    /\ task[t] = Idle
    /\ conn[s] = "open"
    /\ task' = [task EXCEPT ![t] = Task("lookup", u, s)]
    /\ UNCHANGED <<conn, users, sessions, online, closing, cleanup, displaced, orphans>>

LoginLookup(t) ==
    /\ task[t].pc = "lookup"
    /\ GetUserBySession(task[t].sid)
    /\ IF UserOf(task[t].sid) \in {None, task[t].uid} THEN Goto(t, "setex")
                                                       ELSE Finish(t)
    /\ UNCHANGED <<conn, online, closing, cleanup, displaced, orphans>>

\* SETEX.  On an error bindUser returns at once, and leaves the key as it is.
SetUserOnline(t) ==
    LET u == task[t].uid
        written == [online EXCEPT ![u] = Key(task[t].sid)]
    IN  /\ task[t].pc = "setex"
        /\ \/ online' = written /\ Goto(t, "check")
           \/ RedisMayFail /\ online' \in {online, written} /\ Finish(t)
        /\ UNCHANGED <<conn, users, sessions, closing, cleanup, displaced, orphans>>

\* SessionManager::bindUser tests closed() before it takes the mutex.
BindCheck(t) ==
    /\ task[t].pc = "check"
    /\ Goto(t, IF Closed(task[t].sid) THEN "rollback" ELSE "bind")
    /\ UNCHANGED <<conn, users, sessions, online, closing, cleanup, displaced, orphans>>

BindRefused(t) ==
    /\ task[t].pc = "bind"
    /\ BoundToAnother(task[t].uid, task[t].sid)
    /\ Goto(t, "rollback")
    /\ UNCHANGED <<conn, users, sessions, online, closing, cleanup, displaced, orphans>>

BindUser(t) ==
    LET u == task[t].uid
        s == task[t].sid
        old == users[u]
    IN  /\ task[t].pc = "bind"
        /\ BindLocked(u, s)
        /\ IF old \in {None, s}
           THEN Finish(t)
           ELSE task' = [task EXCEPT ![t] = Task("closeOld", u, old)]
        /\ displaced' = displaced \cup {x \in {old} \ {None, s} : ~Closed(x)}
        /\ orphans' = IF conn[s] = "closed" /\ s \notin cleanup
                      THEN orphans \cup {s} ELSE orphans
        /\ UNCHANGED <<conn, online, closing, cleanup>>

\* Variant: the displaced session is not closed.
CloseOldForgets(t) ==
    /\ task[t].pc = "closeOld"
    /\ Finish(t)
    /\ UNCHANGED <<conn, users, sessions, online, closing, cleanup, displaced, orphans>>

\* After the unlock: close() the displaced session unless it has closed itself.
CloseOld(t) ==
    /\ task[t].pc = "closeOld"
    /\ closing' = closing \cup {x \in {task[t].sid} : ~Closed(x)}
    /\ Finish(t)
    /\ UNCHANGED <<conn, users, sessions, online, cleanup, displaced, orphans>>

\* Variant: the Redis entry of a failed bind is left behind.
RollbackForgets(t) ==
    /\ task[t].pc = "rollback"
    /\ Finish(t)
    /\ UNCHANGED <<conn, users, sessions, online, closing, cleanup, displaced, orphans>>

\* A bind that failed takes its Redis entry back with an unconditional DEL.
Rollback(t) ==
    /\ task[t].pc = "rollback"
    /\ online' \in RedisOutcomes([online EXCEPT ![task[t].uid] = None])
    /\ Finish(t)
    /\ UNCHANGED <<conn, users, sessions, closing, cleanup, displaced, orphans>>

-----------------------------------------------------------------------------
\* unbindSession, from the logout handler and from the close cleanup.

\* Variant: unbindSession asks getUserBySession, which hides closed sessions.
UnbindLiveSession(t, s) ==
    task' = [task EXCEPT ![t] = IF UserOf(s) = None THEN Idle
                                ELSE Task("unbind", UserOf(s), s)]

UnbindSession(t, s) ==
    task' = [task EXCEPT ![t] = IF GetBoundUserBySession(s) = None THEN Idle
                                ELSE Task("unbind", GetBoundUserBySession(s), s)]

BeginLogout(t, s) ==
    /\ task[t] = Idle
    /\ conn[s] = "open"
    /\ UnbindSession(t, s)
    /\ UNCHANGED <<conn, users, sessions, online, closing, cleanup, displaced, orphans>>

BeginCleanup(t, s) ==
    /\ task[t] = Idle
    /\ s \in cleanup
    /\ cleanup' = cleanup \ {s}
    /\ UnbindSession(t, s)
    /\ UNCHANGED <<conn, users, sessions, online, closing, displaced, orphans>>

UnbindUser(t) ==
    /\ task[t].pc = "unbind"
    /\ UnbindLocked(task[t].uid, task[t].sid)
    /\ IF UnbindMatches(task[t].uid, task[t].sid) THEN Goto(t, "setOffline")
                                                   ELSE Finish(t)
    /\ UNCHANGED <<conn, online, closing, cleanup, displaced, orphans>>

\* DEL, after the table's mutex has been released.
SetUserOffline(t) ==
    /\ task[t].pc = "setOffline"
    /\ online' \in RedisOutcomes([online EXCEPT ![task[t].uid] = None])
    /\ Finish(t)
    /\ UNCHANGED <<conn, users, sessions, closing, cleanup, displaced, orphans>>

-----------------------------------------------------------------------------
\* Heartbeat: find the user of the session, check it again, renew the TTL.

BeginHeartbeat(t, s) ==
    /\ task[t] = Idle
    /\ conn[s] = "open"
    /\ UserOf(s) # None
    /\ task' = [task EXCEPT ![t] = Task("refresh", UserOf(s), s)]
    /\ UNCHANGED <<conn, users, sessions, online, closing, cleanup, displaced, orphans>>

RefreshCheck(t) ==
    /\ task[t].pc = "refresh"
    /\ GetUserBySession(task[t].sid)
    /\ IF UserOf(task[t].sid) = task[t].uid THEN Goto(t, "expire") ELSE Finish(t)
    /\ UNCHANGED <<conn, online, closing, cleanup, displaced, orphans>>

\* EXPIRE renews a key that exists and never creates one.
RefreshUserOnline(t) ==
    LET u == task[t].uid
    IN  /\ task[t].pc = "expire"
        /\ online' \in RedisOutcomes(IF online[u] = None THEN online
                                     ELSE [online EXCEPT ![u].ttl = "fresh"])
        /\ Finish(t)
        /\ UNCHANGED <<conn, users, sessions, closing, cleanup, displaced, orphans>>

-----------------------------------------------------------------------------
\* The lookups other handlers make; both may erase the binding of a dead
\* session, and neither touches Redis.

LookupSession(u) ==
    /\ GetSessionByUser(u)
    /\ UNCHANGED <<conn, svcVars>>

LookupUser(s) ==
    /\ conn[s] # "new"
    /\ GetUserBySession(s)
    /\ UNCHANGED <<conn, svcVars>>

\* Redis: the TTL of a key runs down, then the key is gone.
Age(u) ==
    /\ online[u] # None
    /\ online[u].ttl = "fresh"
    /\ online' = [online EXCEPT ![u].ttl = "aged"]
    /\ UNCHANGED <<conn, users, sessions, task, closing, cleanup, displaced, orphans>>

Expire(u) ==
    /\ online[u] # None
    /\ online[u].ttl = "aged"
    /\ online' = [online EXCEPT ![u] = None]
    /\ UNCHANGED <<conn, users, sessions, task, closing, cleanup, displaced, orphans>>

-----------------------------------------------------------------------------
ThreadStep(t) ==
    \/ LoginLookup(t) \/ SetUserOnline(t) \/ BindCheck(t) \/ BindRefused(t)
    \/ BindUser(t) \/ CloseOld(t) \/ Rollback(t)
    \/ UnbindUser(t) \/ SetUserOffline(t)
    \/ RefreshCheck(t) \/ RefreshUserOnline(t)

BeginTask(t) ==
    \E s \in Sessions :
        \/ \E u \in Users : BeginLogin(t, u, s)
        \/ BeginLogout(t, s)
        \/ BeginHeartbeat(t, s)
        \/ BeginCleanup(t, s)

Next ==
    \/ \E t \in Threads : BeginTask(t) \/ ThreadStep(t)
    \/ \E s \in Sessions : \/ Connect(s) \/ CloseInLoop(s) \/ CloseCallback(s)
                            \/ LookupUser(s)
    \/ \E u \in Users : LookupSession(u) \/ Age(u) \/ Expire(u)

Spec == Init /\ [][Next]_vars

\* A worker finishes the handler it started; an I/O loop runs the closes queued
\* on it and finishes a closeInLoop; the pool's queue is FIFO, so a cleanup task
\* in it is taken however many requests compete with it; Redis time passes.
\* Clients are free: no request, connect or disconnect is ever owed.
Fairness ==
    /\ \A t \in Threads : WF_vars(ThreadStep(t))
    /\ \A s \in Sessions :
        /\ WF_vars(s \in closing /\ CloseInLoop(s))
        /\ WF_vars(CloseCallback(s))
        /\ SF_vars(\E t \in Threads : BeginCleanup(t, s))
    /\ \A u \in Users : WF_vars(Age(u)) /\ WF_vars(Expire(u))

FairSpec == Spec /\ Fairness

-----------------------------------------------------------------------------
\* A session that is bound stays with its user until it is unbound: concurrent
\* logins of one session for two users both pass the early lookup of
\* OnlineService::bindUser, and only the test under the mutex keeps them apart.
SessionNeverChangesUser ==
    [][\A s \in Sessions :
          sessions[s] # None /\ sessions'[s] # None => sessions'[s] = sessions[s]]_vars

\* A user loses the binding to an open session only to a newer login of the same
\* user, which condemns that session in the same critical section, or to an
\* unbind issued for exactly this user and session: a late unbind of an old
\* session never removes the binding of the new one.
BindingLossJustified ==
    [][\A u \in Users :
          LET s == users[u]
          IN  s # None /\ conn[s] = "open" /\ users'[u] # s
              => \E t \in Threads :
                    \/ task[t] = Task("unbind", u, s)
                    \/ /\ task[t] = Task("bind", u, users'[u])
                       /\ s \in displaced']_vars

\* The close of a displaced session is never forgotten between the unlock in
\* bindUser and the I/O loop: until it closes, either its thread is about to
\* call close() or the close is queued on its loop.
KickIsNeverLost ==
    \A s \in displaced :
        /\ conn[s] = "open"
        /\ \/ s \in closing
           \/ \E t \in Threads : task[t].pc = "closeOld" /\ task[t].sid = s

\* A binding of a closed session always has someone on the way to remove it,
\* unless its cleanup was refused by the pool or has already run (a bind that
\* tested closed() before the close and took the mutex after the cleanup).
DeadBindingHasOwner ==
    \A s \in Sessions :
        conn[s] = "closed" /\ sessions[s] # None
        => \/ s \in cleanup \cup orphans
           \/ \E t \in Threads : task[t] = Task("unbind", sessions[s], s)

\* Such a binding does go away.
DeadBindingCleaned ==
    \A s \in Sessions :
        (Closed(s) /\ sessions[s] # None) ~> (sessions[s] = None \/ s \in orphans)

LoginInProgress(u) ==
    \E t \in Threads : task[t].uid = u
                       /\ task[t].pc \in {"lookup", "setex", "check", "bind", "rollback"}

\* A user who stays without a live session ends up offline in Redis, whatever
\* DEL failed, cleanup was refused or heartbeat was still under way: SETEX
\* always sets a TTL and only a bound, open session starts a refresh.
UserGoneKeyExpires ==
    \A u \in Users :
        <>[](SessionOf(u) = None /\ ~LoginInProgress(u)) => <>[](online[u] = None)

\* When no handler is running, the Redis key of a user with a live session, if
\* there is one, names that session.
QuiescentAgreement ==
    (\A t \in Threads : task[t] = Idle)
    => \A u \in Users : SessionOf(u) # None /\ online[u] # None
                        => online[u].sid = SessionOf(u)

\* The DEL of an unbind of (u, s) removes no key that another session wrote.
DelayedUnbindKeepsNewKey ==
    [][\A t \in Threads :
          LET u == task[t].uid
          IN  task[t].pc = "setOffline" /\ online[u] # None /\ online'[u] = None
              /\ task'[t] = Idle
              => online[u].sid = task[t].sid]_vars

-----------------------------------------------------------------------------
\* The login path implements the registry it promises: an instant at which the
\* newest login wins and the displaced session is condemned to close.
Life == [s \in Sessions |-> IF Closed(s) THEN "closed" ELSE conn[s]]

Registry == INSTANCE LoginRegistry
                WITH life <- Life, owner <- users, kicked <- displaced

\* Every behaviour of the threads, closes and lookups is one of LoginRegistry,
\* including its promise that a kicked session closes.
ImplementsRegistry == Registry!Spec
=============================================================================
