---------------------------- MODULE ConnectionPool ----------------------------
(***************************************************************************)
(* MySqlPool and RedisPool, which are the same code over two kinds of      *)
(* connection: a deque of idle connections under a mutex, a condition      *)
(* variable with a timeout, a check of the connection outside the mutex,   *)
(* and close() at any time.  The transaction that a DAO opens on a MySQL   *)
(* connection is part of the connection's state, because the connection    *)
(* goes back to the pool with it when nobody ends it.                      *)
(***************************************************************************)
EXTENDS Business, FiniteSets, Sequences, Functions

CONSTANT Conns   \* the connections of the pool, pool_size of them

ASSUME PoolSizeAssumption ==
    /\ Conns # {} /\ None \notin Conns
    /\ IsFiniteSet(Conns) /\ IsFiniteSet(Threads)

VARIABLES
    opened,    \* "new", "started", "closing" (closed_ is set), or "closed"
    idle,      \* idle_connections, a FIFO
    link,      \* connection -> "closed", "up", or "broken" (not yet noticed)
    openTxn,   \* connections with a transaction open on the server
    user,      \* where each thread is
    conn,      \* the connection a thread holds, or None
    closing,   \* connections close() has taken, to be closed outside the mutex
    refused    \* history: connections whose last transaction had its COMMIT refused

connVars == <<opened, idle, link, openTxn, user, conn, closing, refused>>

UserStates == {"out", "waiting", "woken", "check", "recheck", "using", "txn",
               "release", "notify"}

ConnTypeOK ==
    /\ opened \in {"new", "started", "closing", "closed"}
    /\ idle \in Seq(Conns)
    /\ link \in [Conns -> {"closed", "up", "broken"}]
    /\ openTxn \subseteq Conns
    /\ user \in [Threads -> UserStates]
    /\ conn \in [Threads -> Conns \cup {None}]
    /\ closing \subseteq Conns
    /\ refused \subseteq Conns

ConnInit ==
    /\ opened = "new"
    /\ idle = <<>>
    /\ link = [c \in Conns |-> "closed"]
    /\ openTxn = {}
    /\ user = [t \in Threads |-> "out"]
    /\ conn = [t \in Threads |-> None]
    /\ closing = {}
    /\ refused = {}

Enter(t, state) == user' = [user EXCEPT ![t] = state]
IsClosed == opened \in {"closing", "closed"}
Wake == {t \in Threads : user[t] = "waiting"}

-----------------------------------------------------------------------------
\* The order in which start() opens the connections.
StartOrder == CHOOSE s \in Injection(1..Cardinality(Conns), Conns) : TRUE

\* Every connection is opened, or the pool stays as it is.
StartPool ==
    /\ opened = "new"
    /\ opened' = "started"
    /\ idle' = StartOrder
    /\ link' = [c \in Conns |-> "up"]
    /\ UNCHANGED <<openTxn, user, conn, closing, refused>>

\* The front of the idle queue, once there is one.
TakeIdle(t) ==
    /\ opened = "started"
    /\ idle # <<>>
    /\ idle' = Tail(idle)
    /\ conn' = [conn EXCEPT ![t] = Head(idle)]
    /\ Enter(t, "check")
    /\ UNCHANGED <<opened, link, openTxn, closing, refused>>

\* acquire() on a pool that is not started, or closed, fails at once.
Acquire(t) ==
    /\ user[t] = "out"
    /\ opened = "started"
    /\ \/ TakeIdle(t)
       \/ idle = <<>> /\ Enter(t, "waiting") /\ UNCHANGED <<opened, idle, link, openTxn, conn, closing, refused>>

\* A waiter that was notified tests the predicate again, under the mutex.
Retest(t) ==
    /\ user[t] = "woken"
    /\ \/ TakeIdle(t)
       \/ /\ IsClosed \/ idle = <<>>
          /\ Enter(t, IF IsClosed THEN "out" ELSE "waiting")
          /\ UNCHANGED <<opened, idle, link, openTxn, conn, closing, refused>>

\* The timeout: wait_for tests the predicate once more, so that a connection
\* which came back at the last moment is still taken.
TimeUp(t) ==
    /\ user[t] \in {"waiting", "woken"}
    /\ \/ TakeIdle(t)
       \/ /\ IsClosed \/ idle = <<>>
          /\ Enter(t, "out")
          /\ UNCHANGED <<opened, idle, link, openTxn, conn, closing, refused>>

\* ensureConnectionReady, without the mutex: a ping, or a new connection, which
\* may fail.
CheckLink(t) ==
    LET c == conn[t]
    IN  /\ user[t] = "check"
        /\ \/ link[c] = "up" /\ Enter(t, "recheck") /\ UNCHANGED link
           \/ link[c] # "up" /\ link' = [link EXCEPT ![c] = "up"] /\ Enter(t, "recheck")
           \/ link[c] # "up" /\ link' = [link EXCEPT ![c] = "closed"] /\ Enter(t, "release")
        /\ UNCHANGED <<opened, idle, openTxn, conn, closing, refused>>

\* Variant: when the pool was closed during the check the connection is dropped
\* without being closed.
HandOutAnyway(t) ==
    /\ user[t] = "recheck"
    /\ IF IsClosed
       THEN Enter(t, "out") /\ conn' = [conn EXCEPT ![t] = None]
       ELSE Enter(t, "using") /\ UNCHANGED conn
    /\ UNCHANGED <<opened, idle, link, openTxn, closing, refused>>

\* The pool may have been closed during the check: then the connection is
\* closed, otherwise the guard gets it.
HandOut(t) ==
    /\ user[t] = "recheck"
    /\ IF IsClosed
       THEN /\ link' = [link EXCEPT ![conn[t]] = "closed"]
            /\ openTxn' = openTxn \ {conn[t]}
            /\ conn' = [conn EXCEPT ![t] = None]
            /\ Enter(t, "out")
       ELSE Enter(t, "using") /\ UNCHANGED <<link, openTxn, conn>>
    /\ UNCHANGED <<opened, idle, closing, refused>>

-----------------------------------------------------------------------------
\* What a DAO does with the connection: single statements, or a transaction.

\* START TRANSACTION.  It commits a transaction that is still open.
BeginTxn(t) ==
    /\ user[t] = "using"
    /\ link[conn[t]] = "up"
    /\ openTxn' = openTxn \cup {conn[t]}
    /\ refused' = refused \ {conn[t]}
    /\ Enter(t, "txn")
    /\ UNCHANGED <<opened, idle, link, conn, closing>>

\* Variant: an error path returns without the rollback.
EndTxnForgets(t) ==
    /\ user[t] = "txn"
    /\ openTxn' \in {openTxn, openTxn \ {conn[t]}}
    /\ Enter(t, "release")
    /\ UNCHANGED <<opened, idle, link, conn, closing, refused>>

\* COMMIT, or ROLLBACK after an error of any statement before it.  On a
\* connection that broke, both fail unnoticed: the server has ended the
\* transaction by itself.
EndTxn(t) ==
    /\ user[t] = "txn"
    /\ openTxn' = openTxn \ {conn[t]}
    /\ Enter(t, "release")
    /\ UNCHANGED <<opened, idle, link, conn, closing, refused>>

\* COMMIT answers with an error on a connection that lives on.  The DAO returns
\* the error without a ROLLBACK, and the transaction stays open.
CommitRefused(t) ==
    /\ StorageMayFail
    /\ user[t] = "txn"
    /\ link[conn[t]] = "up"
    /\ refused' = refused \cup {conn[t]}
    /\ Enter(t, "release")
    /\ UNCHANGED <<opened, idle, link, openTxn, conn, closing>>

\* The guard goes out of scope, after single statements or none.  Statements on
\* a connection with a transaction open become part of it.
FinishUse(t) ==
    /\ user[t] = "using"
    /\ Enter(t, "release")
    /\ UNCHANGED <<opened, idle, link, openTxn, conn, closing, refused>>

\* The network or the server drops the connection, and with it its transaction.
LinkBreaks(c) ==
    /\ StorageMayFail
    /\ link[c] = "up"
    /\ link' = [link EXCEPT ![c] = "broken"]
    /\ openTxn' = openTxn \ {c}
    /\ UNCHANGED <<opened, idle, user, conn, closing, refused>>

\* releaseConnection: back to the queue, or closed when the pool is closed.
Release(t) ==
    /\ user[t] = "release"
    /\ conn' = [conn EXCEPT ![t] = None]
    /\ IF opened = "started"
       THEN idle' = Append(idle, conn[t]) /\ Enter(t, "notify") /\ UNCHANGED <<link, openTxn>>
       ELSE /\ link' = [link EXCEPT ![conn[t]] = "closed"]
            /\ openTxn' = openTxn \ {conn[t]}
            /\ Enter(t, "out")
            /\ UNCHANGED idle
    /\ UNCHANGED <<opened, closing, refused>>

\* Variant: the connection is back, and no waiter is told.
NotifyNobody(t) ==
    /\ user[t] = "notify"
    /\ Enter(t, "out")
    /\ UNCHANGED <<opened, idle, link, openTxn, conn, closing, refused>>

\* notify_one, after the unlock.
NotifyWaiter(t) ==
    /\ user[t] = "notify"
    /\ \/ \E w \in Wake : user' = [user EXCEPT ![t] = "out", ![w] = "woken"]
       \/ Wake = {} /\ Enter(t, "out")
    /\ UNCHANGED <<opened, idle, link, openTxn, conn, closing, refused>>

\* close(): under the mutex the idle connections are taken out ...
ClosePool ==
    /\ ~IsClosed
    /\ opened' = "closing"
    /\ closing' = Range(idle)
    /\ idle' = <<>>
    /\ UNCHANGED <<link, openTxn, user, conn, refused>>

\* ... and after the unlock they are closed and every waiter is woken.
CloseIdle ==
    /\ opened = "closing"
    /\ opened' = "closed"
    /\ link' = [c \in Conns |-> IF c \in closing THEN "closed" ELSE link[c]]
    /\ openTxn' = openTxn \ closing
    /\ closing' = {}
    /\ user' = [t \in Threads |-> IF t \in Wake THEN "woken" ELSE user[t]]
    /\ UNCHANGED <<idle, conn, refused>>

-----------------------------------------------------------------------------
UserStep(t) ==
    \/ Acquire(t) \/ Retest(t) \/ TimeUp(t) \/ CheckLink(t) \/ HandOut(t)
    \/ BeginTxn(t) \/ EndTxn(t) \/ CommitRefused(t) \/ FinishUse(t)
    \/ Release(t) \/ NotifyWaiter(t)

ConnNext ==
    \/ StartPool \/ ClosePool \/ CloseIdle
    \/ \E t \in Threads : UserStep(t)
    \/ \E c \in Conns : LinkBreaks(c)

ConnSpec == ConnInit /\ [][ConnNext]_connVars

-----------------------------------------------------------------------------
Held == {conn[t] : t \in Threads} \ {None}

\* No connection is used by two threads, queued twice or lost: while the pool
\* is open each is in the queue or with one thread, and what close() finds idle
\* or a thread brings back later is disconnected, also when close() ran between
\* the unlock and the second test of acquire().
ConnectionsAccountedFor ==
    /\ \A t, w \in Threads : t # w /\ conn[t] # None => conn[t] # conn[w]
    /\ IsInjective(idle)
    /\ Range(idle) \cap Held = {}
    /\ opened = "started" => Conns = Range(idle) \cup Held
    /\ IsClosed => \A c \in Conns : link[c] # "closed" => c \in Held \cup closing

\* No thread sleeps beside an idle connection: as long as one waits and one is
\* idle, somebody is about to notify or has been woken, whichever timeouts,
\* releases and threads that came late ran in between.  When close() has
\* returned, nobody waits at all.
NoLostWakeup ==
    Wake # {} => /\ idle # <<>> => \E t \in Threads : user[t] \in {"notify", "woken"}
                 /\ opened # "closed"

\* A handler that failed before its COMMIT leaves nothing behind: what a guard
\* hands out is connected, and carries no transaction that the next handler
\* would commit or hold locked, except one whose COMMIT was refused.
OnlyRefusedIsInherited ==
    \A t \in Threads :
        user[t] = "using" => /\ link[conn[t]] # "closed"
                             /\ conn[t] \in openTxn => conn[t] \in refused

\* A connection comes from the pool without any transaction: whichever step of
\* a transaction failed, it was rolled back.
NoInheritedTransaction ==
    \A t \in Threads : user[t] = "using" => conn[t] \notin openTxn
=============================================================================
