-------------------------------- MODULE Reactor --------------------------------
(***************************************************************************)
(* The server's threads around the business logic: the base loop in main,  *)
(* the I/O loops with their task queues, the sessions each of them owns,   *)
(* and main's shutdown: TcpServer::stop, ThreadPool::stop, then the Redis  *)
(* and MySQL pools.                                                        *)
(*                                                                         *)
(* An I/O loop runs doPendingTasks, tests quit_, polls, dispatches, runs   *)
(* doPendingTasks and tests quit_ again.  The EventLoop lives on the stack *)
(* of its thread: when the loop is left, what is still queued is dropped.  *)
(* The business pool is taken by what ThreadPool guarantees: it accepts a  *)
(* bounded number of jobs, runs each, and stop() returns once they are     *)
(* done.  epoll_wait interrupted by a signal is not modelled: the signals  *)
(* are blocked and read from a signalfd.                                   *)
(***************************************************************************)
EXTENDS Naturals, Sequences, FiniteSets

CONSTANTS
    LoopCount,     \* config.io_threads
    MaxSessions,   \* bound: connections accepted
    MaxRequests,   \* bound: requests read
    MaxJobs        \* config.business_queue_capacity

ASSUME ReactorAssumption ==
    /\ LoopCount \in Nat \ {0}
    /\ MaxSessions \in Nat /\ MaxRequests \in Nat /\ MaxJobs \in Nat

VARIABLES
    up,         \* TcpServer::started_
    accepts,    \* connections accepted so far, the source of session ids
    table,      \* TcpServer::sessions_
    session,    \* the state of each session
    loop,       \* per I/O loop: where its thread is, and its queues and flags
    main,       \* where the main thread is
    swept,      \* sessions stopInLoop has still to close
    stopping,   \* the I/O thread io_threads_.stop() has reached
    jobs,       \* accepted by the business pool and not finished, as a set:
                \* equal requests of one session count once
    poolUp,     \* the business pool accepts jobs
    redisUp,    \* the Redis and MySQL pools are open
    requests,   \* counts the requests read
    expired,    \* history: open sessions the idle sweep has asked to close
    missed      \* history: sessions whose cleanup ran with Redis closed

serverVars == <<up, accepts, table, session, main, swept, stopping, jobs, poolUp,
                redisUp, requests, expired, missed>>
reactorVars == <<loop, serverVars>>

Loops == 1..LoopCount
Sessions == 1..MaxSessions
SessionStates == {"none", "accepted", "creating", "open", "closed", "refused"}
LoopTasks == [op : {"create", "close", "send"}, s : Sessions]
Jobs == [op : {"cleanup", "request", "reply", "kick"}, s : Sessions]

\* getNextLoop: round robin over the I/O loops.
Home(s) == ((s - 1) % LoopCount) + 1
Closed(s) == session[s] = "closed"

ReactorInit ==
    /\ up = TRUE /\ accepts = 0 /\ table = {}
    /\ session = [s \in Sessions |-> "none"]
    /\ loop = [l \in Loops |-> [at |-> "batch", pending |-> <<>>, batch |-> <<>>,
                                polled |-> FALSE, woken |-> FALSE, quit |-> FALSE]]
    /\ main = "serving" /\ swept = {} /\ stopping = 1
    /\ jobs = {} /\ poolUp = TRUE /\ redisUp = TRUE /\ requests = 0
    /\ expired = {} /\ missed = {}

SetSession(s, state) == session' = [session EXCEPT ![s] = state]
MainGoes(place) == main' = place

-----------------------------------------------------------------------------
\* Variant: a loop that is about to poll is not woken.
QueueInLoopUnwoken(l, task) ==
    loop' = [loop EXCEPT ![l].pending = Append(@, task), ![l].woken = @ \/ loop[l].at = "batch"]

\* queueInLoop by another thread: push the task, then write the eventfd.
QueueInLoop(l, task) ==
    loop' = [loop EXCEPT ![l].pending = Append(@, task), ![l].woken = TRUE]

\* submit() refuses a job when the pool is stopped or its queue is full.
Accepts(job) == poolUp /\ Cardinality(jobs) < MaxJobs

\* The close callback of main: remove the session from the table, and submit
\* the cleanup; a refused cleanup is only logged.
OnClose(s) ==
    LET cleanup == [op |-> "cleanup", s |-> s]
    IN  /\ table' = table \ {s}
        /\ jobs' = IF Accepts(cleanup) THEN jobs \cup {cleanup} ELSE jobs
        /\ expired' = expired \ {s}

\* closeInLoop on the session's own loop.  Its channel and the task that
\* resets it are in SessionOutput.
CloseInLoop(s) ==
    /\ SetSession(s, "closed")
    /\ OnClose(s)

-----------------------------------------------------------------------------
\* The I/O thread.  doPendingTasks takes the whole queue at once.
Swapped(l) == [loop[l] EXCEPT !.at = "batch", !.batch = loop[l].pending, !.pending = <<>>]

Task(l) == Head(loop[l].batch)
TaskDone(l) == [loop[l] EXCEPT !.batch = Tail(@)]
AtTask(l, op) == loop[l].at = "batch" /\ loop[l].batch # <<>> /\ Task(l).op = op

\* createSessionInLoop, up to its test of started_.
CreateSession(l) ==
    /\ AtTask(l, "create") /\ session[Task(l).s] = "accepted"
    /\ \/ /\ up
          /\ SetSession(Task(l).s, "creating")
          /\ UNCHANGED loop
       \/ /\ ~up
          /\ SetSession(Task(l).s, "refused")
          /\ loop' = [loop EXCEPT ![l] = TaskDone(l)]
    /\ UNCHANGED <<up, accepts, table, main, swept, stopping, jobs, poolUp, redisUp, requests,
                   expired, missed>>

\* The rest of createSessionInLoop: enter the table and start reading.
PublishSession(l) ==
    /\ AtTask(l, "create") /\ session[Task(l).s] = "creating"
    /\ table' = table \cup {Task(l).s}
    /\ SetSession(Task(l).s, "open")
    /\ loop' = [loop EXCEPT ![l] = TaskDone(l)]
    /\ UNCHANGED <<up, accepts, main, swept, stopping, jobs, poolUp, redisUp, requests, expired,
                   missed>>

\* A queued close, or a queued send, whose output may pass the high water
\* mark and close the session; nothing happens to a session already closed.
CloseOrSend(l) ==
    /\ AtTask(l, "close") \/ AtTask(l, "send")
    /\ \/ /\ session[Task(l).s] = "open"
          /\ CloseInLoop(Task(l).s)
       \/ /\ session[Task(l).s] = "open" => Task(l).op = "send"
          /\ UNCHANGED <<session, table, jobs, expired>>
    /\ loop' = [loop EXCEPT ![l] = TaskDone(l)]
    /\ UNCHANGED <<up, accepts, main, swept, stopping, poolUp, redisUp, requests, missed>>

\* The test of quit_ after doPendingTasks.  Leaving loop() ends the thread,
\* which destroys the queue and closes the descriptors held in it.  Otherwise
\* the second test of a round is followed by the first doPendingTasks of the
\* next one, and the first test by the poll.
TestQuit(l) ==
    /\ loop[l].at = "batch" /\ loop[l].batch = <<>>
    /\ \/ /\ loop[l].quit
          /\ loop' = [loop EXCEPT ![l].at = "gone", ![l].pending = <<>>]
          /\ session' = [s \in Sessions |-> IF session[s] = "accepted" /\ Home(s) = l
                                              THEN "refused" ELSE session[s]]
       \/ /\ ~loop[l].quit /\ loop[l].polled
          /\ loop' = [loop EXCEPT ![l] = [Swapped(l) EXCEPT !.polled = FALSE]]
          /\ UNCHANGED session
       \/ /\ ~loop[l].quit /\ ~loop[l].polled
          /\ loop' = [loop EXCEPT ![l].at = "poll"]
          /\ UNCHANGED session
    /\ UNCHANGED <<up, accepts, table, main, swept, stopping, jobs, poolUp, redisUp, requests,
                   expired, missed>>

\* epoll_wait returns the eventfd, some connections, or both.
Poll(l) ==
    /\ loop[l].at = "poll"
    /\ loop[l].woken \/ \E s \in Sessions : session[s] = "open" /\ Home(s) = l
    /\ loop' = [loop EXCEPT ![l].at = "events", ![l].polled = TRUE, ![l].woken = FALSE]
    /\ UNCHANGED serverVars

\* handleEvent of the channels.  handleRead passes each request it has read to
\* the pool (when the pool refuses it, the error is answered right here); end
\* of file or an error closes the session.
Dispatch(l) ==
    /\ loop[l].at = "events"
    /\ \E s \in Sessions :
          LET request == [op |-> "request", s |-> s]
          IN  /\ session[s] = "open" /\ Home(s) = l
              /\ \/ /\ requests < MaxRequests
                    /\ requests' = requests + 1
                    /\ jobs' = IF Accepts(request) THEN jobs \cup {request} ELSE jobs
                    /\ UNCHANGED <<session, table, expired>>
                 \/ CloseInLoop(s) /\ UNCHANGED requests
    /\ UNCHANGED <<loop, up, accepts, main, swept, stopping, poolUp, redisUp, missed>>

EventsDone(l) ==
    /\ loop[l].at = "events"
    /\ loop' = [loop EXCEPT ![l] = Swapped(l)]
    /\ UNCHANGED serverVars

-----------------------------------------------------------------------------
\* The business threads.  unbindSession, run with or without Redis.
RunCleanup(job) ==
    /\ job.op = "cleanup"
    /\ jobs' = jobs \ {job}
    /\ missed' = IF redisUp THEN missed ELSE missed \cup {job.s}
    /\ UNCHANGED <<loop, up, accepts, table, session, main, swept, stopping, poolUp, redisUp,
                   requests, expired>>

\* A handler is done with storage: it answers unless the session is closed,
\* which sendPacket tests first, or displaces another session of the user.
RunHandler(job) ==
    /\ job.op = "request"
    /\ \/ jobs' = (jobs \ {job}) \cup {[op |-> "reply", s |-> t] : t \in {job.s} \ {s \in Sessions : Closed(s)}}
       \/ \E s \in Sessions \ {job.s} :
             /\ session[s] \in {"open", "closed"}
             /\ jobs' = (jobs \ {job}) \cup {[op |-> "kick", s |-> s]}
    /\ UNCHANGED <<loop, up, accepts, table, session, main, swept, stopping, poolUp, redisUp,
                   requests, expired, missed>>

\* The answer or the close is queued on the session's loop.  A loop whose
\* thread has ended is freed memory: the call does nothing or kills the process.
PostToLoop(job) ==
    /\ job.op \in {"reply", "kick"}
    /\ jobs' = jobs \ {job}
    /\ \/ /\ loop[Home(job.s)].at # "gone"
          /\ QueueInLoop(Home(job.s), [op |-> IF job.op = "reply" THEN "send" ELSE "close", s |-> job.s])
          /\ UNCHANGED main
       \/ /\ loop[Home(job.s)].at = "gone"
          /\ UNCHANGED loop
          /\ UNCHANGED main \/ MainGoes("crashed")
    /\ UNCHANGED <<up, accepts, table, session, swept, stopping, poolUp, redisUp, requests,
                   expired, missed>>

-----------------------------------------------------------------------------
\* The main thread.  handleNewConnection hands the descriptor to a loop.
HandleNewConnection ==
    /\ main = "serving" /\ accepts < MaxSessions
    /\ accepts' = accepts + 1
    /\ SetSession(accepts', "accepted")
    /\ QueueInLoop(Home(accepts'), [op |-> "create", s |-> accepts'])
    /\ UNCHANGED <<up, table, main, swept, stopping, jobs, poolUp, redisUp, requests, expired,
                   missed>>

\* closeIdleSessions finds a session idle and asks its loop to close it.
CloseIdleSession(s) ==
    /\ main = "serving" /\ s \in table \ expired /\ ~Closed(s)
    /\ expired' = expired \cup {s}
    /\ QueueInLoop(Home(s), [op |-> "close", s |-> s])
    /\ UNCHANGED <<up, accepts, table, session, main, swept, stopping, jobs, poolUp, redisUp,
                   requests, missed>>

\* The signal callback quits the base loop; stopInLoop clears started_ and
\* closes the acceptor and the heartbeat timer.
ReceiveSignal ==
    /\ main = "serving"
    /\ MainGoes("stopping") /\ up' = FALSE /\ expired' = {}
    /\ UNCHANGED <<loop, accepts, table, session, swept, stopping, jobs, poolUp, redisUp, requests,
                   missed>>

\* stopInLoop copies and clears the table under its mutex.
SweepTable ==
    /\ main = "stopping"
    /\ MainGoes("closing") /\ swept' = table /\ table' = {}
    /\ UNCHANGED <<loop, up, accepts, session, stopping, jobs, poolUp, redisUp, requests, expired,
                   missed>>

CloseSwept ==
    /\ main = "closing"
    /\ \E s \in swept :
          /\ swept' = swept \ {s}
          /\ QueueInLoop(Home(s), [op |-> "close", s |-> s])
    /\ UNCHANGED <<up, accepts, table, session, main, stopping, jobs, poolUp, redisUp, requests,
                   expired, missed>>

\* Variant: the flag is set and the loop is not woken.
QuitLoopUnwoken(l) ==
    /\ main = "closing" /\ swept = {} /\ stopping = l /\ ~loop[l].quit
    /\ loop' = [loop EXCEPT ![l].quit = TRUE]
    /\ UNCHANGED serverVars

\* EventLoopThread::stop: quit the loop and wake it, then join the thread;
\* one thread after the other.
QuitLoop(l) ==
    /\ main = "closing" /\ swept = {} /\ stopping = l /\ ~loop[l].quit
    /\ loop' = [loop EXCEPT ![l].quit = TRUE, ![l].woken = TRUE]
    /\ UNCHANGED serverVars

JoinLoop(l) ==
    /\ main = "closing" /\ stopping = l /\ loop[l].at = "gone"
    /\ stopping' = stopping + 1
    /\ UNCHANGED <<loop, up, accepts, table, session, main, swept, jobs, poolUp, redisUp, requests,
                   expired, missed>>

\* business_pool.stop() refuses new jobs and waits for the accepted ones.
StopPool ==
    /\ main = "closing" /\ stopping = LoopCount + 1
    /\ MainGoes("draining") /\ poolUp' = FALSE
    /\ UNCHANGED <<loop, up, accepts, table, session, swept, stopping, jobs, redisUp, requests,
                   expired, missed>>

\* Variant: the stores are closed while the pool still has jobs.
CloseStoresAtOnce ==
    /\ main = "draining"
    /\ MainGoes("done") /\ redisUp' = FALSE
    /\ UNCHANGED <<loop, up, accepts, table, session, swept, stopping, jobs, poolUp, requests,
                   expired, missed>>

\* Once stop() has returned: redis_pool.close(), mysql_pool.close().
CloseStores ==
    /\ main = "draining" /\ jobs = {}
    /\ MainGoes("done") /\ redisUp' = FALSE
    /\ UNCHANGED <<loop, up, accepts, table, session, swept, stopping, jobs, poolUp, requests,
                   expired, missed>>

-----------------------------------------------------------------------------
\* What a loop's thread does without waiting for a peer.
LoopStep(l) ==
    \/ CreateSession(l) \/ PublishSession(l) \/ CloseOrSend(l)
    \/ TestQuit(l) \/ Dispatch(l) \/ EventsDone(l)
    \/ loop[l].woken /\ Poll(l)

JobStep(job) == RunCleanup(job) \/ RunHandler(job) \/ PostToLoop(job)

MainStops ==
    \/ SweepTable \/ CloseSwept \/ StopPool \/ CloseStores
    \/ \E l \in Loops : QuitLoop(l) \/ JoinLoop(l)

ReactorNext ==
    /\ main # "crashed"
    /\ \/ \E l \in Loops : LoopStep(l) \/ Poll(l)
       \/ \E job \in jobs : JobStep(job)
       \/ HandleNewConnection \/ ReceiveSignal
       \/ \E s \in Sessions : CloseIdleSession(s)
       \/ MainStops

ReactorSpec == ReactorInit /\ [][ReactorNext]_reactorVars

-----------------------------------------------------------------------------
\* Every session cleanup that the business pool accepted, from a close that
\* raced with the shutdown too, has run against an open Redis pool by the time
\* the pools are closed: main stops the loops first, then the business pool,
\* then the stores.
CleanupsPrecedeClose == missed = {} /\ (main = "done" => jobs = {})

\* While the server serves, a session that the idle sweep found is closed:
\* the close queued from main wakes the loop that owns the session.
ExpiredIsClosed == \A s \in Sessions : s \in expired ~> s \notin expired

\* A shutdown comes to its end: no I/O loop sleeps through quit(), and no
\* worker keeps the pool from stopping.
ShutdownEnds == main = "stopping" ~> main \in {"done", "crashed"}

\* server.stop() closes every session: once the I/O threads are joined none
\* is open.
StopClosesSessions == main \in {"draining", "done"} => \A s \in Sessions : session[s] # "open"

=============================================================================
