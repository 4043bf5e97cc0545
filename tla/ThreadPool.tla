------------------------------ MODULE ThreadPool ------------------------------
(***************************************************************************)
(* The business ThreadPool: a bounded FIFO queue under a mutex, a          *)
(* condition variable, and stop() by outside threads, several at once, or  *)
(* by a task of the pool itself.                                           *)
(*                                                                         *)
(* A critical section of the mutex is one step.  notify_one and notify_all *)
(* come after the unlock and are steps of their own; a notification that   *)
(* finds nobody waiting is lost.                                           *)
(***************************************************************************)
EXTENDS Naturals, Sequences

CONSTANTS
    Workers,      \* the worker threads, worker_count_ of them
    Callers,      \* the threads that start and stop the pool
    MaxPending,   \* max_pending_tasks_; 0 means no limit
    MaxTasks,     \* bound: tasks submitted
    MaxStarts     \* bound: calls of start()

ASSUME ThreadPoolAssumption ==
    /\ Workers # {}
    /\ MaxPending \in Nat /\ MaxTasks \in Nat /\ MaxStarts \in Nat

VARIABLES
    accepting,   \* running_
    tasks,       \* tasks_, the queue
    worker,      \* where each worker is: "none" when it is not in workers_
    caller,      \* where each outside thread is inside stop(), or start() that failed
    joiner,      \* the holder of stop_mutex_, or {}
    signals,     \* calls of notify_one still to come
    accepted,    \* history: tasks in the order submit() accepted them
    started,     \* history: tasks in the order workers took them
    starts       \* counts the calls of start()

poolVars == <<accepting, tasks, worker, caller, joiner, signals, accepted, started, starts>>

WorkerStates == {"none", "ready", "waiting", "running", "broadcast", "exited"}
CallerStates == {"out", "broadcast", "join", "giveUp", "clear"}

PoolTypeOK ==
    /\ accepting \in BOOLEAN
    /\ tasks \in Seq(1..MaxTasks)
    /\ worker \in [Workers -> WorkerStates]
    /\ caller \in [Callers -> CallerStates]
    /\ joiner \in SUBSET Callers
    /\ signals \in 0..MaxTasks
    /\ accepted \in Seq(1..MaxTasks) /\ started \in Seq(1..MaxTasks)
    /\ starts \in 0..MaxStarts

PoolInit ==
    /\ accepting = FALSE
    /\ tasks = <<>>
    /\ worker = [w \in Workers |-> "none"]
    /\ caller = [c \in Callers |-> "out"]
    /\ joiner = {}
    /\ signals = 0
    /\ accepted = <<>> /\ started = <<>>
    /\ starts = 0

NoWorkers == \A w \in Workers : worker[w] = "none"
Move(w, to) == worker' = [worker EXCEPT ![w] = to]
MoveCaller(c, to) == caller' = [caller EXCEPT ![c] = to]

\* notify_all.
WakeAll == [w \in Workers |-> IF worker[w] = "waiting" THEN "ready" ELSE worker[w]]

-----------------------------------------------------------------------------
\* start() creates all workers under the mutex.  When a thread cannot be
\* created, the ones that were are told to stop, woken and joined.
Start(c) ==
    /\ caller[c] = "out"
    /\ ~accepting /\ NoWorkers
    /\ starts < MaxStarts
    /\ starts' = starts + 1
    /\ \/ /\ accepting' = TRUE
          /\ worker' = [w \in Workers |-> "ready"]
          /\ UNCHANGED caller
       \/ /\ \E created \in SUBSET Workers \ {Workers} :
                 worker' = [w \in Workers |-> IF w \in created THEN "ready" ELSE "none"]
          /\ MoveCaller(c, "giveUp")
          /\ UNCHANGED accepting
    /\ UNCHANGED <<tasks, joiner, signals, accepted, started>>

\* Variant: the task is queued and nobody is notified.
SubmitSilently ==
    /\ Len(accepted) < MaxTasks
    /\ accepting
    /\ MaxPending = 0 \/ Len(tasks) < MaxPending
    /\ tasks' = Append(tasks, Len(accepted) + 1)
    /\ accepted' = Append(accepted, Len(accepted) + 1)
    /\ UNCHANGED <<accepting, worker, caller, joiner, signals, started, starts>>

\* submit(), by any thread, a task of the pool included.  A pool that is not
\* running or whose queue is full refuses the task and changes nothing.
Submit ==
    /\ Len(accepted) < MaxTasks
    /\ accepting
    /\ MaxPending = 0 \/ Len(tasks) < MaxPending
    /\ tasks' = Append(tasks, Len(accepted) + 1)
    /\ accepted' = Append(accepted, Len(accepted) + 1)
    /\ signals' = signals + 1
    /\ UNCHANGED <<accepting, worker, caller, joiner, started, starts>>

NotifyOne ==
    /\ signals > 0
    /\ signals' = signals - 1
    /\ \/ \E w \in Workers : worker[w] = "waiting" /\ Move(w, "ready")
       \/ (\A w \in Workers : worker[w] # "waiting") /\ UNCHANGED worker
    /\ UNCHANGED <<accepting, tasks, caller, joiner, accepted, started, starts>>

-----------------------------------------------------------------------------
\* workerLoop.

\* Variant: a worker leaves as soon as the pool stops, tasks or not.
TakeUnlessStopped(w) ==
    /\ worker[w] = "ready"
    /\ IF ~accepting
       THEN Move(w, "exited") /\ UNCHANGED <<tasks, started>>
       ELSE IF tasks = <<>>
            THEN Move(w, "waiting") /\ UNCHANGED <<tasks, started>>
            ELSE /\ Move(w, "running")
                 /\ tasks' = Tail(tasks)
                 /\ started' = Append(started, Head(tasks))
    /\ UNCHANGED <<accepting, caller, joiner, signals, accepted, starts>>

\* Under the mutex a worker takes the first task, or waits when there is none,
\* or leaves when there is none and the pool has stopped.
Take(w) ==
    /\ worker[w] = "ready"
    /\ \/ /\ tasks = <<>>
          /\ Move(w, IF accepting THEN "waiting" ELSE "exited")
          /\ UNCHANGED <<tasks, started>>
       \/ /\ tasks # <<>>
          /\ Move(w, "running")
          /\ tasks' = Tail(tasks)
          /\ started' = Append(started, Head(tasks))
    /\ UNCHANGED <<accepting, caller, joiner, signals, accepted, starts>>

\* The task returns or throws; the exception is swallowed.
FinishTask(w) ==
    /\ worker[w] = "running"
    /\ Move(w, "ready")
    /\ UNCHANGED <<accepting, tasks, caller, joiner, signals, accepted, started, starts>>

SpuriousWakeup(w) ==
    /\ worker[w] = "waiting"
    /\ Move(w, "ready")
    /\ UNCHANGED <<accepting, tasks, caller, joiner, signals, accepted, started, starts>>

-----------------------------------------------------------------------------
\* stop().

StopByCaller(c) ==
    /\ caller[c] = "out"
    /\ accepting \/ ~NoWorkers
    /\ accepting' = FALSE
    /\ MoveCaller(c, "broadcast")
    /\ UNCHANGED <<tasks, worker, joiner, signals, accepted, started, starts>>

\* Variant: stop() wakes one worker only.
BroadcastToOne(c) ==
    /\ caller[c] \in {"broadcast", "giveUp"}
    /\ MoveCaller(c, IF caller[c] = "broadcast" THEN "join" ELSE "clear")
    /\ \/ \E w \in Workers : worker[w] = "waiting" /\ Move(w, "ready")
       \/ (\A w \in Workers : worker[w] # "waiting") /\ UNCHANGED worker
    /\ UNCHANGED <<accepting, tasks, joiner, signals, accepted, started, starts>>

\* notify_all of stop(), or of a start() that failed.
Broadcast(c) ==
    /\ caller[c] \in {"broadcast", "giveUp"}
    /\ MoveCaller(c, IF caller[c] = "broadcast" THEN "join" ELSE "clear")
    /\ worker' = WakeAll
    /\ UNCHANGED <<accepting, tasks, joiner, signals, accepted, started, starts>>

\* A task stops its own pool: it sets the flag, wakes the workers and returns
\* to its task; joining itself is left to an outside stop().  A second call
\* from a task only wakes the workers once more.
StopByTask(w) ==
    /\ worker[w] = "running"
    /\ accepting
    /\ accepting' = FALSE
    /\ Move(w, "broadcast")
    /\ UNCHANGED <<tasks, caller, joiner, signals, accepted, started, starts>>

BroadcastByTask(w) ==
    /\ worker[w] = "broadcast"
    /\ worker' = [WakeAll EXCEPT ![w] = "running"]
    /\ UNCHANGED <<accepting, tasks, caller, joiner, signals, accepted, started, starts>>

\* One caller at a time joins.  stop() returns when it finds the workers gone; a
\* start() that failed does not look, and joins whatever workers there are.
BeginJoin(c) ==
    /\ caller[c] \in {"join", "clear"}
    /\ joiner = {}
    /\ IF caller[c] = "join" /\ NoWorkers THEN MoveCaller(c, "out") /\ UNCHANGED joiner
       ELSE joiner' = {c} /\ UNCHANGED caller
    /\ UNCHANGED <<accepting, tasks, worker, signals, accepted, started, starts>>

\* A start() that failed clears the queue too.
EndJoin(c) ==
    /\ c \in joiner
    /\ \A w \in Workers : worker[w] \in {"none", "exited"}
    /\ worker' = [w \in Workers |-> "none"]
    /\ joiner' = {}
    /\ tasks' = IF caller[c] = "clear" THEN <<>> ELSE tasks
    /\ MoveCaller(c, "out")
    /\ UNCHANGED <<accepting, signals, accepted, started, starts>>

-----------------------------------------------------------------------------
WorkerStep(w) == Take(w) \/ FinishTask(w) \/ BroadcastByTask(w)
StopStep(c) == Broadcast(c) \/ BeginJoin(c) \/ EndJoin(c)

PoolNext ==
    \/ Submit \/ NotifyOne
    \/ \E w \in Workers : WorkerStep(w) \/ SpuriousWakeup(w) \/ StopByTask(w)
    \/ \E c \in Callers : Start(c) \/ StopByCaller(c) \/ StopStep(c)

PoolSpec == PoolInit /\ [][PoolNext]_poolVars

-----------------------------------------------------------------------------
\* Every accepted task is taken once, in the order of submission, and stop()
\* leaves none behind: once the workers have been joined the queue is empty,
\* though it was closed to new tasks while tasks were still in it.
StopDrains ==
    /\ started \o tasks = accepted
    /\ NoWorkers => tasks = <<>>

\* A task that submit() accepted is run: no notification is lost between a
\* worker's look at the queue and its wait, whoever stops the pool meanwhile.
AcceptedIsRun ==
    \A i \in 1..MaxTasks : (Len(accepted) >= i) ~> (Len(started) >= i)

\* stop() returns, and a start() that failed, also when several threads call it
\* at once and a task of the pool calls it too, unless somebody starts the pool again while it waits.
StopReturns ==
    \A c \in Callers : (caller[c] # "out") ~> (caller[c] = "out" \/ accepting)
=============================================================================
