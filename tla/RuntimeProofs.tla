----------------------------- MODULE RuntimeProofs -----------------------------
(***************************************************************************)
(* What the server's runtime promises, for any number of workers, callers, *)
(* tasks, loops, sessions, jobs and timers: ThreadPool runs every task it  *)
(* has accepted, main's shutdown closes no store under a cleanup, the      *)
(* timers fire as they were scheduled, and a session's output is watched.  *)
(***************************************************************************)
EXTENDS ThreadPool, Reactor, Timers, SessionOutput, WellFoundedInduction, TLAPS

-----------------------------------------------------------------------------
(* Queues. *)

\* The empty queue is a sequence, the only one of length 0.
LEMMA EmptyIsSeq ==
    ASSUME NEW S
    PROVE  <<>> \in Seq(S) /\ Len(<<>>) = 0 /\ \A s \in Seq(S) : s # <<>> => Len(s) \in Nat \ {0}
OBVIOUS

\* A queue is a function on its places.
LEMMA SeqIsFunction ==
    ASSUME NEW S, NEW s \in Seq(S)
    PROVE  Len(s) \in Nat /\ s \in [1..Len(s) -> S] /\ DOMAIN s = 1..Len(s)
OBVIOUS

\* Joining with the empty queue changes nothing.
LEMMA ConcatEmpty == \A S : \A s \in Seq(S) : s \o <<>> = s /\ <<>> \o s = s
OBVIOUS

-----------------------------------------------------------------------------
(* ThreadPool. *)

PoolTypes ==
    /\ accepting \in BOOLEAN
    /\ worker \in [Workers -> WorkerStates]
    /\ tasks \in Seq(Nat) /\ started \in Seq(Nat) /\ accepted \in Seq(Nat)

\* While the pool accepts tasks every worker is at work; one that has left, and
\* a pool without workers, has no task in its queue.
DrainInv ==
    /\ accepting => \A w \in Workers : worker[w] \notin {"none", "exited"}
    /\ (\E w \in Workers : worker[w] = "exited") => tasks = <<>>
    /\ NoWorkers => tasks = <<>>

PoolInv == PoolTypes /\ DrainInv /\ started \o tasks = accepted

-----------------------------------------------------------------------------
\* Taking the first task moves it from the queue to the tasks that were started.
LEMMA TakeMoves ==
    ASSUME NEW s \in Seq(Nat), NEW q \in Seq(Nat), q # <<>>
    PROVE  /\ Append(s, Head(q)) \in Seq(Nat) /\ Tail(q) \in Seq(Nat)
           /\ Append(s, Head(q)) \o Tail(q) = s \o q
<1>1. Head(q) \in Nat /\ Tail(q) \in Seq(Nat) /\ Len(q) \in Nat /\ Len(q) > 0
    BY EmptyIsSeq, SeqIsFunction
<1>2. q = <<Head(q)>> \o Tail(q)
    BY <1>1
<1>3. Append(s, Head(q)) = s \o <<Head(q)>>
    BY <1>1
<1> QED
    BY <1>1

\* A submitted task is appended to both.
LEMMA SubmitAppends ==
    ASSUME NEW s \in Seq(Nat), NEW q \in Seq(Nat), NEW x \in Nat
    PROVE  Append(q, x) \in Seq(Nat) /\ s \o Append(q, x) = Append(s \o q, x)
OBVIOUS

\* A worker takes the first task, and leaves when there is none and none will come.
LEMMA TakeKeepsInv ==
    ASSUME PoolInv, NEW w \in Workers, Take(w)
    PROVE  PoolInv'
<1> USE DEF PoolInv, PoolTypes, DrainInv, NoWorkers, Move, WorkerStates
<1>1. CASE tasks = <<>>
  <2>1. UNCHANGED <<accepting, tasks, started, accepted>>
        /\ worker' = [worker EXCEPT ![w] = IF accepting THEN "waiting" ELSE "exited"]
    BY <1>1 DEF Take
  <2> QED
    BY <1>1, <2>1
<1>2. CASE tasks # <<>>
  <2>1. /\ worker' = [worker EXCEPT ![w] = "running"] /\ worker[w] = "ready"
        /\ tasks' = Tail(tasks) /\ started' = Append(started, Head(tasks))
        /\ UNCHANGED <<accepting, accepted>>
    BY <1>2 DEF Take
  <2>2. PoolTypes'
    BY <1>2, <2>1, TakeMoves
  <2>3. DrainInv'
    BY <1>2, <2>1
  <2>4. started' \o tasks' = accepted'
    BY <1>2, <2>1, TakeMoves, Zenon
  <2> QED
    BY <2>2, <2>3, <2>4
<1> QED
    BY <1>1, <1>2, Zenon

\* submit() appends to the queue and to the accepted tasks.
LEMMA SubmitKeepsInv == ASSUME PoolInv, Submit PROVE PoolInv'
<1>1. /\ accepting /\ tasks' = Append(tasks, Len(accepted) + 1)
      /\ accepted' = Append(accepted, Len(accepted) + 1)
      /\ UNCHANGED <<accepting, worker, started>>
    BY DEF Submit
<1>2. Len(accepted) + 1 \in Nat
    BY DEF PoolInv, PoolTypes
<1>3. PoolTypes'
    BY <1>1, <1>2 DEF PoolInv, PoolTypes
<1>4. DrainInv'
    BY <1>1, ThreadPoolAssumption DEF PoolInv, DrainInv, NoWorkers
<1>5. started' \o tasks' = accepted'
    BY <1>1, <1>2, SubmitAppends, Zenon DEF PoolInv, PoolTypes
<1> QED
    BY <1>3, <1>4, <1>5 DEF PoolInv

\* Every step of the callers and of the workers.
LEMMA PoolInvStep == PoolInv /\ [PoolNext]_poolVars => PoolInv'
<1> SUFFICES ASSUME PoolInv, [PoolNext]_poolVars PROVE PoolInv'
    OBVIOUS
<1> USE DEF PoolInv, PoolTypes, DrainInv, NoWorkers, Move, WorkerStates, WakeAll
<1>1. CASE UNCHANGED poolVars
    BY <1>1 DEF poolVars
<1>2. CASE NotifyOne
  <2>1. UNCHANGED <<accepting, tasks, accepted, started>>
    BY <1>2 DEF NotifyOne
  <2>2. CASE UNCHANGED worker
    BY <2>1, <2>2
  <2>3. ASSUME NEW w \in Workers, worker[w] = "waiting", Move(w, "ready") PROVE PoolInv'
    BY <2>1, <2>3
  <2> QED
    BY <1>2, <2>2, <2>3, Zenon DEF NotifyOne
<1>3. ASSUME NEW w \in Workers, FinishTask(w) \/ SpuriousWakeup(w) PROVE PoolInv'
  <2>1. /\ worker[w] \in {"running", "waiting"} /\ worker' = [worker EXCEPT ![w] = "ready"]
        /\ UNCHANGED <<accepting, tasks, accepted, started>>
    BY <1>3 DEF FinishTask, SpuriousWakeup
  <2> QED
    BY <2>1
<1>4. ASSUME NEW w \in Workers, StopByTask(w) PROVE PoolInv'
    BY <1>4, Zenon DEF StopByTask
<1>5. ASSUME NEW w \in Workers, BroadcastByTask(w) PROVE PoolInv'
    BY <1>5, Zenon DEF BroadcastByTask
<1>6. ASSUME NEW c \in Callers, Start(c) PROVE PoolInv'
  <2>1. tasks = <<>> /\ UNCHANGED <<tasks, accepted, started>> /\ ~accepting
    BY <1>6 DEF Start
  <2>2. CASE accepting' = TRUE /\ worker' = [w \in Workers |-> "ready"]
    BY <2>1, <2>2
  <2>3. CASE /\ UNCHANGED accepting
             /\ \E created \in SUBSET Workers :
                    worker' = [w \in Workers |-> IF w \in created THEN "ready" ELSE "none"]
    BY <2>1, <2>3
  <2> QED
    BY <1>6, <2>2, <2>3, Zenon DEF Start
<1>7. ASSUME NEW c \in Callers, StopByCaller(c) PROVE PoolInv'
    BY <1>7, Zenon DEF StopByCaller
<1>8. ASSUME NEW c \in Callers, Broadcast(c) PROVE PoolInv'
    BY <1>8 DEF Broadcast
<1>9. ASSUME NEW c \in Callers, BeginJoin(c) PROVE PoolInv'
    BY <1>9 DEF BeginJoin
<1>10. ASSUME NEW c \in Callers, EndJoin(c) PROVE PoolInv'
  <2>1. tasks = <<>> /\ ~accepting
    BY <1>10, ThreadPoolAssumption DEF EndJoin
  <2> QED
    BY <1>10, <2>1 DEF EndJoin
<1> QED
    BY <1>1, <1>2, <1>3, <1>4, <1>5, <1>6, <1>7, <1>8, <1>9, <1>10, TakeKeepsInv, SubmitKeepsInv, Zenon
    DEF PoolNext, WorkerStep, StopStep

\* Every accepted task is taken once and in order, and no stop() leaves one in
\* the queue: the workers drain it before they are joined.
THEOREM NothingAcceptedIsLost == PoolSpec => []StopDrains
<1>1. PoolInit => PoolInv
  <2> SUFFICES ASSUME PoolInit PROVE PoolInv
    OBVIOUS
  <2>1. PoolTypes
    BY EmptyIsSeq, Zenon DEF PoolInit, PoolTypes, WorkerStates
  <2>2. DrainInv
    BY DEF PoolInit, DrainInv
  <2>3. started \o tasks = accepted
    BY EmptyIsSeq, ConcatEmpty DEF PoolInit
  <2> QED
    BY <2>1, <2>2, <2>3 DEF PoolInv
<1>2. PoolInv => StopDrains
    BY DEF PoolInv, DrainInv, StopDrains
<1> QED
    BY <1>1, <1>2, PoolInvStep, PTL DEF PoolSpec

-----------------------------------------------------------------------------
(* The reactor's shutdown. *)

\* What main has reached decides what the pools still do: past the business
\* pool's stop() nothing is submitted, the stores are closed only after it has
\* returned, and it returns only when no job is left.
ShutdownInv ==
    /\ main \in {"draining", "done"} => ~poolUp
    /\ main = "done" => jobs = {}
    /\ ~redisUp => main = "done"
    /\ missed = {}

\* Only a pool that accepts jobs gets a cleanup from a close callback.
LEMMA ClosedPoolGetsNoCleanup ==
    ASSUME NEW s, OnClose(s), ~poolUp
    PROVE  jobs' = jobs
BY DEF OnClose, Accepts

\* An I/O loop moves none of main's places and the pool's flags; it submits
\* only to a pool that is up.
LEMMA LoopKeepsShutdown ==
    ASSUME ShutdownInv, NEW l \in Loops, LoopStep(l) \/ Poll(l)
    PROVE  ShutdownInv'
<1>1. UNCHANGED <<main, poolUp, redisUp, missed>> /\ (~poolUp => jobs' = jobs)
  <2>1. CASE CreateSession(l)
    BY <2>1 DEF CreateSession
  <2>2. CASE PublishSession(l)
    BY <2>2 DEF PublishSession
  <2>3. CASE CloseOrSend(l)
    BY <2>3, ClosedPoolGetsNoCleanup DEF CloseOrSend, CloseInLoop
  <2>4. CASE TestQuit(l)
    BY <2>4 DEF TestQuit
  <2>5. CASE Dispatch(l)
    BY <2>5, ClosedPoolGetsNoCleanup DEF Dispatch, CloseInLoop, Accepts
  <2>6. CASE EventsDone(l)
    BY <2>6 DEF EventsDone, serverVars
  <2>7. CASE Poll(l)
    BY <2>7 DEF Poll, serverVars
  <2>8. QED
    BY <2>1, <2>2, <2>3, <2>4, <2>5, <2>6, <2>7 DEF LoopStep
<1>2. QED
  BY <1>1 DEF ShutdownInv

\* A business thread has a job only while the stores are open: a cleanup finds
\* Redis up, and what the thread adds takes the place of the job it ran.
LEMMA JobKeepsShutdown ==
    ASSUME ShutdownInv, NEW job \in jobs, JobStep(job)
    PROVE  ShutdownInv'
<1>1. main # "done" /\ redisUp
  BY DEF ShutdownInv
<1>2. CASE RunCleanup(job)
  BY <1>1, <1>2 DEF RunCleanup, ShutdownInv
<1>3. CASE RunHandler(job)
  BY <1>1, <1>3 DEF RunHandler, ShutdownInv
<1>4. CASE PostToLoop(job)
  BY <1>1, <1>4 DEF PostToLoop, MainGoes, ShutdownInv
<1>5. QED
  BY <1>2, <1>3, <1>4 DEF JobStep

\* main goes through its shutdown in the order of the code.
LEMMA MainKeepsShutdown ==
    ASSUME ShutdownInv,
           HandleNewConnection \/ ReceiveSignal
           \/ (\E s \in Sessions : CloseIdleSession(s)) \/ MainStops
    PROVE  ShutdownInv'
<1>1. CASE HandleNewConnection
  BY <1>1 DEF HandleNewConnection, ShutdownInv
<1>2. CASE ReceiveSignal
  BY <1>2 DEF ReceiveSignal, MainGoes, ShutdownInv
<1>3. CASE \E s \in Sessions : CloseIdleSession(s)
  BY <1>3 DEF CloseIdleSession, ShutdownInv
<1>4. CASE SweepTable
  BY <1>4 DEF SweepTable, MainGoes, ShutdownInv
<1>5. CASE CloseSwept
  BY <1>5 DEF CloseSwept, ShutdownInv
<1>6. CASE StopPool
  BY <1>6 DEF StopPool, MainGoes, ShutdownInv
<1>7. CASE CloseStores
  BY <1>7 DEF CloseStores, MainGoes, ShutdownInv
<1>8. CASE \E l \in Loops : QuitLoop(l) \/ JoinLoop(l)
  BY <1>8 DEF QuitLoop, JoinLoop, serverVars, ShutdownInv
<1>9. QED
  BY <1>1, <1>2, <1>3, <1>4, <1>5, <1>6, <1>7, <1>8 DEF MainStops

\* main's shutdown order keeps its promise: every cleanup that the business
\* pool has accepted runs while Redis is open, and none is left when the
\* stores have been closed.
THEOREM CleanupsMeetOpenStores == ReactorSpec => []CleanupsPrecedeClose
<1>1. ReactorInit => ShutdownInv
  BY DEF ReactorInit, ShutdownInv
<1>2. ShutdownInv /\ [ReactorNext]_reactorVars => ShutdownInv'
  <2> SUFFICES ASSUME ShutdownInv, [ReactorNext]_reactorVars
               PROVE  ShutdownInv'
    OBVIOUS
  <2>1. CASE ReactorNext
    BY <2>1, LoopKeepsShutdown, JobKeepsShutdown, MainKeepsShutdown DEF ReactorNext
  <2>2. CASE UNCHANGED reactorVars
    BY <2>2 DEF reactorVars, serverVars, ShutdownInv
  <2>3. QED
    BY <2>1, <2>2
<1>3. ShutdownInv => CleanupsPrecedeClose
  BY DEF ShutdownInv, CleanupsPrecedeClose
<1>4. QED
  BY <1>1, <1>2, <1>3, PTL DEF ReactorSpec

-----------------------------------------------------------------------------
(* The timers. *)

\* A set of naturals has a least member.
LEMMA LeastMember ==
    ASSUME NEW S, S \subseteq Nat, S # {}
    PROVE  \E x \in S : \A y \in S : x <= y
<1>1. PICK x \in S : \A y \in S : ~(<<y, x>> \in OpToRel(<, Nat))
  BY NatLessThanWellFounded, WFMin, Zenon
<1>2. \A y \in S : ~(y < x)
  BY <1>1, Zenon DEF OpToRel
<1>3. QED
  BY <1>2

TimerIds == 1..Len(deadline)

TimerTypes ==
    /\ now \in Nat /\ pass \in Int /\ pass <= now
    /\ deadline \in Seq(Nat)
    /\ heap \subseteq TimerIds /\ active \subseteq heap
    /\ fired \in Seq(TimerIds) /\ dropped \subseteq TimerIds

\* No active timer was dropped, and all are behind those that fired.
ActiveIsAhead ==
    /\ active \cap dropped = {}
    /\ \A i \in 1..Len(fired), k \in active : Before(fired[i], k)

TimerInv == TimerTypes /\ ActiveIsAhead /\ FiresAsScheduled

\* The heap's order is total, so that First is the only first one.
LEMMA FirstIsFirst ==
    ASSUME deadline \in Seq(Nat), NEW S, S \subseteq TimerIds, S # {}
    PROVE  /\ First(S) \in S /\ \A j \in S \ {First(S)} : Before(First(S), j)
           /\ \A i \in S : (\A j \in S \ {i} : Before(i, j)) => i = First(S)
<1>1. \A i \in TimerIds : deadline[i] \in Nat /\ i \in Nat
  BY DEF TimerIds
<1>2. PICK t \in {deadline[i] : i \in S} : \A u \in {deadline[i] : i \in S} : t <= u
  <2>1. {deadline[i] : i \in S} \subseteq Nat /\ {deadline[i] : i \in S} # {}
    BY <1>1
  <2>2. QED
    BY <2>1, LeastMember, Zenon
<1>3. PICK i \in {k \in S : deadline[k] = t} : \A j \in {k \in S : deadline[k] = t} : i <= j
  <2>1. {k \in S : deadline[k] = t} \subseteq Nat /\ {k \in S : deadline[k] = t} # {}
    BY <1>1, <1>2
  <2>2. QED
    BY <2>1, LeastMember, Zenon
<1>4. i \in S /\ \A j \in S \ {i} : Before(i, j)
  <2>1. i \in S /\ deadline[i] = t
    BY <1>3
  <2>2. ASSUME NEW j \in S \ {i} PROVE Before(i, j)
    <3>1. /\ t \in Nat /\ deadline[j] \in Nat /\ t <= deadline[j]
          /\ i \in Nat /\ j \in Nat /\ i # j /\ (deadline[j] = t => i <= j)
      BY <1>1, <1>2, <1>3, <2>1
    <3>2. QED
      BY <2>1, <3>1 DEF Before
  <2>3. QED
    BY <2>1, <2>2
<1>5. First(S) \in S /\ \A j \in S \ {First(S)} : Before(First(S), j)
  BY <1>4 DEF First
<1>6. ASSUME NEW k \in S, \A j \in S \ {k} : Before(k, j), k # First(S) PROVE FALSE
  <2>1. PICK f \in S : f = First(S)
    BY <1>5
  <2>2. Before(k, f) /\ Before(f, k)
    BY <1>5, <1>6, <2>1
  <2>3. deadline[k] \in Nat /\ deadline[f] \in Nat /\ k \in Nat /\ f \in Nat
    BY <1>1
  <2>4. QED
    BY <2>2, <2>3 DEF Before
<1>7. QED
  BY <1>5, <1>6

\* What popExpired finds on top of the heap: the first active timer is never
\* removed as stale, and it is the one that fires when any is due.
LEMMA FirstActive ==
    ASSUME TimerInv
    PROVE  /\ active \subseteq Cleaned /\ Cleaned \subseteq heap
           /\ Due # {} => /\ First(Due) \in active /\ deadline[First(Due)] <= now
                          /\ \A k \in active \ {First(Due)} : Before(First(Due), k)
<1>0. deadline \in Seq(Nat) /\ heap \subseteq TimerIds /\ heap \cap active = active
  BY DEF TimerInv, TimerTypes
<1>1. \A i \in TimerIds : deadline[i] \in Nat /\ i \in Nat
  BY <1>0 DEF TimerIds
<1>2. CASE active = {}
  BY <1>0, <1>2 DEF Cleaned, Due
<1>3. CASE active # {}
  <2> DEFINE f == First(active)
  <2>1. f \in active /\ \A k \in active \ {f} : Before(f, k)
    BY <1>0, <1>3, FirstIsFirst
  <2>2. Cleaned = {i \in heap : ~Before(i, f)}
    BY <1>0, <1>3, Zenon DEF Cleaned
  <2> HIDE DEF f
  <2>3. active \subseteq Cleaned /\ Cleaned \subseteq heap
    BY <1>0, <1>1, <2>1, <2>2 DEF Before
  <2>4. ASSUME Due # {} PROVE f = First(Due) /\ deadline[f] <= now
    <3>1. f \in Due
      BY <1>0, <1>1, <2>1, <2>2, <2>3, <2>4 DEF Due, Before, TimerInv, TimerTypes
    <3>2. Due \subseteq TimerIds
      BY <1>0, <2>3 DEF Due
    <3>3. \A j \in Due \ {f} : Before(f, j)
      BY <1>0, <1>1, <2>1, <2>2, <3>1, <3>2 DEF Due, Before
    <3>4. f = First(Due)
      BY <1>0, <3>1, <3>2, <3>3, FirstIsFirst
    <3>5. QED
      BY <1>0, <1>1, <2>1, <3>1, <3>4 DEF Due, TimerInv, TimerTypes
  <2>5. QED
    BY <2>1, <2>3, <2>4
<1>4. QED
  BY <1>2, <1>3

\* No timer yet.
LEMMA TimerInvInit == TimerInit => TimerInv
<1> SUFFICES ASSUME TimerInit PROVE TimerInv
  OBVIOUS
<1>1. TimerTypes
  BY DEF TimerInit, TimerTypes, TimerIds
<1>2. QED
  BY <1>1 DEF TimerInit, TimerInv, ActiveIsAhead, FiresAsScheduled

\* A step that adds no timer, fires none and keeps or drops active timers.
LEMMA TimersOnlyLeave ==
    ASSUME TimerInv, UNCHANGED <<deadline, fired>>,
           now' \in Nat, pass' \in Int, now <= now', pass' <= now',
           active' \subseteq heap', heap' \subseteq heap, active' \subseteq active,
           dropped' = dropped \cup (active \ active')
    PROVE  TimerInv'
<1>1. TimerTypes'
  BY DEF TimerInv, TimerTypes, TimerIds
<1>2. \A i \in 1..Len(fired) : fired[i] \in TimerIds /\ deadline[fired[i]] \in Nat
  BY DEF TimerInv, TimerTypes, TimerIds
<1>3. \A i \in 1..Len(fired) : fired[i] \notin active
  BY <1>2 DEF TimerInv, ActiveIsAhead, Before, TimerIds
<1>4. ActiveIsAhead'
  BY DEF TimerInv, ActiveIsAhead, Before
<1>5. FiresAsScheduled'
  <2>1. \A i \in 1..Len(fired) : deadline[fired[i]] <= now' /\ fired[i] \notin dropped'
    BY <1>2, <1>3 DEF TimerInv, TimerTypes, FiresAsScheduled
  <2>2. QED
    BY <2>1 DEF TimerInv, FiresAsScheduled, Before
<1>6. QED
  BY <1>1, <1>4, <1>5 DEF TimerInv

\* A new timer has the largest id, and its time is not before now: it is behind
\* all that have fired.
LEMMA RunAfterInv ==
    ASSUME TimerInv, NEW delay \in Nat, RunAfter(delay)
    PROVE  TimerInv'
<1>0. PICK id \in Nat : id = Len(deadline) + 1
  BY DEF TimerInv, TimerTypes
<1>1. /\ deadline \in Seq(Nat) /\ now \in Nat /\ deadline' = Append(deadline, now + delay)
      /\ heap' = heap \cup {id} /\ active' = active \cup {id}
      /\ UNCHANGED <<now, pass, fired, dropped>>
  BY <1>0 DEF RunAfter, TimerInv, TimerTypes
<1>2. /\ deadline' \in Seq(Nat) /\ Len(deadline') = id /\ deadline'[id] = now + delay
      /\ TimerIds' = TimerIds \cup {id} /\ id \notin TimerIds
      /\ \A i \in TimerIds : deadline'[i] = deadline[i] /\ i \in Nat /\ i < id
                             /\ deadline[i] \in Nat
  BY <1>0, <1>1 DEF TimerIds
<1>3. \A i, j \in TimerIds : Before(i, j) => Before(i, j)'
  BY <1>2 DEF Before
<1>4. \A i \in 1..Len(fired) : fired[i] \in TimerIds
  BY DEF TimerInv, TimerTypes
<1>5. TimerTypes'
  <2>1. fired' \in Seq(TimerIds')
    <3>1. fired \in Seq(TimerIds) /\ TimerIds \subseteq TimerIds'
      BY <1>2 DEF TimerInv, TimerTypes
    <3>2. QED
      BY <1>1, <3>1
  <2>2. QED
    BY <1>1, <1>2, <2>1 DEF TimerInv, TimerTypes
<1>6. \A i \in 1..Len(fired) : deadline'[fired[i]] <= now /\ fired[i] \notin dropped
  BY <1>2, <1>4 DEF TimerInv, FiresAsScheduled
<1>7. \A i \in 1..Len(fired) : Before(fired[i], id)'
  <2> SUFFICES ASSUME NEW i \in 1..Len(fired) PROVE Before(fired[i], id)'
    OBVIOUS
  <2>1. PICK k \in TimerIds : k = fired[i]
    BY <1>4
  <2>2. deadline'[k] \in Nat /\ deadline'[k] <= now /\ k \in Nat /\ k < id
    BY <1>2, <1>6, <2>1
  <2>3. deadline'[id] \in Nat /\ deadline'[id] >= now
    BY <1>1, <1>2
  <2>4. fired'[i] = k
    BY <1>1, <2>1
  <2>5. deadline'[k] < deadline'[id] \/ (deadline'[k] = deadline'[id] /\ k < id)
    <3>1. now \in Nat
      BY <1>1
    <3>2. QED
      BY <2>2, <2>3, <3>1
  <2>6. QED
    BY <2>4, <2>5 DEF Before
<1>8. ActiveIsAhead'
  <2>1. active \subseteq TimerIds /\ dropped \subseteq TimerIds
    BY DEF TimerInv, TimerTypes
  <2>2. active' \cap dropped' = {}
    BY <1>1, <1>2, <2>1 DEF TimerInv, ActiveIsAhead
  <2>3. \A i \in 1..Len(fired), k \in active \cup {id} : Before(fired[i], k)'
    BY <1>1, <1>3, <1>4, <1>7, <2>1 DEF TimerInv, ActiveIsAhead
  <2>4. QED
    BY <1>1, <2>2, <2>3 DEF ActiveIsAhead
<1>9. FiresAsScheduled'
  <2>1. \A i \in 1..Len(fired) - 1 : Before(fired[i], fired[i + 1])'
    <3> SUFFICES ASSUME NEW i \in 1..Len(fired) - 1 PROVE Before(fired[i], fired[i + 1])'
      OBVIOUS
    <3>1. i \in 1..Len(fired) /\ i + 1 \in 1..Len(fired)
      BY DEF TimerInv, TimerTypes
    <3>2. QED
      BY <1>1, <1>3, <1>4, <3>1 DEF TimerInv, FiresAsScheduled
  <2>2. QED
    BY <1>1, <1>6, <2>1, Zenon DEF FiresAsScheduled
<1>10. QED
  BY <1>5, <1>8, <1>9 DEF TimerInv

\* The timer that fires is the first active one.
LEMMA FireNextInv ==
    ASSUME TimerInv, FireNext
    PROVE  TimerInv'
<1> DEFINE f == First(Due)
<1>1. /\ f \in active /\ deadline[f] <= now /\ \A k \in active \ {f} : Before(f, k)
      /\ active \subseteq Cleaned /\ Cleaned \subseteq heap
  BY FirstActive DEF FireNext
<1>2. /\ heap' = Cleaned \ {f} /\ active' = active \ {f} /\ fired' = Append(fired, f)
      /\ UNCHANGED <<now, deadline, pass, dropped>>
  BY DEF FireNext
<1> HIDE DEF f
<1>3. f \in TimerIds /\ fired \in Seq(TimerIds)
  BY <1>1 DEF TimerInv, TimerTypes
<1>4. /\ Len(fired) \in Nat /\ Len(fired') = Len(fired) + 1 /\ fired'[Len(fired) + 1] = f
      /\ \A i \in 1..Len(fired) : fired'[i] = fired[i]
  BY <1>2, <1>3
<1>5. TimerTypes'
  BY <1>1, <1>2, <1>3 DEF TimerInv, TimerTypes, TimerIds
<1>6. ActiveIsAhead'
  BY <1>1, <1>2, <1>4 DEF TimerInv, ActiveIsAhead, Before
<1>7. FiresAsScheduled'
  <2>1. \A i \in 1..Len(fired') : deadline[fired'[i]] <= now /\ fired'[i] \notin dropped
    BY <1>1, <1>4 DEF TimerInv, ActiveIsAhead, FiresAsScheduled
  <2>2. ASSUME NEW i \in 1..Len(fired') - 1 PROVE Before(fired'[i], fired'[i + 1])
    <3>1. CASE i = Len(fired)
      BY <1>1, <1>4, <3>1 DEF TimerInv, ActiveIsAhead
    <3>2. CASE i < Len(fired)
      BY <1>4, <3>2 DEF TimerInv, FiresAsScheduled
    <3>3. QED
      BY <1>4, <3>1, <3>2
  <2>3. QED
    BY <1>2, <2>1, <2>2 DEF FiresAsScheduled, Before
<1>8. QED
  BY <1>5, <1>6, <1>7 DEF TimerInv

\* Every step of the timers and of the clock.
LEMMA TimerInvNext == TimerInv /\ [TimerNext]_timerVars => TimerInv'
<1> SUFFICES ASSUME TimerInv, [TimerNext]_timerVars PROVE TimerInv'
  OBVIOUS
<1>1. now \in Nat /\ pass \in Int /\ pass <= now /\ active \subseteq heap
  BY DEF TimerInv, TimerTypes
<1>2. CASE ClockTicks
  BY <1>1, <1>2, TimersOnlyLeave DEF ClockTicks
<1>3. CASE TimerFdExpires \/ StartTimers
  BY <1>1, <1>3, TimersOnlyLeave DEF TimerFdExpires, StartTimers
<1>4. CASE StopTimers
  BY <1>1, <1>4, TimersOnlyLeave DEF StopTimers
<1>5. ASSUME NEW d \in 0..MaxTime, RunAfter(d) PROVE TimerInv'
  BY <1>5, RunAfterInv, TimerAssumption
<1>6. ASSUME NEW i \in Ids, CancelTimer(i) PROVE TimerInv'
  BY <1>1, <1>6, TimersOnlyLeave DEF CancelTimer
<1>7. CASE BeginPass \/ CallbackEnds
  BY <1>1, <1>7, TimersOnlyLeave DEF BeginPass, CallbackEnds
<1>8. CASE FireNext
  BY <1>8, FireNextInv
<1>9. CASE EndPass
  BY <1>1, <1>9, TimersOnlyLeave, FirstActive DEF EndPass
<1>10. CASE UNCHANGED timerVars
  BY <1>1, <1>10, TimersOnlyLeave DEF timerVars
<1>11. QED
  BY <1>2, <1>3, <1>4, <1>5, <1>6, <1>7, <1>8, <1>9, <1>10 DEF TimerNext

\* For any number of timers and any clock: TimerHeap::popExpired runs a timer's
\* callback never before its time, never after cancel() or stop() forgot it, and
\* in the order of the expirations, so at most once, whatever callbacks do to
\* the heap in the middle of a pass.
THEOREM TimersFireAsScheduled == TimerSpec => []FiresAsScheduled
<1>1. TimerInv => FiresAsScheduled
  BY DEF TimerInv
<1>2. QED
  BY TimerInvInit, TimerInvNext, <1>1, PTL DEF TimerSpec

-----------------------------------------------------------------------------
(* SessionOutput. *)

\* As long as a session has output, its channel is in epoll with an interest in
\* EPOLLOUT, and the output is within output_high_water_mark_.
OutputIsWatched ==
    output > 0 => /\ life = "started" /\ output <= HighWater
                  /\ channel.registered /\ "write" \in channel.interest

\* Channel::handleEvent runs callbacks only of a channel that was not reset,
\* although a callback may close the session in the middle of it.
DispatchedIsAlive == event # <<>> => channel.alive

\* The channel follows the session's life: in epoll while it is started, not
\* reset before closeInLoop has queued the reset.
ChannelFollowsLife ==
    /\ life = "started" <=> channel.registered
    /\ life # "closed" => channel.alive /\ ~resets

Channels == [registered : BOOLEAN, interest : SUBSET {"read", "write"}, alive : BOOLEAN]

OutputTypes ==
    /\ life \in {"new", "started", "closed"} /\ resets \in BOOLEAN
    /\ channel \in Channels
    /\ output \in Nat /\ room \in Nat /\ queued \in Seq(Nat)

OutputInv == OutputTypes /\ ChannelFollowsLife /\ OutputIsWatched /\ DispatchedIsAlive

\* What the updates of a channel leave.
LEMMA ChannelUpdates ==
    ASSUME channel \in Channels
    PROVE  /\ \A events \in SUBSET {"read", "write"} :
                 /\ Watch(events) \in Channels
                 /\ Watch(events).registered /\ Watch(events).interest = events
                 /\ Watch(events).alive = channel.alive
           /\ Unwatch \in Channels /\ ~Unwatch.registered /\ Unwatch.alive = channel.alive
<1>1. ASSUME NEW events \in SUBSET {"read", "write"}
      PROVE  /\ Watch(events) \in Channels
             /\ Watch(events).registered /\ Watch(events).interest = events
             /\ Watch(events).alive = channel.alive
  <2>1. Watch(events) \in Channels
    BY Zenon DEF Channels, Watch
  <2>2. Watch(events).registered /\ Watch(events).interest = events
    BY DEF Channels, Watch
  <2>3. Watch(events).alive = channel.alive
    BY DEF Channels, Watch
  <2>4. QED
    BY <2>1, <2>2, <2>3
<1>2. Unwatch \in Channels
  BY ZenonT(30) DEF Channels, Unwatch
<1>3. ~Unwatch.registered /\ Unwatch.alive = channel.alive
  BY DEF Channels, Unwatch
<1>4. QED
  BY <1>1, <1>2, <1>3

\* closeInLoop, from wherever it is called: the channel leaves epoll and stays
\* alive, the output is gone.
LEMMA ShutKeepsInv ==
    ASSUME OutputInv, life # "closed", Shut, room' = room, queued' \in Seq(Nat)
    PROVE  OutputInv'
<1>1. channel' \in Channels /\ ~channel'.registered /\ channel'.alive
  BY ChannelUpdates DEF Shut, OutputInv, OutputTypes, ChannelFollowsLife
<1>2. QED
  BY <1>1 DEF Shut, OutputInv, OutputTypes, ChannelFollowsLife, OutputIsWatched, DispatchedIsAlive

\* sendEncodedInLoop, from the queue or from a read callback: what is added to
\* the buffer is watched.
LEMMA SendKeepsInv ==
    ASSUME OutputInv, NEW size \in Nat, SendEncodedInLoop(size),
           UNCHANGED <<room, event>>, queued' \in Seq(Nat)
    PROVE  OutputInv'
<1>2. CASE UNCHANGED <<life, channel, output, resets>>
  BY <1>2
  DEF OutputInv, OutputTypes, ChannelFollowsLife, OutputIsWatched, DispatchedIsAlive
<1>3. CASE life # "closed" /\ Shut
  BY <1>3, ShutKeepsInv
<1>4. CASE /\ life = "started" /\ size > 0 /\ output <= HighWater - size
           /\ output' = output + size
           /\ channel' = EnableWriting
           /\ UNCHANGED <<life, resets>>
  <2> DEFINE events == channel.interest \cup {"write"}
  <2>0. events \in SUBSET {"read", "write"}
    BY DEF OutputInv, OutputTypes, Channels
  <2>1. /\ channel' \in Channels /\ channel'.registered /\ channel'.alive
        /\ "write" \in channel'.interest
    BY <1>4, <2>0, ChannelUpdates, Zenon
    DEF EnableWriting, OutputInv, OutputTypes, ChannelFollowsLife
  <2>2. output' \in Nat /\ output' <= HighWater
    BY <1>4, OutputAssumption DEF OutputInv, OutputTypes
  <2>3. QED
    BY <1>4, <2>1, <2>2
    DEF OutputInv, OutputTypes, ChannelFollowsLife, OutputIsWatched, DispatchedIsAlive
<1>5. QED
  BY <1>2, <1>3, <1>4, Zenon DEF SendEncodedInLoop

\* handleWrite: EPOLLOUT is given up only with an empty buffer.
LEMMA HandleWriteKeepsInv == ASSUME OutputInv, HandleWrite PROVE OutputInv'
<1> DEFINE n == IF output < room THEN output ELSE room
<1>1. CASE /\ life = "started" /\ output' = output - n /\ room' = room - n
           /\ channel' = IF output' = 0 THEN DisableWriting ELSE channel
           /\ UNCHANGED <<life, resets>>
  <2>1. output' \in Nat /\ room' \in Nat /\ output' <= output
    BY <1>1 DEF OutputInv, OutputTypes
  <2> DEFINE events == channel.interest \ {"write"}
  <2>0. events \in SUBSET {"read", "write"}
    BY DEF OutputInv, OutputTypes, Channels
  <2>2. /\ channel' \in Channels /\ channel'.registered /\ channel'.alive
        /\ output' > 0 => channel' = channel
    BY <1>1, <2>0, <2>1, ChannelUpdates
    DEF DisableWriting, OutputInv, OutputTypes, ChannelFollowsLife
  <2>3. output' > 0 => output > 0 /\ output' <= HighWater
    BY <2>1, OutputAssumption DEF OutputInv, OutputTypes, OutputIsWatched
  <2>4. QED
    BY <1>1, <2>1, <2>2, <2>3
    DEF HandleWrite, OutputInv, OutputTypes, ChannelFollowsLife, OutputIsWatched, DispatchedIsAlive
<1>2. CASE life = "started" /\ Shut /\ UNCHANGED room
  BY <1>2, ShutKeepsInv DEF HandleWrite, OutputInv, OutputTypes
<1>3. CASE UNCHANGED <<life, channel, output, room, resets>>
  BY <1>3
  DEF HandleWrite, Idle, OutputInv, OutputTypes, ChannelFollowsLife, OutputIsWatched,
      DispatchedIsAlive
<1>4. QED
  BY <1>1, <1>2, <1>3 DEF HandleWrite

\* The reset runs between two dispatches and only after closeInLoop.
LEMMA ResetKeepsInv == ASSUME OutputInv, ResetSessionChannel PROVE OutputInv'
<1>1. life = "closed" /\ ~channel.registered
  BY DEF ResetSessionChannel, OutputInv, OutputTypes, ChannelFollowsLife
<1>2. channel' \in Channels /\ channel'.registered = channel.registered
  BY ZenonT(30) DEF ResetSessionChannel, OutputInv, OutputTypes, Channels
<1>3. QED
  BY <1>1, <1>2, ZenonT(30)
  DEF ResetSessionChannel, Idle, OutputInv, OutputTypes, ChannelFollowsLife, OutputIsWatched,
      DispatchedIsAlive

\* One step of the session, its channel, the peer or a sender.
LEMMA OutputInvNext == OutputInv /\ [OutputNext]_outputVars => OutputInv'
<1> SUFFICES ASSUME OutputInv, [OutputNext]_outputVars PROVE OutputInv'
  OBVIOUS
<1> USE DEF OutputInv, OutputTypes, ChannelFollowsLife, OutputIsWatched, DispatchedIsAlive
<1>1. CASE StartSession
  <2>1. channel' \in Channels /\ channel'.registered /\ channel'.alive
    BY <1>1, ChannelUpdates DEF StartSession
  <2>2. output = 0
    BY <1>1 DEF StartSession
  <2>3. QED
    BY <1>1, <2>1, <2>2 DEF StartSession
<1>2. CASE RunSend
  <2>1. Head(queued) \in Nat /\ queued' \in Seq(Nat)
    BY <1>2 DEF RunSend
  <2>2. QED
    BY <1>2, <2>1, SendKeepsInv, Zenon DEF RunSend
<1>3. CASE CloseCallback
  <2>1. CASE life = "started" /\ Shut
    BY <1>3, <2>1, ShutKeepsInv DEF CloseCallback
  <2>2. CASE UNCHANGED <<life, channel, output, resets>>
    BY <1>3, <2>2 DEF CloseCallback, Idle
  <2>3. QED
    BY <1>3, <2>1, <2>2 DEF CloseCallback
<1>4. CASE HandleWrite
  BY <1>4, HandleWriteKeepsInv
<1>5. CASE ResetSessionChannel
  BY <1>5, ResetKeepsInv
<1>6. CASE EpollReports
  BY <1>6 DEF EpollReports
<1>7. CASE PeerReads
  BY <1>7, OutputAssumption DEF PeerReads
<1>8. ASSUME NEW size \in PacketSizes, SendPacket(size) PROVE OutputInv'
  <2>1. queued' \in Seq(Nat)
    BY <1>8, OutputAssumption DEF SendPacket, SizeInLoop
  <2>2. QED
    BY <1>8, <2>1 DEF SendPacket
<1>9. CASE UNCHANGED outputVars
  BY <1>9 DEF outputVars
<1>10. ASSUME NEW size \in PacketSizes, SendPacketInLoop(size) PROVE OutputInv'
  <2>1. SizeInLoop(size) \in Nat
    BY <1>10, OutputAssumption DEF SizeInLoop
  <2>2. QED
    BY <1>10, <2>1, SendKeepsInv, Zenon DEF SendPacketInLoop
<1>11. QED
  BY <1>1, <1>2, <1>3, <1>4, <1>5, <1>6, <1>7, <1>8, <1>9, <1>10, ZenonT(30) DEF OutputNext, SessionSteps

\* A new session has no output and no event.
LEMMA OutputInvInit == OutputInit => OutputInv
<1> SUFFICES ASSUME OutputInit PROVE OutputInv
  OBVIOUS
<1>1. channel = [registered |-> FALSE, interest |-> {}, alive |-> TRUE]
  BY DEF OutputInit
<1>2. life = "new" /\ resets = FALSE /\ event = <<>> /\ output = 0
  BY DEF OutputInit
<1>3. queued \in Seq(Nat) /\ room \in Nat
  BY OutputAssumption, EmptyIsSeq DEF OutputInit
<1>4. channel \in Channels
  BY <1>1 DEF Channels
<1>5. ~channel.registered /\ channel.alive
  BY <1>1
<1>6. OutputTypes
  BY <1>2, <1>3, <1>4, Zenon DEF OutputTypes
<1>7. ChannelFollowsLife
  BY <1>2, <1>5, Zenon DEF ChannelFollowsLife
<1>8. OutputIsWatched /\ DispatchedIsAlive
  BY <1>2 DEF OutputIsWatched, DispatchedIsAlive
<1>9. QED
  BY <1>6, <1>7, <1>8 DEF OutputInv

\* For any high water mark, packet sizes and room in the socket: handleWrite
\* never gives up EPOLLOUT with output left, so that no accepted packet is
\* stranded, and sendEncodedInLoop never lets the buffer pass the mark.
THEOREM OutputNeverStranded == OutputSpec => []OutputIsWatched
<1>1. OutputInv => OutputIsWatched
  BY DEF OutputInv
<1>2. QED
  BY OutputInvInit, OutputInvNext, <1>1, PTL DEF OutputSpec

\* closeInLoop defers the reset of the channel to a task of its own, so that
\* handleEvent never goes on with callbacks of a channel that is gone.
THEOREM ChannelOutlivesDispatch == OutputSpec => []DispatchedIsAlive
<1>1. OutputInv => DispatchedIsAlive
  BY DEF OutputInv
<1>2. QED
  BY OutputInvInit, OutputInvNext, <1>1, PTL DEF OutputSpec

=============================================================================
