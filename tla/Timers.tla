-------------------------------- MODULE Timers --------------------------------
(***************************************************************************)
(* TimerManager and TimerHeap on one event loop.  A periodic timerfd makes *)
(* the loop run popExpired, which fires what was due when it started.  The *)
(* heap is cleaned lazily: cancel() only forgets the timer, and its entry  *)
(* stays in the heap until it comes to the top.  A callback may add and    *)
(* cancel timers, stop the manager, or throw.                              *)
(***************************************************************************)
EXTENDS Integers, Sequences

CONSTANTS
    MaxTime,     \* bound: the steady clock
    MaxTimers    \* bound: timers added

ASSUME TimerAssumption == MaxTime \in Nat /\ MaxTimers \in Nat

VARIABLES
    now,        \* the steady clock
    deadline,   \* the expiration of every timer ever added, by its id
    heap,       \* heap_: ids, some of which may be stale
    active,     \* timers_: the ids that are neither fired nor cancelled
    pass,       \* the time popExpired compares with, or -1 outside of it
    inCallback, \* a timer callback is running
    ticking,    \* started_ and the timerfd exist
    readable,   \* the timerfd has expired and was not read
    fired,      \* history: ids in the order of their callbacks
    dropped     \* history: ids cancelled or cleared while they were active

timerVars == <<now, deadline, heap, active, pass, inCallback, ticking, readable, fired, dropped>>

Ids == 1..MaxTimers

TimerInit ==
    /\ now = 0
    /\ deadline = <<>>
    /\ heap = {} /\ active = {}
    /\ pass = -1 /\ inCallback = FALSE
    /\ ticking = FALSE /\ readable = FALSE
    /\ fired = <<>> /\ dropped = {}

\* The heap's order: by expiration, then by id.
Before(i, j) == deadline[i] < deadline[j] \/ (deadline[i] = deadline[j] /\ i < j)

First(S) == CHOOSE i \in S : \A j \in S \ {i} : Before(i, j)

\* removeStaleTopEntries: entries that are no longer active go, down to the
\* first one that is.
Cleaned ==
    IF heap \cap active = {} THEN {}
    ELSE {i \in heap : ~Before(i, First(heap \cap active))}

Due == {i \in Cleaned : deadline[i] <= pass}

\* The loop thread runs the timers' code; it is in a callback or out of a pass.
LoopRunsUserCode == inCallback \/ pass = -1

-----------------------------------------------------------------------------
ClockTicks ==
    /\ now < MaxTime
    /\ now' = now + 1
    /\ UNCHANGED <<deadline, heap, active, pass, inCallback, ticking, readable, fired, dropped>>

TimerFdExpires ==
    /\ ticking /\ ~readable
    /\ readable' = TRUE
    /\ UNCHANGED <<now, deadline, heap, active, pass, inCallback, ticking, fired, dropped>>

StartTimers ==
    /\ LoopRunsUserCode
    /\ ~ticking
    /\ ticking' = TRUE
    /\ readable' = FALSE
    /\ UNCHANGED <<now, deadline, heap, active, pass, inCallback, fired, dropped>>

\* stop() forgets every timer.  From a callback it closes the timerfd at once
\* and leaves the channel to the handler that is running.
StopTimers ==
    /\ LoopRunsUserCode
    /\ ticking' = FALSE /\ readable' = FALSE
    /\ heap' = {} /\ active' = {}
    /\ dropped' = dropped \cup active
    /\ UNCHANGED <<now, deadline, pass, inCallback, fired>>

\* A negative delay counts as none.
RunAfter(delay) ==
    LET id == Len(deadline) + 1
    IN  /\ LoopRunsUserCode
        /\ id \in Ids
        /\ now + delay <= MaxTime
        /\ deadline' = Append(deadline, now + delay)
        /\ heap' = heap \cup {id}
        /\ active' = active \cup {id}
        /\ UNCHANGED <<now, pass, inCallback, ticking, readable, fired, dropped>>

CancelTimer(id) ==
    /\ LoopRunsUserCode
    /\ id \in active
    /\ active' = active \ {id}
    /\ dropped' = dropped \cup {id}
    /\ UNCHANGED <<now, deadline, heap, pass, inCallback, ticking, readable, fired>>

-----------------------------------------------------------------------------
\* handleRead: the timerfd is read, and the time is taken once.
BeginPass ==
    /\ ticking /\ readable
    /\ pass = -1
    /\ readable' = FALSE
    /\ pass' = now
    /\ UNCHANGED <<now, deadline, heap, active, inCallback, ticking, fired, dropped>>

\* Variant: the callback of a stale entry is run as well.
FireNextStale ==
    /\ pass >= 0 /\ ~inCallback
    /\ heap # {} /\ deadline[First(heap)] <= pass
    /\ heap' = heap \ {First(heap)}
    /\ active' = active \ {First(heap)}
    /\ fired' = Append(fired, First(heap))
    /\ inCallback' = TRUE
    /\ UNCHANGED <<now, deadline, pass, ticking, readable, dropped>>

\* One round of popExpired that fires the first active timer, which is due.
FireNext ==
    LET next == First(Due)
    IN  /\ pass >= 0 /\ ~inCallback
        /\ Due # {}
        /\ heap' = Cleaned \ {next}
        /\ active' = active \ {next}
        /\ fired' = Append(fired, next)
        /\ inCallback' = TRUE
        /\ UNCHANGED <<now, deadline, pass, ticking, readable, dropped>>

\* The callback returns, or throws out of popExpired and ends the pass.
CallbackEnds ==
    /\ inCallback
    /\ inCallback' = FALSE
    /\ pass' \in {pass, -1}
    /\ UNCHANGED <<now, deadline, heap, active, ticking, readable, fired, dropped>>

\* Variant: the pass ends at a stale entry without removing it.
EndPassAtStale ==
    /\ pass >= 0 /\ ~inCallback
    /\ \A i \in heap : i = First(heap) => i \notin active \/ deadline[i] > pass
    /\ pass' = -1
    /\ UNCHANGED <<now, deadline, heap, active, inCallback, ticking, readable, fired, dropped>>

\* Nothing is due any more.
EndPass ==
    /\ pass >= 0 /\ ~inCallback
    /\ Due = {}
    /\ heap' = Cleaned
    /\ pass' = -1
    /\ UNCHANGED <<now, deadline, active, inCallback, ticking, readable, fired, dropped>>

-----------------------------------------------------------------------------
TimerNext ==
    \/ ClockTicks \/ TimerFdExpires \/ StartTimers \/ StopTimers
    \/ \E d \in 0..MaxTime : RunAfter(d)
    \/ \E i \in Ids : CancelTimer(i)
    \/ BeginPass \/ FireNext \/ CallbackEnds \/ EndPass

TimerSpec == TimerInit /\ [][TimerNext]_timerVars

-----------------------------------------------------------------------------
\* A timer fires at most once, never before its time, never after it was
\* cancelled or cleared, and timers fire in the order of their expirations
\* over all passes, though callbacks add and cancel timers and throw in the
\* middle of a pass over a heap with stale entries.
FiresAsScheduled ==
    /\ \A i \in 1..Len(fired) : deadline[fired[i]] <= now /\ fired[i] \notin dropped
    /\ \A i \in 1..Len(fired) - 1 : Before(fired[i], fired[i + 1])

\* A timer fires, unless it is cancelled or the manager stops: neither a stale
\* entry above it nor a callback that throws before it holds it back for ever.
TimerFires ==
    \A i \in Ids : (i \in active /\ ticking) ~> (i \notin active \/ ~ticking)
=============================================================================
