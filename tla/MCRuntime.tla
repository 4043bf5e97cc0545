------------------------------- MODULE MCRuntime -------------------------------
(***************************************************************************)
(* One instance of each component that runs beside the others without      *)
(* sharing state with them: the business thread pool, the login limiter    *)
(* with the accounts, the timers, the reactor with its shutdown, the       *)
(* output of a session, and the command line client.  focus names the one  *)
(* that moves; the others rest in their initial states.                    *)
(***************************************************************************)
EXTENDS ThreadPool, AccountService, Timers, Reactor, SessionOutput, CliClient

VARIABLE focus

allVars == <<focus, poolVars, accountVars, timerVars, reactorVars, outputVars, cliVars>>

RuntimeInit ==
    /\ focus \in {"pool", "accounts", "timers", "reactor", "output", "cli"}
    /\ PoolInit /\ AccountInit /\ TimerInit /\ ReactorInit /\ OutputInit /\ CliInit

RuntimeNext ==
    /\ UNCHANGED focus
    /\ \/ /\ focus = "pool" /\ PoolNext
          /\ UNCHANGED <<accountVars, timerVars, reactorVars, outputVars, cliVars>>
       \/ /\ focus = "accounts" /\ AccountNext
          /\ UNCHANGED <<poolVars, timerVars, reactorVars, outputVars, cliVars>>
       \/ /\ focus = "timers" /\ TimerNext
          /\ UNCHANGED <<poolVars, accountVars, reactorVars, outputVars, cliVars>>
       \/ /\ focus = "reactor" /\ ReactorNext
          /\ UNCHANGED <<poolVars, accountVars, timerVars, outputVars, cliVars>>
       \/ /\ focus = "output" /\ OutputNext
          /\ UNCHANGED <<poolVars, accountVars, timerVars, reactorVars, cliVars>>
       \/ /\ focus = "cli" /\ CliNext
          /\ UNCHANGED <<poolVars, accountVars, timerVars, reactorVars, outputVars>>

Fair(component, A) == focus = component /\ A

\* The fairness of each component, asked of it only while it moves.
RuntimeFairness ==
    \* A thread inside submit() or stop() goes on, a worker goes on and a task
    \* ends, and stop_mutex_ is not withheld for ever.
    /\ WF_poolVars(Fair("pool", NotifyOne))
    /\ \A w \in Workers : WF_poolVars(Fair("pool", WorkerStep(w)))
    /\ \A c \in Callers : /\ WF_poolVars(Fair("pool", Broadcast(c) \/ EndJoin(c)))
                          /\ SF_poolVars(Fair("pool", BeginJoin(c)))
    \* A worker finishes its handler, and Redis time passes.
    /\ \A t \in Threads : WF_accountVars(Fair("accounts", AccountStep(t)))
    /\ \A k \in LoginKeys : WF_accountVars(Fair("accounts", AgeCounter(k) \/ ExpireCounter(k)))
    \* Time passes, the loop handles the timerfd, and callbacks return.
    /\ WF_timerVars(Fair("timers", ClockTicks)) /\ WF_timerVars(Fair("timers", TimerFdExpires))
    /\ WF_timerVars(Fair("timers", BeginPass \/ FireNext \/ EndPass \/ CallbackEnds))
    \* Every thread that can run does: a loop with an event, a worker, whose
    \* storage calls have timeouts, and main once it stops.  Peers, the idle
    \* timer and the signal are free.
    /\ \A l \in Loops : WF_reactorVars(Fair("reactor", LoopStep(l)))
    /\ WF_reactorVars(Fair("reactor", \E job \in jobs : JobStep(job)))
    /\ WF_reactorVars(Fair("reactor", MainStops))
    \* The loop runs its tasks and dispatches what epoll reports; the peer is
    \* one that keeps reading.
    /\ WF_outputVars(Fair("output", SessionSteps)) /\ WF_outputVars(Fair("output", Writable))
    /\ WF_outputVars(Fair("output", PeerReads))
    \* The client's threads go on, and the server reads while it is up; the user
    \* may type nothing for ever.
    /\ \A t \in CliThreads : WF_cliVars(Fair("cli", CliStep(t)))
    /\ WF_cliVars(Fair("cli", ServerReads))

RuntimeSpec == RuntimeInit /\ [][RuntimeNext]_allVars /\ RuntimeFairness
================================================================================
