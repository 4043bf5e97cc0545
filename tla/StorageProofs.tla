---------------------------- MODULE StorageProofs ----------------------------
(***************************************************************************)
(* What the business threads share in the stores: the connections of       *)
(* ConnectionPool, for any number of connections and threads, with and     *)
(* without connections that break, and the accounts and failure counters   *)
(* of AccountService, for any number of names, addresses, passwords and    *)
(* threads and any limit.                                                  *)
(***************************************************************************)
EXTENDS ConnectionPool, AccountService, FiniteSetTheorems, TLAPS

-----------------------------------------------------------------------------
(* Queues. *)

\* The empty queue is a sequence, the only one of length 0.
LEMMA EmptyIsSeq ==
    ASSUME NEW S
    PROVE  <<>> \in Seq(S) /\ Len(<<>>) = 0 /\ \A s \in Seq(S) : s # <<>> => Len(s) \in Nat \ {0}
OBVIOUS

\* A queue is a function on its places.
LEMMA SeqIsFunction ==
    ASSUME NEW S, NEW s \in Seq(S)
    PROVE  Len(s) \in Nat /\ s \in [1..Len(s) -> S] /\ DOMAIN s = 1..Len(s)
OBVIOUS

\* Popping the front of a queue moves every other element up by one place.
LEMMA HeadAndTail ==
    ASSUME NEW S, NEW s \in Seq(S), s # <<>>
    PROVE  /\ Head(s) \in S /\ Tail(s) \in Seq(S) /\ Len(Tail(s)) = Len(s) - 1
           /\ \A i \in 1..Len(Tail(s)) : Tail(s)[i] = s[i + 1]
OBVIOUS

\* Pushing at the back of a queue leaves every element in its place.
LEMMA AppendAtEnd ==
    ASSUME NEW S, NEW s \in Seq(S), NEW e \in S
    PROVE  /\ Append(s, e) \in Seq(S) /\ Len(Append(s, e)) = Len(s) + 1
           /\ Append(s, e)[Len(s) + 1] = e /\ \A i \in 1..Len(s) : Append(s, e)[i] = s[i]
OBVIOUS

-----------------------------------------------------------------------------
(* ConnectionPool. *)

\* The states in which a thread holds a connection.
Holding == {"check", "recheck", "using", "txn", "release"}

\* Who will look at the queue without being told again.
Alert == {t \in Threads : user[t] \in {"notify", "woken"}}

\* A thread holds a connection from the queue until it has been given back.
HoldInv ==
    /\ \A t \in Threads : conn[t] # None <=> user[t] \in Holding
    /\ \A t, w \in Threads : t # w /\ conn[t] # None => conn[t] # conn[w]
    /\ Range(idle) \cap Held = {}
    /\ closing \cap Held = {}
    /\ IsInjective(idle)

\* Where the connections are before start(), while the pool is open and after.
PhaseInv ==
    /\ opened = "new" => Held = {} /\ \A c \in Conns : link[c] = "closed"
    /\ opened # "started" => idle = <<>>
    /\ opened # "closing" => closing = {}
    /\ opened = "started" => Conns = Range(idle) \cup Held
    /\ IsClosed => \A c \in Conns : link[c] # "closed" => c \in Held \cup closing

\* A transaction whose COMMIT was not refused is open only on a connection whose
\* holder is inside it, and a connection that passed the check is closed only by
\* its holder.
TxnInv ==
    /\ \A c \in openTxn \ refused : \E t \in Threads : user[t] = "txn" /\ conn[t] = c
    /\ \A t \in Threads : user[t] \in {"recheck", "using", "txn"} => link[conn[t]] # "closed"

\* While somebody waits there are no more idle connections than alert threads.
WakeInv ==
    /\ Wake # {} => Len(idle) <= Cardinality(Alert) /\ opened # "closed"
    /\ opened = "new" => \A t \in Threads : user[t] = "out"

CoreInv == ConnTypeOK /\ HoldInv /\ PhaseInv /\ TxnInv

ConnInv == CoreInv /\ WakeInv

-----------------------------------------------------------------------------
\* Sequences without repetition.
LEMMA TailOfInjective ==
    ASSUME NEW S, NEW s \in Seq(S), s # <<>>, IsInjective(s)
    PROVE  /\ Head(s) \in Range(s) /\ Head(s) \in S
           /\ Tail(s) \in Seq(S) /\ Len(Tail(s)) = Len(s) - 1
           /\ IsInjective(Tail(s)) /\ Range(Tail(s)) = Range(s) \ {Head(s)}
<1>1. /\ Len(s) \in Nat \ {0} /\ DOMAIN s = 1..Len(s) /\ Head(s) = s[1]
      /\ Head(s) \in S
      /\ Tail(s) \in Seq(S) /\ Len(Tail(s)) = Len(s) - 1
      /\ \A i \in 1..Len(Tail(s)) : Tail(s)[i] = s[i + 1]
    BY EmptyIsSeq, SeqIsFunction, HeadAndTail
<1>2. DOMAIN Tail(s) = 1..(Len(s) - 1)
    BY <1>1, SeqIsFunction
<1>3. IsInjective(Tail(s))
    BY <1>1, <1>2 DEF IsInjective
<1>4. Range(Tail(s)) = {s[i] : i \in 2..Len(s)}
  <2>1. \A i \in 1..(Len(s) - 1) : i + 1 \in 2..Len(s) /\ Tail(s)[i] = s[i + 1]
    BY <1>1
  <2>2. \A j \in 2..Len(s) : j - 1 \in 1..(Len(s) - 1) /\ Tail(s)[j - 1] = s[j]
    BY <1>1
  <2>3. Range(Tail(s)) = {Tail(s)[i] : i \in 1..(Len(s) - 1)}
    BY <1>2, Zenon DEF Range
  <2>4. {Tail(s)[i] : i \in 1..(Len(s) - 1)} \subseteq {s[i] : i \in 2..Len(s)}
    BY <2>1
  <2>5. {s[i] : i \in 2..Len(s)} \subseteq {Tail(s)[i] : i \in 1..(Len(s) - 1)}
    BY <2>2
  <2> QED
    BY <2>3, <2>4, <2>5
<1>5. \A i \in 2..Len(s) : s[i] # s[1]
    BY <1>1 DEF IsInjective
<1>6. Range(s) = {s[1]} \cup {s[i] : i \in 2..Len(s)}
    BY <1>1 DEF Range
<1> QED
    BY <1>1, <1>3, <1>4, <1>5, <1>6

LEMMA AppendToInjective ==
    ASSUME NEW S, NEW s \in Seq(S), NEW x \in S, x \notin Range(s), IsInjective(s)
    PROVE  /\ Append(s, x) \in Seq(S) /\ Len(Append(s, x)) = Len(s) + 1
           /\ IsInjective(Append(s, x)) /\ Range(Append(s, x)) = Range(s) \cup {x}
<1>1. /\ Len(s) \in Nat /\ DOMAIN s = 1..Len(s)
      /\ Append(s, x) \in Seq(S) /\ Len(Append(s, x)) = Len(s) + 1
      /\ \A i \in 1..Len(s) : Append(s, x)[i] = s[i]
      /\ Append(s, x)[Len(s) + 1] = x
    BY SeqIsFunction, AppendAtEnd
<1>2. DOMAIN Append(s, x) = 1..(Len(s) + 1)
    BY <1>1, SeqIsFunction
<1>3. \A i \in 1..Len(s) : s[i] # x
    BY <1>1 DEF Range
<1>4. IsInjective(Append(s, x))
    BY <1>1, <1>2, <1>3 DEF IsInjective
<1>5. Range(Append(s, x)) = Range(s) \cup {x}
  <2>1. \A i \in 1..(Len(s) + 1) : i \in 1..Len(s) \/ i = Len(s) + 1
    BY <1>1
  <2>2. \A i \in 1..Len(s) : i \in 1..(Len(s) + 1)
    BY <1>1
  <2>3. Len(s) + 1 \in 1..(Len(s) + 1)
    BY <1>1
  <2> QED
    BY <1>1, <1>2, <2>1, <2>2, <2>3 DEF Range
<1> QED
    BY <1>1, <1>4, <1>5

\* start() queues every connection once.
LEMMA StartOrderIsPermutation ==
    StartOrder \in Seq(Conns) /\ IsInjective(StartOrder) /\ Range(StartOrder) = Conns
<1> DEFINE n == Cardinality(Conns)
           s == StartOrder
<1>1. IsFiniteSet(Conns) /\ n \in Nat /\ ExistsBijection(1..n, Conns)
    BY PoolSizeAssumption, FS_CardinalityType
<1>2. Injection(1..n, Conns) # {}
    BY <1>1 DEF ExistsBijection, Bijection
<1>3. s \in [1..n -> Conns] /\ IsInjective(s)
    BY <1>2 DEF StartOrder, Injection
<1>4. s \in Seq(Conns)
    BY <1>1, <1>3
<1>5. Range(s) \subseteq Conns
    BY <1>3 DEF Range
<1>6. s \in Bijection(1..n, Range(s))
    BY <1>3 DEF Bijection, Injection, Surjection, Range
<1>7. ExistsBijection(1..n, Range(s))
    BY <1>6 DEF ExistsBijection
<1>8. Cardinality(Range(s)) = n
    BY <1>1, <1>7, FS_CountingElements
<1>9. Range(s) = Conns
    BY <1>1, <1>5, <1>8, FS_Subset
<1> QED
    BY <1>3, <1>4, <1>9

-----------------------------------------------------------------------------
\* Taking a connection, and giving it back.
LEMMA HeldGains ==
    ASSUME ConnTypeOK, NEW t \in Threads, conn[t] = None, NEW c \in Conns,
           conn' = [conn EXCEPT ![t] = c]
    PROVE  Held' = Held \cup {c} /\ conn'[t] = c /\ \A w \in Threads \ {t} : conn'[w] = conn[w]
<1>1. conn'[t] = c /\ \A w \in Threads \ {t} : conn'[w] = conn[w]
    BY DEF ConnTypeOK
<1>2. c # None
    BY PoolSizeAssumption
<1> QED
    BY <1>1, <1>2 DEF Held

LEMMA HeldLoses ==
    ASSUME ConnTypeOK, HoldInv, NEW t \in Threads, conn[t] # None,
           conn' = [conn EXCEPT ![t] = None]
    PROVE  Held' = Held \ {conn[t]} /\ conn'[t] = None /\ \A w \in Threads \ {t} : conn'[w] = conn[w]
<1>1. conn'[t] = None /\ \A w \in Threads \ {t} : conn'[w] = conn[w]
    BY DEF ConnTypeOK
<1> QED
    BY <1>1 DEF Held, HoldInv

LEMMA EnterType ==
    ASSUME ConnTypeOK, NEW t \in Threads, NEW state \in UserStates, Enter(t, state)
    PROVE  /\ user' \in [Threads -> UserStates] /\ user'[t] = state
           /\ \A w \in Threads \ {t} : user'[w] = user[w]
BY DEF ConnTypeOK, Enter

LEMMA HeldIsTyped ==
    ASSUME ConnTypeOK, HoldInv, NEW t \in Threads, user[t] \in Holding
    PROVE  conn[t] \in Conns /\ conn[t] \in Held /\ conn[t] # None
BY DEF ConnTypeOK, HoldInv, Held

-----------------------------------------------------------------------------
\* A step that only moves one thread, outside transactions.
LEMMA MoveKeepsCore ==
    ASSUME CoreInv, NEW t \in Threads, NEW state \in UserStates, Enter(t, state),
           UNCHANGED <<opened, idle, link, openTxn, conn, closing, refused>>,
           user[t] \in Holding <=> state \in Holding,
           user[t] # "txn", state # "txn",
           state \in {"recheck", "using"} => link[conn[t]] # "closed"
    PROVE  CoreInv'
<1> USE DEF CoreInv
<1>1. ConnTypeOK'
    BY EnterType DEF ConnTypeOK
<1>2. Held' = Held
    BY DEF Held
<1>3. HoldInv'
    BY <1>2, EnterType DEF HoldInv
<1>4. PhaseInv'
    BY <1>2 DEF PhaseInv, IsClosed
<1>5. TxnInv'
    BY EnterType DEF TxnInv
<1> QED
    BY <1>1, <1>3, <1>4, <1>5

LEMMA StartKeepsCore == ASSUME CoreInv, StartPool PROVE CoreInv'
<1> USE DEF CoreInv
<1>1. /\ opened = "new" /\ opened' = "started" /\ idle' = StartOrder
      /\ link' = [c \in Conns |-> "up"] /\ UNCHANGED <<openTxn, user, conn, closing, refused>>
    BY DEF StartPool
<1>2. idle' \in Seq(Conns) /\ IsInjective(idle') /\ Range(idle') = Conns
    BY <1>1, StartOrderIsPermutation
<1>3. Held' = {} /\ Held = {}
    BY <1>1 DEF Held, PhaseInv
<1>4. ConnTypeOK'
    BY <1>1, <1>2 DEF ConnTypeOK
<1>5. HoldInv'
    BY <1>1, <1>2, <1>3 DEF HoldInv
<1>6. PhaseInv'
    BY <1>1, <1>2, <1>3 DEF PhaseInv, IsClosed
<1>7. TxnInv'
  <2>1. \A t \in Threads : user[t] \notin {"recheck", "using", "txn"}
    BY <1>3, HeldIsTyped DEF Holding
  <2> QED
    BY <1>1, <2>1 DEF TxnInv
<1> QED
    BY <1>4, <1>5, <1>6, <1>7

LEMMA TakeKeepsCore ==
    ASSUME CoreInv, NEW t \in Threads, user[t] \notin Holding, TakeIdle(t)
    PROVE  CoreInv'
<1> USE DEF CoreInv
<1> DEFINE c == Head(idle)
<1>1. /\ opened = "started" /\ idle # <<>> /\ idle' = Tail(idle)
      /\ conn' = [conn EXCEPT ![t] = c] /\ Enter(t, "check")
      /\ UNCHANGED <<opened, link, openTxn, closing, refused>>
    BY DEF TakeIdle
<1>2. /\ c \in Range(idle) /\ c \in Conns /\ Tail(idle) \in Seq(Conns)
      /\ IsInjective(Tail(idle)) /\ Range(Tail(idle)) = Range(idle) \ {c}
    BY <1>1, TailOfInjective DEF ConnTypeOK, HoldInv
<1>3. conn[t] = None
    BY DEF HoldInv
<1>4. Held' = Held \cup {c} /\ conn'[t] = c /\ \A w \in Threads \ {t} : conn'[w] = conn[w]
    BY <1>1, <1>2, <1>3, HeldGains, Zenon
<1>5. /\ user' \in [Threads -> UserStates] /\ user'[t] = "check"
      /\ \A w \in Threads \ {t} : user'[w] = user[w]
    BY <1>1, EnterType DEF UserStates
<1>6. ConnTypeOK'
    BY <1>1, <1>2, <1>5, Zenon DEF ConnTypeOK
<1>7. c \notin Held /\ c # None
    BY <1>2, PoolSizeAssumption DEF HoldInv
<1>8. HoldInv'
  <2>1. \A w \in Threads : conn'[w] # None <=> user'[w] \in Holding
    BY <1>4, <1>5, <1>7 DEF HoldInv, Holding
  <2>2. \A v, w \in Threads : v # w /\ conn'[v] # None => conn'[v] # conn'[w]
    BY <1>4, <1>7 DEF HoldInv, Held
  <2>3. Range(idle') \cap Held' = {} /\ IsInjective(idle')
    BY <1>1, <1>2, <1>4 DEF HoldInv
  <2>4. closing' \cap Held' = {}
    BY <1>1 DEF PhaseInv
  <2> QED
    BY <2>1, <2>2, <2>3, <2>4 DEF HoldInv
<1>9. PhaseInv'
    BY <1>1, <1>2, <1>4 DEF PhaseInv, IsClosed
<1>10. TxnInv'
  <2>1. \A d \in openTxn \ refused : \E w \in Threads \ {t} : user[w] = "txn" /\ conn[w] = d
    BY DEF TxnInv, Holding
  <2> QED
    BY <1>1, <1>4, <1>5, <2>1 DEF TxnInv
<1> QED
    BY <1>6, <1>8, <1>9, <1>10

\* acquire(), its waits and its timeout.
LEMMA AcquireKeepsCore ==
    ASSUME CoreInv, NEW t \in Threads, Acquire(t) \/ Retest(t) \/ TimeUp(t)
    PROVE  CoreInv'
<1>1. user[t] \in {"out", "waiting", "woken"} /\ user[t] \notin Holding
    BY DEF Acquire, Retest, TimeUp, Holding
<1>2. CASE TakeIdle(t)
    BY <1>1, <1>2, TakeKeepsCore
<1>3. CASE /\ \E state \in {"out", "waiting"} : Enter(t, state)
           /\ UNCHANGED <<opened, idle, link, openTxn, conn, closing, refused>>
    BY <1>1, <1>3, MoveKeepsCore DEF UserStates, Holding
<1> QED
    BY <1>2, <1>3 DEF Acquire, Retest, TimeUp

LEMMA NotifyKeepsCore == ASSUME CoreInv, NEW t \in Threads, NotifyWaiter(t) PROVE CoreInv'
<1>1. user[t] = "notify" /\ UNCHANGED <<opened, idle, link, openTxn, conn, closing, refused>>
    BY DEF NotifyWaiter
<1>2. CASE Enter(t, "out")
    BY <1>1, <1>2, MoveKeepsCore DEF UserStates, Holding
<1>3. ASSUME NEW w \in Wake, user' = [user EXCEPT ![t] = "out", ![w] = "woken"]
      PROVE  CoreInv'
  <2> USE DEF CoreInv
  <2>1. w \in Threads /\ user[w] = "waiting" /\ w # t
    BY <1>1, <1>3 DEF Wake
  <2>2. /\ user'[t] = "out" /\ user'[w] = "woken"
        /\ \A v \in Threads \ {t, w} : user'[v] = user[v]
        /\ user' \in [Threads -> UserStates]
    BY <1>3, <2>1 DEF ConnTypeOK, UserStates
  <2>3. Held' = Held
    BY <1>1 DEF Held
  <2>4. ConnTypeOK'
    BY <1>1, <2>2 DEF ConnTypeOK
  <2>5. HoldInv'
    BY <1>1, <2>1, <2>2, <2>3 DEF HoldInv, Holding
  <2>6. PhaseInv'
    BY <1>1, <2>3 DEF PhaseInv, IsClosed
  <2>7. TxnInv'
    BY <1>1, <2>1, <2>2 DEF TxnInv
  <2> QED
    BY <2>4, <2>5, <2>6, <2>7
<1> QED
    BY <1>2, <1>3 DEF NotifyWaiter

\* The check of the connection outside the mutex.
LEMMA CheckKeepsCore == ASSUME CoreInv, NEW t \in Threads, CheckLink(t) PROVE CoreInv'
<1> USE DEF CoreInv
<1>1. user[t] = "check" /\ UNCHANGED <<opened, idle, openTxn, conn, closing, refused>>
    BY DEF CheckLink
<1>2. conn[t] \in Conns /\ conn[t] \in Held /\ conn[t] # None
    BY <1>1, HeldIsTyped DEF Holding
<1>3. CASE link[conn[t]] = "up" /\ Enter(t, "recheck") /\ UNCHANGED link
    BY <1>1, <1>3, MoveKeepsCore DEF UserStates, Holding
<1>4. ASSUME NEW state \in {"recheck", "release"}, Enter(t, state),
             NEW l \in {"up", "closed"}, link' = [link EXCEPT ![conn[t]] = l],
             state = "recheck" => l = "up"
      PROVE  CoreInv'
  <2>1. /\ user' \in [Threads -> UserStates] /\ user'[t] = state
        /\ \A w \in Threads \ {t} : user'[w] = user[w]
    BY <1>4, EnterType DEF UserStates
  <2>2. Held' = Held /\ Range(idle') = Range(idle)
    BY <1>1 DEF Held
  <2>3. ConnTypeOK'
    BY <1>1, <1>2, <1>4, <2>1 DEF ConnTypeOK
  <2>4. HoldInv'
    BY <1>1, <2>1, <2>2 DEF HoldInv, Holding
  <2>5. link'[conn[t]] = l /\ \A c \in Conns : c # conn[t] => link'[c] = link[c]
    BY <1>2, <1>4 DEF ConnTypeOK
  <2>6. PhaseInv'
    BY <1>1, <1>2, <2>2, <2>5 DEF PhaseInv, IsClosed
  <2>7. ASSUME NEW w \in Threads, user'[w] \in {"recheck", "using", "txn"}
        PROVE  link'[conn'[w]] # "closed"
    <3>1. CASE w = t
      BY <1>1, <1>4, <2>1, <2>5, <2>7, <3>1
    <3>2. CASE w # t
      <4>1. conn[w] \in Conns /\ conn[w] # conn[t] /\ user[w] = user'[w]
        BY <1>2, <2>1, <2>7, <3>2, HeldIsTyped DEF HoldInv, Holding
      <4> QED
        BY <1>1, <2>5, <2>7, <4>1 DEF TxnInv
    <3> QED
      BY <3>1, <3>2
  <2>8. TxnInv'
    BY <1>1, <2>1, <2>7 DEF TxnInv
  <2> QED
    BY <2>3, <2>4, <2>6, <2>8
<1> QED
    BY <1>3, <1>4 DEF CheckLink

\* The holder closes its connection and drops it: acquire() on a pool that was
\* closed meanwhile, and releaseConnection() on a closed pool.
LEMMA DropKeepsCore ==
    ASSUME CoreInv, NEW t \in Threads, user[t] \in Holding \ {"txn"}, opened # "started",
           link' = [link EXCEPT ![conn[t]] = "closed"],
           openTxn' = openTxn \ {conn[t]},
           conn' = [conn EXCEPT ![t] = None],
           Enter(t, "out"), UNCHANGED <<opened, idle, closing, refused>>
    PROVE  CoreInv'
<1> USE DEF CoreInv
<1>1. conn[t] \in Conns /\ conn[t] \in Held /\ conn[t] # None
    BY HeldIsTyped
<1>2. /\ user' \in [Threads -> UserStates] /\ user'[t] = "out"
      /\ \A w \in Threads \ {t} : user'[w] = user[w]
    BY EnterType DEF UserStates
<1>3. Held' = Held \ {conn[t]} /\ conn'[t] = None /\ \A w \in Threads \ {t} : conn'[w] = conn[w]
    BY <1>1, HeldLoses, Zenon
<1>4. link'[conn[t]] = "closed" /\ \A c \in Conns : c # conn[t] => link'[c] = link[c]
    BY <1>1 DEF ConnTypeOK
<1>5. ConnTypeOK'
    BY <1>1, <1>2, Zenon DEF ConnTypeOK
<1>6. HoldInv'
    BY <1>2, <1>3 DEF HoldInv, Holding
<1>7. PhaseInv'
    BY <1>1, <1>3, <1>4 DEF PhaseInv, IsClosed
<1>8. TxnInv'
  <2>1. \A c \in openTxn' \ refused : \E w \in Threads \ {t} : user[w] = "txn" /\ conn[w] = c
    BY DEF TxnInv
  <2>2. ASSUME NEW w \in Threads, user'[w] \in {"recheck", "using", "txn"}
        PROVE  link'[conn'[w]] # "closed"
    <3>1. w # t /\ user[w] = user'[w] /\ conn[w] \in Conns /\ conn[w] # conn[t]
      BY <1>1, <1>2, <2>2, HeldIsTyped DEF HoldInv, Holding
    <3> QED
      BY <1>3, <1>4, <2>2, <3>1 DEF TxnInv
  <2> QED
    BY <1>2, <1>3, <2>1, <2>2 DEF TxnInv
<1> QED
    BY <1>5, <1>6, <1>7, <1>8

LEMMA HandOutKeepsCore == ASSUME CoreInv, NEW t \in Threads, HandOut(t) PROVE CoreInv'
<1>1. user[t] = "recheck" /\ UNCHANGED <<opened, idle, closing, refused>>
    BY DEF HandOut
<1>2. CASE IsClosed
    BY <1>1, <1>2, DropKeepsCore DEF HandOut, IsClosed, Holding
<1>3. CASE ~IsClosed
    BY <1>1, <1>3, MoveKeepsCore DEF HandOut, UserStates, Holding, CoreInv, TxnInv
<1> QED
    BY <1>2, <1>3

LEMMA ReleaseKeepsCore == ASSUME CoreInv, NEW t \in Threads, Release(t) PROVE CoreInv'
<1>1. /\ user[t] = "release" /\ UNCHANGED <<opened, closing, refused>>
      /\ conn' = [conn EXCEPT ![t] = None]
    BY DEF Release
<1>2. CASE opened # "started"
    BY <1>1, <1>2, DropKeepsCore, Zenon DEF Release, Holding
<1>3. CASE opened = "started"
  <2> USE DEF CoreInv
  <2>1. idle' = Append(idle, conn[t]) /\ Enter(t, "notify") /\ UNCHANGED <<link, openTxn>>
    BY <1>3 DEF Release
  <2>2. conn[t] \in Conns /\ conn[t] \in Held /\ conn[t] # None
    BY <1>1, HeldIsTyped DEF Holding
  <2>3. /\ idle' \in Seq(Conns) /\ IsInjective(idle') /\ Range(idle') = Range(idle) \cup {conn[t]}
    BY <2>1, <2>2, AppendToInjective DEF ConnTypeOK, HoldInv
  <2>4. /\ user' \in [Threads -> UserStates] /\ user'[t] = "notify"
        /\ \A w \in Threads \ {t} : user'[w] = user[w]
    BY <2>1, EnterType DEF UserStates
  <2>5. Held' = Held \ {conn[t]} /\ conn'[t] = None /\ \A w \in Threads \ {t} : conn'[w] = conn[w]
    BY <1>1, <2>2, HeldLoses, Zenon
  <2>6. ConnTypeOK'
    BY <1>1, <2>1, <2>3, <2>4, Zenon DEF ConnTypeOK
  <2>7. HoldInv'
    BY <1>1, <2>3, <2>4, <2>5 DEF HoldInv, Holding
  <2>8. PhaseInv'
    BY <1>1, <1>3, <2>2, <2>3, <2>5 DEF PhaseInv, IsClosed
  <2>9. \A c \in openTxn \ refused : \E w \in Threads \ {t} : user[w] = "txn" /\ conn[w] = c
    BY <1>1 DEF TxnInv
  <2>10. TxnInv'
    BY <1>1, <2>1, <2>4, <2>5, <2>9 DEF TxnInv
  <2> QED
    BY <2>6, <2>7, <2>8, <2>10
<1> QED
    BY <1>2, <1>3

\* The transaction of a DAO, and a connection that breaks.
LEMMA TxnKeepsCore ==
    ASSUME CoreInv, NEW t \in Threads, BeginTxn(t) \/ EndTxn(t) \/ CommitRefused(t) \/ FinishUse(t)
    PROVE  CoreInv'
<1> USE DEF CoreInv
<1>1. user[t] \in {"using", "txn"} /\ UNCHANGED <<opened, idle, link, conn, closing>>
    BY DEF BeginTxn, EndTxn, CommitRefused, FinishUse
<1>2. conn[t] \in Conns /\ conn[t] \in Held /\ conn[t] # None
    BY <1>1, HeldIsTyped DEF Holding
<1>3. CASE FinishUse(t)
    BY <1>3, MoveKeepsCore DEF FinishUse, UserStates, Holding
<1>4. CASE BeginTxn(t) \/ EndTxn(t) \/ CommitRefused(t)
  <2>1. PICK state \in {"txn", "release"} : Enter(t, state)
    BY <1>4 DEF BeginTxn, EndTxn, CommitRefused
  <2>2. /\ user' \in [Threads -> UserStates] /\ user'[t] = state
        /\ \A w \in Threads \ {t} : user'[w] = user[w]
    BY <2>1, EnterType DEF UserStates
  <2>3. Held' = Held
    BY <1>1 DEF Held
  <2>4. ConnTypeOK'
    BY <1>1, <1>2, <1>4, <2>2 DEF ConnTypeOK, BeginTxn, EndTxn, CommitRefused
  <2>5. HoldInv'
    BY <1>1, <2>2, <2>3 DEF HoldInv, Holding
  <2>6. PhaseInv'
    BY <1>1, <2>3 DEF PhaseInv, IsClosed
  <2>7. \A c \in (openTxn \ refused)' : \E w \in Threads : user'[w] = "txn" /\ conn'[w] = c
    <3>1. CASE BeginTxn(t)
      <4>1. user'[t] = "txn" /\ openTxn' = openTxn \cup {conn[t]} /\ user[t] = "using"
            /\ refused' = refused \ {conn[t]}
        BY <2>2, <3>1 DEF BeginTxn, Enter, ConnTypeOK
      <4> QED
        BY <1>1, <2>2, <4>1 DEF TxnInv
    <3>2. CASE EndTxn(t)
      <4>1. openTxn' = openTxn \ {conn[t]} /\ refused' = refused
        BY <3>2 DEF EndTxn
      <4> QED
        BY <1>1, <2>2, <4>1 DEF TxnInv
    <3>3. CASE CommitRefused(t)
      <4>1. openTxn' = openTxn /\ refused' = refused \cup {conn[t]}
        BY <3>3 DEF CommitRefused
      <4> QED
        BY <1>1, <2>2, <4>1 DEF TxnInv
    <3> QED
      BY <1>4, <3>1, <3>2, <3>3
  <2>8. TxnInv'
    BY <1>1, <2>2, <2>7 DEF TxnInv
  <2> QED
    BY <2>4, <2>5, <2>6, <2>8
<1> QED
    BY <1>3, <1>4

LEMMA BreakKeepsCore == ASSUME CoreInv, NEW c \in Conns, LinkBreaks(c) PROVE CoreInv'
<1> USE DEF CoreInv
<1>1. /\ link[c] = "up" /\ link' = [link EXCEPT ![c] = "broken"] /\ openTxn' = openTxn \ {c}
      /\ UNCHANGED <<opened, idle, user, conn, closing, refused>>
    BY DEF LinkBreaks
<1>2. Held' = Held
    BY <1>1 DEF Held
<1>3. ConnTypeOK'
    BY <1>1 DEF ConnTypeOK
<1>4. HoldInv'
    BY <1>1, <1>2 DEF HoldInv
<1>5. \A d \in Conns : link'[d] # "closed" <=> link[d] # "closed"
    BY <1>1 DEF ConnTypeOK
<1>6. PhaseInv'
    BY <1>1, <1>2, <1>5 DEF PhaseInv, IsClosed
<1>7. TxnInv'
    BY <1>1, <1>5, HeldIsTyped DEF TxnInv, Holding
<1> QED
    BY <1>3, <1>4, <1>6, <1>7

\* close().
LEMMA CloseKeepsCore == ASSUME CoreInv, ClosePool \/ CloseIdle PROVE CoreInv'
<1> USE DEF CoreInv
<1>1. CASE ClosePool
  <2>1. /\ ~IsClosed /\ opened' = "closing" /\ closing' = Range(idle) /\ idle' = <<>>
        /\ UNCHANGED <<link, openTxn, user, conn, refused>>
    BY <1>1 DEF ClosePool
  <2>2. Held' = Held
    BY <2>1 DEF Held
  <2>3. Range(idle) \subseteq Conns /\ Range(idle') = {} /\ IsInjective(idle') /\ idle' \in Seq(Conns)
    BY <2>1, EmptyIsSeq DEF ConnTypeOK, Range, IsInjective
  <2>4. ConnTypeOK'
    BY <2>1, <2>3 DEF ConnTypeOK
  <2>5. HoldInv'
    BY <2>1, <2>2, <2>3 DEF HoldInv
  <2>6. opened = "started" \/ opened = "new"
    BY <2>1 DEF IsClosed, ConnTypeOK
  <2>7. opened = "new" => \A c \in Conns : link[c] = "closed"
    BY DEF PhaseInv
  <2>8. PhaseInv'
    BY <2>1, <2>2, <2>6, <2>7 DEF PhaseInv, IsClosed
  <2>9. TxnInv'
    BY <2>1 DEF TxnInv
  <2> QED
    BY <2>4, <2>5, <2>8, <2>9
<1>2. CASE CloseIdle
  <2>1. /\ opened = "closing" /\ opened' = "closed" /\ closing' = {}
        /\ link' = [c \in Conns |-> IF c \in closing THEN "closed" ELSE link[c]]
        /\ openTxn' = openTxn \ closing
        /\ user' = [t \in Threads |-> IF t \in Wake THEN "woken" ELSE user[t]]
        /\ UNCHANGED <<idle, conn, refused>>
    BY <1>2 DEF CloseIdle
  <2>2. Held' = Held
    BY <2>1 DEF Held
  <2>3. \A t \in Threads : user'[t] = user[t] \/ (user[t] = "waiting" /\ user'[t] = "woken")
    BY <2>1 DEF Wake
  <2>4. ConnTypeOK'
    BY <2>1 DEF ConnTypeOK, UserStates
  <2>5. HoldInv'
    BY <2>1, <2>2, <2>3 DEF HoldInv, Holding
  <2>6. PhaseInv'
    BY <2>1, <2>2 DEF PhaseInv, IsClosed
  <2>7. ASSUME NEW t \in Threads, user'[t] \in {"recheck", "using", "txn"}
        PROVE  link'[conn'[t]] # "closed"
    <3>1. user[t] = user'[t] /\ conn[t] \in Conns /\ conn[t] \notin closing
      BY <2>3, <2>7, HeldIsTyped DEF Holding, HoldInv
    <3> QED
      BY <2>1, <2>7, <3>1 DEF TxnInv
  <2>8. TxnInv'
    BY <2>1, <2>3, <2>7 DEF TxnInv
  <2> QED
    BY <2>4, <2>5, <2>6, <2>8
<1> QED
    BY <1>1, <1>2

-----------------------------------------------------------------------------
LEMMA AlertFinite ==
    /\ IsFiniteSet(Alert) /\ Cardinality(Alert) \in Nat
    /\ IsFiniteSet(Alert') /\ Cardinality(Alert') \in Nat
<1>1. Alert \subseteq Threads /\ Alert' \subseteq Threads /\ IsFiniteSet(Threads)
    BY PoolSizeAssumption DEF Alert
<1> QED
    BY <1>1, FS_Subset, FS_CardinalityType

\* An empty queue owes nobody a wakeup.
LEMMA EmptyOwesNothing ==
    ASSUME idle' = <<>>, Wake' # {} => opened' # "closed", opened' # "new"
    PROVE  WakeInv'
<1>1. Len(idle') = 0
    BY EmptyIsSeq
<1> QED
    BY <1>1, AlertFinite DEF WakeInv

\* No new waiter, no new idle connection and no alert thread less.
LEMMA NothingOwedAnew ==
    ASSUME ConnTypeOK, ConnTypeOK', WakeInv, opened' = opened, opened # "new", Wake' \subseteq Wake,
           Len(idle') <= Len(idle), Alert \subseteq Alert'
    PROVE  WakeInv'
<1>1. Cardinality(Alert) <= Cardinality(Alert')
    BY AlertFinite, FS_Subset
<1>2. Len(idle) \in Nat /\ Len(idle') \in Nat
    BY SeqIsFunction DEF ConnTypeOK
<1> QED
    BY <1>1, <1>2, AlertFinite DEF WakeInv

LEMMA TakeKeepsWake ==
    ASSUME CoreInv, ConnTypeOK', WakeInv, NEW t \in Threads,
           user[t] \in {"out", "waiting", "woken"}, TakeIdle(t)
    PROVE  WakeInv'
<1>1. /\ opened = "started" /\ idle # <<>> /\ idle' = Tail(idle) /\ opened' = opened
      /\ Enter(t, "check")
    BY DEF TakeIdle
<1>2. Len(idle') = Len(idle) - 1 /\ Len(idle) \in Nat
    BY <1>1, TailOfInjective, SeqIsFunction DEF CoreInv, ConnTypeOK, HoldInv
<1>3. user'[t] = "check" /\ \A w \in Threads \ {t} : user'[w] = user[w]
    BY <1>1, EnterType DEF CoreInv, UserStates
<1>4. Wake' \subseteq Wake
    BY <1>3 DEF Wake
<1>5. CASE user[t] = "woken"
  <2>1. t \in Alert /\ Alert' = Alert \ {t}
    BY <1>3, <1>5 DEF Alert
  <2>2. Cardinality(Alert') = Cardinality(Alert) - 1
    BY <2>1, AlertFinite, FS_RemoveElement
  <2> QED
    BY <1>1, <1>2, <1>4, <2>2, AlertFinite DEF WakeInv
<1>6. CASE user[t] # "woken"
  <2>1. Alert \subseteq Alert'
    BY <1>3, <1>6 DEF Alert
  <2> QED
    BY <1>1, <1>2, <1>4, <2>1, NothingOwedAnew DEF CoreInv
<1> QED
    BY <1>5, <1>6

\* A thread waits only when it has seen the queue empty and the pool open, and
\* gives up only when there is nothing for it.
LEMMA AcquireKeepsWake ==
    ASSUME CoreInv, ConnTypeOK', WakeInv, NEW t \in Threads, Acquire(t) \/ Retest(t) \/ TimeUp(t)
    PROVE  WakeInv'
<1>1. user[t] \in {"out", "waiting", "woken"} /\ opened # "new"
    BY DEF Acquire, Retest, TimeUp, WakeInv
<1>2. CASE TakeIdle(t)
    BY <1>1, <1>2, TakeKeepsWake
<1>3. CASE /\ Enter(t, "waiting") /\ idle = <<>> /\ ~IsClosed
           /\ UNCHANGED <<opened, idle, link, openTxn, conn, closing, refused>>
    BY <1>1, <1>3, EmptyOwesNothing DEF IsClosed
<1>4. CASE /\ Enter(t, "out")
           /\ idle = <<>> \/ IsClosed
           /\ UNCHANGED <<opened, idle, link, openTxn, conn, closing, refused>>
  <2>1. idle = <<>>
    BY <1>4 DEF CoreInv, PhaseInv, IsClosed
  <2>2. Wake' \subseteq Wake
    BY <1>4, EnterType DEF Wake, CoreInv, UserStates
  <2> QED
    BY <1>1, <1>4, <2>1, <2>2, EmptyOwesNothing DEF WakeInv
<1>5. /\ Acquire(t) => TakeIdle(t) \/ (opened = "started" /\ idle = <<>> /\ Enter(t, "waiting")
             /\ UNCHANGED <<opened, idle, link, openTxn, conn, closing, refused>>)
      /\ Retest(t) => TakeIdle(t) \/ ((IsClosed \/ idle = <<>>)
             /\ Enter(t, IF IsClosed THEN "out" ELSE "waiting")
             /\ UNCHANGED <<opened, idle, link, openTxn, conn, closing, refused>>)
      /\ TimeUp(t) => TakeIdle(t) \/ ((IsClosed \/ idle = <<>>) /\ Enter(t, "out")
             /\ UNCHANGED <<opened, idle, link, openTxn, conn, closing, refused>>)
    BY DEF Acquire, Retest, TimeUp
<1>6. CASE Acquire(t)
    BY <1>2, <1>3, <1>5, <1>6 DEF IsClosed
<1>7. CASE Retest(t)
    BY <1>2, <1>3, <1>4, <1>5, <1>7
<1>8. CASE TimeUp(t)
    BY <1>2, <1>4, <1>5, <1>8
<1> QED
    BY <1>6, <1>7, <1>8

\* The steps of a thread that holds a connection and keeps or drops it.
LEMMA HolderKeepsWake ==
    ASSUME CoreInv, ConnTypeOK', WakeInv, NEW t \in Threads, user[t] \in Holding,
           NEW state \in UserStates \ {"waiting"}, Enter(t, state), UNCHANGED <<opened, idle>>
    PROVE  WakeInv'
<1>1. user'[t] = state /\ \A w \in Threads \ {t} : user'[w] = user[w]
    BY EnterType DEF CoreInv
<1>2. Wake' \subseteq Wake /\ Alert \subseteq Alert'
    BY <1>1 DEF Wake, Alert, Holding
<1>3. opened # "new"
    BY DEF WakeInv, Holding
<1>4. Len(idle') <= Len(idle)
    BY SeqIsFunction DEF CoreInv, ConnTypeOK
<1> QED
    BY <1>2, <1>3, <1>4, NothingOwedAnew DEF CoreInv

LEMMA ReleaseKeepsWake ==
    ASSUME CoreInv, ConnTypeOK', WakeInv, NEW t \in Threads, Release(t)
    PROVE  WakeInv'
<1>1. user[t] = "release" /\ opened' = opened
    BY DEF Release
<1>2. CASE opened # "started"
    BY <1>1, <1>2, HolderKeepsWake DEF Release, Holding, UserStates
<1>3. CASE opened = "started"
  <2>1. idle' = Append(idle, conn[t]) /\ Enter(t, "notify")
    BY <1>3 DEF Release
  <2>2. conn[t] \in Conns /\ conn[t] \in Held
    BY <1>1, HeldIsTyped DEF CoreInv, Holding
  <2>3. Len(idle') = Len(idle) + 1 /\ Len(idle) \in Nat
    BY <2>1, <2>2, AppendToInjective, SeqIsFunction DEF CoreInv, ConnTypeOK, HoldInv
  <2>4. user'[t] = "notify" /\ \A w \in Threads \ {t} : user'[w] = user[w]
    BY <2>1, EnterType DEF CoreInv, UserStates
  <2>5. t \notin Alert /\ Alert' = Alert \cup {t} /\ Wake' \subseteq Wake
    BY <1>1, <2>4 DEF Alert, Wake
  <2>6. Cardinality(Alert') = Cardinality(Alert) + 1
    BY <2>5, AlertFinite, FS_AddElement
  <2> QED
    BY <1>1, <1>3, <2>3, <2>5, <2>6, AlertFinite DEF WakeInv
<1> QED
    BY <1>2, <1>3

LEMMA NotifyKeepsWake ==
    ASSUME CoreInv, ConnTypeOK', WakeInv, NEW t \in Threads, NotifyWaiter(t)
    PROVE  WakeInv'
<1>1. user[t] = "notify" /\ UNCHANGED <<opened, idle>> /\ opened # "new"
    BY DEF NotifyWaiter, WakeInv
<1>2. CASE Wake = {} /\ Enter(t, "out")
  <2>1. Wake' = {}
    BY <1>2, EnterType DEF Wake, CoreInv, UserStates
  <2> QED
    BY <1>1, <2>1 DEF WakeInv
<1>3. ASSUME NEW w \in Wake, user' = [user EXCEPT ![t] = "out", ![w] = "woken"] PROVE WakeInv'
  <2>1. w \in Threads /\ user[w] = "waiting" /\ w # t
    BY <1>1, <1>3 DEF Wake
  <2>2. user'[t] = "out" /\ user'[w] = "woken" /\ \A v \in Threads \ {t, w} : user'[v] = user[v]
    BY <1>3, <2>1 DEF CoreInv, ConnTypeOK
  <2>3. /\ t \in Alert /\ w \notin Alert \ {t} /\ Alert' = (Alert \ {t}) \cup {w}
        /\ Wake' \subseteq Wake
    BY <1>1, <2>1, <2>2 DEF Alert, Wake
  <2>4. IsFiniteSet(Alert \ {t}) /\ Cardinality(Alert \ {t}) = Cardinality(Alert) - 1
    BY <2>3, AlertFinite, FS_RemoveElement
  <2>5. Cardinality(Alert') = Cardinality(Alert \ {t}) + 1
    BY <2>3, <2>4, FS_AddElement, Zenon
  <2> QED
    BY <1>1, <2>3, <2>4, <2>5, AlertFinite DEF WakeInv
<1> QED
    BY <1>2, <1>3 DEF NotifyWaiter

-----------------------------------------------------------------------------
LEMMA ConnInvInit == ConnInit => ConnInv
<1> SUFFICES ASSUME ConnInit PROVE ConnInv
    OBVIOUS
<1>1. Held = {}
    BY DEF ConnInit, Held
<1>2. idle = <<>> /\ idle \in Seq(Conns) /\ Range(idle) = {} /\ IsInjective(idle)
    BY EmptyIsSeq DEF ConnInit, Range, IsInjective
<1>3. ConnTypeOK
    BY <1>2 DEF ConnInit, ConnTypeOK, UserStates
<1>4. HoldInv
    BY <1>1, <1>2 DEF ConnInit, HoldInv, Holding
<1>5. PhaseInv
    BY <1>1 DEF ConnInit, PhaseInv, IsClosed
<1>6. TxnInv
    BY DEF ConnInit, TxnInv
<1>7. WakeInv
    BY DEF ConnInit, WakeInv, Wake
<1> QED
    BY <1>3, <1>4, <1>5, <1>6, <1>7 DEF ConnInv, CoreInv

LEMMA CoreStep == CoreInv /\ [ConnNext]_connVars => CoreInv'
<1> SUFFICES ASSUME CoreInv, [ConnNext]_connVars PROVE CoreInv'
    OBVIOUS
<1>1. CASE UNCHANGED connVars
  <2>1. Held' = Held
    BY <1>1 DEF connVars, Held
  <2> QED
    BY <1>1, <2>1 DEF connVars, CoreInv, ConnTypeOK, HoldInv, PhaseInv, TxnInv, IsClosed
<1>2. CASE ConnNext
    BY <1>2, StartKeepsCore, CloseKeepsCore, AcquireKeepsCore, CheckKeepsCore, HandOutKeepsCore,
       TxnKeepsCore, ReleaseKeepsCore, NotifyKeepsCore, BreakKeepsCore
    DEF ConnNext, UserStep
<1> QED
    BY <1>1, <1>2

LEMMA WakeStep == CoreInv /\ WakeInv /\ [ConnNext]_connVars => WakeInv'
<1> SUFFICES ASSUME CoreInv, WakeInv, [ConnNext]_connVars PROVE WakeInv'
    OBVIOUS
<1>0. ConnTypeOK'
    BY CoreStep DEF CoreInv
<1>1. ASSUME UNCHANGED <<opened, idle, user>> PROVE WakeInv'
    BY <1>1 DEF WakeInv, Wake, Alert
<1>2. CASE StartPool
    BY <1>2 DEF StartPool, WakeInv, Wake
<1>3. CASE ClosePool
    BY <1>3, EmptyOwesNothing DEF ClosePool
<1>4. CASE CloseIdle
  <2>1. Wake' = {}
    BY <1>4 DEF CloseIdle, Wake
  <2> QED
    BY <1>4, <2>1 DEF CloseIdle, WakeInv
<1>5. ASSUME NEW t \in Threads, CheckLink(t) \/ HandOut(t) \/ BeginTxn(t)
             \/ EndTxn(t) \/ CommitRefused(t) \/ FinishUse(t)
      PROVE  WakeInv'
  <2>1. user[t] \in Holding /\ UNCHANGED <<opened, idle>>
    BY <1>5 DEF CheckLink, HandOut, BeginTxn, EndTxn, CommitRefused, FinishUse, Holding
  <2>2. \E state \in UserStates \ {"waiting"} : Enter(t, state)
    BY <1>5 DEF CheckLink, HandOut, BeginTxn, EndTxn, CommitRefused, FinishUse, UserStates
  <2> QED
    BY <1>0, <2>1, <2>2, HolderKeepsWake
<1>6. ASSUME NEW c \in Conns, LinkBreaks(c) PROVE WakeInv'
    BY <1>1, <1>6 DEF LinkBreaks
<1> QED
    BY <1>0, <1>1, <1>2, <1>3, <1>4, <1>5, <1>6, AcquireKeepsWake, ReleaseKeepsWake, NotifyKeepsWake
    DEF ConnNext, UserStep, connVars

LEMMA ConnInvStep == ConnInv /\ [ConnNext]_connVars => ConnInv'
BY CoreStep, WakeStep DEF ConnInv

\* No connection of MySqlPool or RedisPool is shared, queued twice or lost, and
\* close() leaves none connected, whenever it runs.
THEOREM NoConnectionIsLost == ConnSpec => []ConnectionsAccountedFor
<1>1. ConnInv => ConnectionsAccountedFor
    BY DEF ConnInv, CoreInv, HoldInv, PhaseInv, ConnectionsAccountedFor
<1> QED
    BY <1>1, ConnInvInit, ConnInvStep, PTL DEF ConnSpec

\* A released connection reaches a waiter: no timeout and no thread that comes
\* late swallows the notification of another.
THEOREM WaitersAreWoken == ConnSpec => []NoLostWakeup
<1>1. ConnInv => NoLostWakeup
  <2> SUFFICES ASSUME ConnInv, Wake # {}
               PROVE  /\ idle # <<>> => \E t \in Threads : user[t] \in {"notify", "woken"}
                      /\ opened # "closed"
    BY DEF NoLostWakeup
  <2>1. Len(idle) <= Cardinality(Alert) /\ opened # "closed"
    BY DEF ConnInv, WakeInv
  <2>2. ASSUME idle # <<>>, Alert = {} PROVE FALSE
    <3>1. Len(idle) \in Nat \ {0}
      BY <2>2, EmptyIsSeq DEF ConnInv, CoreInv, ConnTypeOK
    <3>2. Cardinality(Alert) = 0
      BY <2>2, FS_EmptySet
    <3> QED
      BY <2>1, <3>1, <3>2
  <2> QED
    BY <2>1, <2>2 DEF Alert
<1> QED
    BY <1>1, ConnInvInit, ConnInvStep, PTL DEF ConnSpec

\* What a guard hands out is connected, and a transaction still open on it is
\* one whose COMMIT the server refused: no other path of a DAO leaves one.
THEOREM HandedOutClean == ConnSpec => []OnlyRefusedIsInherited
<1>1. ConnInv => OnlyRefusedIsInherited
  <2> SUFFICES ASSUME ConnInv, NEW t \in Threads, user[t] = "using"
               PROVE  link[conn[t]] # "closed" /\ conn[t] \notin openTxn \ refused
    BY DEF OnlyRefusedIsInherited
  <2>1. conn[t] # None /\ \A w \in Threads : w # t => conn[w] # conn[t]
    BY DEF ConnInv, CoreInv, HoldInv, Holding
  <2> QED
    BY <2>1 DEF ConnInv, CoreInv, TxnInv
<1> QED
    BY <1>1, ConnInvInit, ConnInvStep, PTL DEF ConnSpec

-----------------------------------------------------------------------------
(* AccountService. *)

\* The attempts on a counter that were let in and have not been counted.
Uncounted(k) == {t \in Threads : attempt[t].pc \in {"verify", "record"} /\ LoginKey(t) = k}

\* Each of them may still count: together with what is counted they stay below
\* the limit and the number of threads.
LimitInv == \A k \in LoginKeys :
    failures[k] + Cardinality(Uncounted(k)) < MaxFailures + Cardinality(Threads)

\* The registration that is about to be answered is the one that was stored.
OwnerInv ==
    \A t \in Threads : attempt[t].pc = "reread" => accounts[attempt[t].name] = attempt[t].password

AccountInv == AccountTypeOK /\ LimitInv /\ OwnerInv /\ RegistrationHolds

-----------------------------------------------------------------------------
LEMMA AttemptIsTyped ==
    ASSUME AccountTypeOK, NEW t \in Threads, attempt[t].pc # "idle"
    PROVE  attempt[t] \in Attempts /\ LoginKey(t) \in LoginKeys
BY DEF AccountTypeOK, NoAttempt, Attempts, LoginKey, LoginKeys

LEMMA ProceedType ==
    ASSUME AccountTypeOK, NEW t \in Threads, attempt[t].pc # "idle",
           NEW pc \in {"allow", "verify", "record", "clear", "create", "reread"}, Proceed(t, pc)
    PROVE  /\ attempt' \in [Threads -> Attempts \cup {NoAttempt}]
           /\ attempt'[t].pc = pc /\ attempt'[t].name = attempt[t].name
           /\ attempt'[t].password = attempt[t].password /\ LoginKey(t)' = LoginKey(t)
           /\ \A u \in Threads \ {t} : attempt'[u] = attempt[u]
<1> DEFINE new == [attempt[t] EXCEPT !.pc = pc]
<1>1. attempt[t] \in Attempts
    BY AttemptIsTyped
<1>2. new \in Attempts /\ new.pc = pc /\ new.name = attempt[t].name
      /\ new.password = attempt[t].password /\ new.address = attempt[t].address
    BY <1>1 DEF Attempts
<1>3. attempt' = [attempt EXCEPT ![t] = new]
    BY DEF Proceed
<1>4. attempt'[t] = new
    BY <1>3 DEF AccountTypeOK
<1> QED
    BY <1>2, <1>3, <1>4 DEF AccountTypeOK, LoginKey

LEMMA DoneType ==
    ASSUME AccountTypeOK, NEW t \in Threads, Done(t)
    PROVE  /\ attempt' \in [Threads -> Attempts \cup {NoAttempt}]
           /\ attempt'[t].pc = "idle"
           /\ \A u \in Threads \ {t} : attempt'[u] = attempt[u]
BY DEF AccountTypeOK, Done, NoAttempt

\* The uncounted attempts are threads, so there are finitely many.
LEMMA UncountedFinite ==
    \A k : /\ IsFiniteSet(Uncounted(k)) /\ Cardinality(Uncounted(k)) \in Nat
           /\ Cardinality(Threads) \in Nat
           /\ Cardinality(Uncounted(k)) <= Cardinality(Threads)
<1> SUFFICES ASSUME NEW k
             PROVE  /\ IsFiniteSet(Uncounted(k)) /\ Cardinality(Uncounted(k)) \in Nat
                    /\ Cardinality(Threads) \in Nat
                    /\ Cardinality(Uncounted(k)) <= Cardinality(Threads)
    OBVIOUS
<1>1. Uncounted(k) \subseteq Threads /\ IsFiniteSet(Threads)
    BY AccountAssumption DEF Uncounted
<1> QED
    BY <1>1, FS_Subset, FS_CardinalityType

\* The same in the next state, and fewer attempts count for less.
LEMMA UncountedShrinks ==
    ASSUME NEW k, Uncounted(k)' \subseteq Uncounted(k)
    PROVE  Cardinality(Uncounted(k))' \in Nat /\ Cardinality(Uncounted(k))' <= Cardinality(Uncounted(k))
<1>1. IsFiniteSet(Uncounted(k))
    BY UncountedFinite
<1> QED
    BY <1>1, FS_Subset, FS_CardinalityType

LEMMA UncountedBelowThreads ==
    ASSUME NEW k
    PROVE  /\ Cardinality(Uncounted(k))' \in Nat /\ Cardinality(Threads) \in Nat
           /\ Cardinality(Uncounted(k))' <= Cardinality(Threads)
<1>1. Uncounted(k)' \subseteq Threads /\ IsFiniteSet(Threads)
    BY AccountAssumption DEF Uncounted
<1> QED
    BY <1>1, FS_Subset, FS_CardinalityType

-----------------------------------------------------------------------------
\* A step that lets nobody in and counts nothing keeps the limit.
LEMMA LimitKept ==
    ASSUME AccountTypeOK, LimitInv, AccountTypeOK',
           \A k \in LoginKeys : failures'[k] <= failures[k],
           \A k \in LoginKeys : Uncounted(k)' \subseteq Uncounted(k)
    PROVE  LimitInv'
<1> SUFFICES ASSUME NEW k \in LoginKeys
             PROVE  failures'[k] + Cardinality(Uncounted(k))' < MaxFailures + Cardinality(Threads)
    BY DEF LimitInv
<1>1. failures[k] \in Nat /\ failures'[k] \in Nat
    BY DEF AccountTypeOK
<1>2. failures[k] + Cardinality(Uncounted(k)) < MaxFailures + Cardinality(Threads)
    BY DEF LimitInv
<1> QED
    BY <1>1, <1>2, UncountedShrinks, UncountedFinite, AccountAssumption

\* Only Allow lets an attempt in, below the limit; only RecordFailure counts, and
\* what it counts is no longer uncounted.
LEMMA AllowKeepsLimit ==
    ASSUME AccountTypeOK, LimitInv, AccountTypeOK', NEW t \in Threads, Allow(t)
    PROVE  LimitInv'
<1>0. attempt[t].pc = "allow" /\ failures' = failures /\ LoginKey(t) \in LoginKeys
    BY AttemptIsTyped DEF Allow
<1>1. CASE Done(t)
    BY <1>0, <1>1, DoneType, LimitKept DEF Uncounted, LoginKey, AccountTypeOK
<1>2. CASE failures[LoginKey(t)] < MaxFailures /\ Proceed(t, "verify")
  <2> SUFFICES ASSUME NEW k \in LoginKeys
               PROVE  failures[k] + Cardinality(Uncounted(k))' < MaxFailures + Cardinality(Threads)
    BY <1>0 DEF LimitInv
  <2>1. CASE k = LoginKey(t)
    BY <1>2, <2>1, UncountedBelowThreads, AccountAssumption DEF AccountTypeOK
  <2>2. CASE k # LoginKey(t)
    <3>1. Uncounted(k)' \subseteq Uncounted(k)
      BY <1>0, <1>2, <2>2, ProceedType DEF Uncounted, LoginKey
    <3> QED
      BY <3>1, UncountedShrinks, UncountedFinite, AccountAssumption DEF LimitInv, AccountTypeOK
  <2> QED
    BY <2>1, <2>2
<1> QED
    BY <1>1, <1>2 DEF Allow

LEMMA RecordKeepsLimit ==
    ASSUME AccountTypeOK, LimitInv, AccountTypeOK', NEW t \in Threads, RecordFailure(t)
    PROVE  LimitInv'
<1>0. /\ attempt[t].pc = "record" /\ LoginKey(t) \in LoginKeys /\ Done(t)
      /\ failures' = [failures EXCEPT ![LoginKey(t)] = @ + 1]
    BY AttemptIsTyped DEF RecordFailure
<1> SUFFICES ASSUME NEW k \in LoginKeys
             PROVE  failures'[k] + Cardinality(Uncounted(k))' < MaxFailures + Cardinality(Threads)
    BY DEF LimitInv
<1>1. failures[k] + Cardinality(Uncounted(k)) < MaxFailures + Cardinality(Threads)
    BY DEF LimitInv
<1>2. CASE k = LoginKey(t)
  <2>1. t \in Uncounted(k) /\ Uncounted(k)' = Uncounted(k) \ {t}
    BY <1>0, <1>2, DoneType DEF Uncounted, LoginKey
  <2>2. Cardinality(Uncounted(k))' = Cardinality(Uncounted(k)) - 1
    BY <2>1, UncountedFinite, FS_RemoveElement, ZenonT(60)
  <2>3. failures'[k] = failures[k] + 1 /\ failures[k] \in Nat
    BY <1>0, <1>2 DEF AccountTypeOK
  <2> QED
    BY <1>1, <2>2, <2>3, UncountedFinite, AccountAssumption
<1>3. CASE k # LoginKey(t)
  <2>1. Uncounted(k)' \subseteq Uncounted(k)
    BY <1>0, <1>3, DoneType DEF Uncounted, LoginKey
  <2>2. failures'[k] = failures[k] /\ failures[k] \in Nat
    BY <1>0, <1>3 DEF AccountTypeOK
  <2> QED
    BY <1>1, <2>1, <2>2, UncountedShrinks, UncountedFinite, AccountAssumption
<1> QED
    BY <1>2, <1>3

-----------------------------------------------------------------------------
LEMMA AccountTypeStep == AccountTypeOK /\ [AccountNext]_accountVars => AccountTypeOK'
<1> SUFFICES ASSUME AccountTypeOK, [AccountNext]_accountVars PROVE AccountTypeOK'
    OBVIOUS
<1>1. CASE UNCHANGED accountVars
    BY <1>1 DEF accountVars, AccountTypeOK
<1>2. ASSUME NEW t \in Threads, BeginAttempt(t) \/ AttemptFails(t) PROVE AccountTypeOK'
    BY <1>2, DoneType DEF BeginAttempt, AttemptFails, AccountTypeOK
<1>3. ASSUME NEW t \in Threads, Allow(t) \/ Verify(t) PROVE AccountTypeOK'
    BY <1>3, DoneType, ProceedType DEF Allow, Verify, AccountTypeOK
<1>4. ASSUME NEW t \in Threads, RecordFailure(t) \/ ClearFailures(t) PROVE AccountTypeOK'
  <2>1. LoginKey(t) \in LoginKeys
    BY <1>4, AttemptIsTyped DEF RecordFailure, ClearFailures
  <2> QED
    BY <1>4, <2>1, DoneType DEF RecordFailure, ClearFailures, AccountTypeOK
<1>5. ASSUME NEW t \in Threads, CreateUser(t) \/ RereadUser(t) PROVE AccountTypeOK'
  <2>1. attempt[t] \in Attempts /\ attempt[t].pc # "idle"
    BY <1>5, AttemptIsTyped DEF CreateUser, RereadUser
  <2>2. attempt[t].name \in Names /\ attempt[t].password \in Passwords
    BY <2>1 DEF Attempts
  <2>3. attempt' \in [Threads -> Attempts \cup {NoAttempt}]
    BY <1>5, <2>1, DoneType, ProceedType DEF CreateUser, RereadUser
  <2> QED
    BY <1>5, <2>2, <2>3 DEF CreateUser, RereadUser, AccountTypeOK
<1>6. ASSUME NEW k \in LoginKeys, AgeCounter(k) \/ ExpireCounter(k) PROVE AccountTypeOK'
    BY <1>6 DEF AgeCounter, ExpireCounter, AccountTypeOK
<1> QED
    BY <1>1, <1>2, <1>3, <1>4, <1>5, <1>6 DEF AccountNext, AccountStep

LEMMA LimitStep == AccountTypeOK /\ LimitInv /\ [AccountNext]_accountVars => LimitInv'
<1> SUFFICES ASSUME AccountTypeOK, LimitInv, [AccountNext]_accountVars PROVE LimitInv'
    OBVIOUS
<1>0. AccountTypeOK'
    BY AccountTypeStep
<1>1. CASE UNCHANGED accountVars
    BY <1>0, <1>1, LimitKept DEF accountVars, Uncounted, LoginKey, AccountTypeOK
<1>2. ASSUME NEW t \in Threads, UNCHANGED failures,
             \A u \in Threads \ {t} : attempt'[u] = attempt[u],
             attempt'[t].pc \notin {"verify", "record"}
      PROVE  LimitInv'
    BY <1>0, <1>2, LimitKept DEF Uncounted, LoginKey, AccountTypeOK
<1>3. ASSUME NEW t \in Threads, BeginAttempt(t) PROVE LimitInv'
  <2>1. UNCHANGED failures /\ \A u \in Threads \ {t} : attempt'[u] = attempt[u]
    BY <1>3 DEF BeginAttempt, AccountTypeOK
  <2>2. attempt'[t].pc \in {"allow", "create"}
    BY <1>3 DEF BeginAttempt, AccountTypeOK
  <2> QED
    BY <1>2, <2>1, <2>2
<1>4. ASSUME NEW t \in Threads, CreateUser(t) \/ RereadUser(t) \/ AttemptFails(t) PROVE LimitInv'
    BY <1>2, <1>4, DoneType, ProceedType DEF CreateUser, RereadUser, AttemptFails
<1>5. ASSUME NEW t \in Threads, Verify(t) PROVE LimitInv'
  <2>1. attempt[t].pc = "verify" /\ failures' = failures
    BY <1>5 DEF Verify
  <2>2. \E pc \in {"clear", "record"} : Proceed(t, pc)
    BY <1>5 DEF Verify
  <2>3. \A k : Uncounted(k)' \subseteq Uncounted(k)
    BY <2>1, <2>2, ProceedType DEF Uncounted, LoginKey
  <2> QED
    BY <1>0, <2>1, <2>3, LimitKept DEF AccountTypeOK
<1>6. ASSUME NEW t \in Threads, ClearFailures(t) PROVE LimitInv'
  <2>1. \A k \in LoginKeys : failures'[k] <= failures[k]
    BY <1>6, AttemptIsTyped DEF ClearFailures, AccountTypeOK
  <2>2. \A k : Uncounted(k)' \subseteq Uncounted(k)
    BY <1>6, DoneType DEF ClearFailures, Uncounted, LoginKey
  <2> QED
    BY <1>0, <2>1, <2>2, LimitKept
<1>7. ASSUME NEW k \in LoginKeys, AgeCounter(k) \/ ExpireCounter(k) PROVE LimitInv'
  <2>1. \A q \in LoginKeys : failures'[q] <= failures[q]
    BY <1>7 DEF AgeCounter, ExpireCounter, AccountTypeOK
  <2>2. \A q : Uncounted(q)' \subseteq Uncounted(q)
    BY <1>7 DEF AgeCounter, ExpireCounter, Uncounted, LoginKey
  <2> QED
    BY <1>0, <2>1, <2>2, LimitKept
<1> QED
    BY <1>0, <1>1, <1>3, <1>4, <1>5, <1>6, <1>7, AllowKeepsLimit, RecordKeepsLimit
    DEF AccountNext, AccountStep

\* A name that is taken keeps its password.
LEMMA OwnerStep ==
    AccountTypeOK /\ OwnerInv /\ RegistrationHolds /\ [AccountNext]_accountVars
        => OwnerInv' /\ RegistrationHolds'
<1> SUFFICES ASSUME AccountTypeOK, OwnerInv, RegistrationHolds, [AccountNext]_accountVars
             PROVE  OwnerInv' /\ RegistrationHolds'
    OBVIOUS
<1>1. CASE UNCHANGED accountVars
    BY <1>1 DEF accountVars, OwnerInv, RegistrationHolds
<1>2. ASSUME NEW t \in Threads, UNCHANGED <<accounts, registered>>,
             \A u \in Threads \ {t} : attempt'[u] = attempt[u], attempt'[t].pc # "reread"
      PROVE  OwnerInv' /\ RegistrationHolds'
    BY <1>2 DEF OwnerInv, RegistrationHolds
<1>3. ASSUME NEW t \in Threads, BeginAttempt(t) PROVE OwnerInv' /\ RegistrationHolds'
  <2>1. /\ UNCHANGED <<accounts, registered>> /\ attempt'[t].pc \in {"allow", "create"}
        /\ \A u \in Threads \ {t} : attempt'[u] = attempt[u]
    BY <1>3 DEF BeginAttempt, AccountTypeOK
  <2> QED
    BY <1>2, <2>1
<1>4. ASSUME NEW t \in Threads,
             Allow(t) \/ Verify(t) \/ RecordFailure(t) \/ ClearFailures(t) \/ AttemptFails(t)
      PROVE  OwnerInv' /\ RegistrationHolds'
  <2>1. UNCHANGED <<accounts, registered>>
    BY <1>4 DEF Allow, Verify, RecordFailure, ClearFailures, AttemptFails
  <2>2. Done(t) \/ (attempt[t].pc # "idle" /\ \E pc \in {"verify", "clear", "record"} : Proceed(t, pc))
    BY <1>4 DEF Allow, Verify, RecordFailure, ClearFailures, AttemptFails
  <2> QED
    BY <1>2, <2>1, <2>2, DoneType, ProceedType
<1>5. ASSUME NEW t \in Threads, CreateUser(t) PROVE OwnerInv' /\ RegistrationHolds'
  <2>1. attempt[t] \in Attempts /\ attempt[t].pc # "idle" /\ registered' = registered
    BY <1>5, AttemptIsTyped DEF CreateUser
  <2>2. attempt[t].name \in Names /\ attempt[t].password \in Passwords
    BY <2>1, SMTT(20) DEF Attempts
  <2>3. CASE accounts[attempt[t].name] # None
    BY <1>2, <1>5, <2>1, <2>3, DoneType, ZenonT(30) DEF CreateUser
  <2>4. CASE accounts[attempt[t].name] = None
    <3>1. /\ accounts' = [accounts EXCEPT ![attempt[t].name] = attempt[t].password]
          /\ Proceed(t, "reread") \/ Done(t)
      BY <1>5, <2>4 DEF CreateUser
    <3>2. accounts'[attempt[t].name] = attempt[t].password
          /\ \A n \in Names : accounts[n] # None => accounts'[n] = accounts[n]
      BY <2>2, <2>4, <3>1 DEF AccountTypeOK
    <3>3. RegistrationHolds'
      BY <2>1, <3>2, AccountAssumption DEF RegistrationHolds, AccountTypeOK
    <3>4. ASSUME NEW u \in Threads \ {t}, attempt'[u].pc = "reread"
          PROVE  accounts'[attempt'[u].name] = attempt'[u].password
      <4>1. attempt'[u] = attempt[u]
        BY <2>1, <3>1, DoneType, ProceedType
      <4>2. attempt[u].name \in Names /\ attempt[u].password \in Passwords
        BY <3>4, <4>1, AttemptIsTyped DEF Attempts
      <4> QED
        BY <3>2, <3>4, <4>1, <4>2, AccountAssumption DEF OwnerInv
    <3>5. attempt'[t].pc = "reread" => accounts'[attempt'[t].name] = attempt'[t].password
      BY <2>1, <3>1, <3>2, DoneType, ProceedType
    <3> QED
      BY <3>3, <3>4, <3>5 DEF OwnerInv
  <2> QED
    BY <2>3, <2>4
<1>6. ASSUME NEW t \in Threads, RereadUser(t) PROVE OwnerInv' /\ RegistrationHolds'
  <2>1. /\ accounts' = accounts /\ Done(t)
        /\ registered' = registered \cup {<<attempt[t].name, attempt[t].password>>}
        /\ accounts[attempt[t].name] = attempt[t].password
    BY <1>6 DEF RereadUser, OwnerInv
  <2>2. OwnerInv'
    BY <2>1, DoneType DEF OwnerInv
  <2> QED
    BY <2>1, <2>2 DEF RegistrationHolds
<1>7. ASSUME NEW k \in LoginKeys, AgeCounter(k) \/ ExpireCounter(k)
      PROVE  OwnerInv' /\ RegistrationHolds'
    BY <1>7 DEF AgeCounter, ExpireCounter, OwnerInv, RegistrationHolds
<1> QED
    BY <1>1, <1>3, <1>4, <1>5, <1>6, <1>7 DEF AccountNext, AccountStep

-----------------------------------------------------------------------------
LEMMA AccountInvInit == AccountInit => AccountInv
<1> SUFFICES ASSUME AccountInit PROVE AccountInv
    OBVIOUS
<1>1. AccountTypeOK
    BY DEF AccountInit, AccountTypeOK
<1>2. \A k \in LoginKeys : failures[k] = 0
    BY DEF AccountInit
<1>3. LimitInv
    BY <1>2, UncountedFinite, AccountAssumption DEF LimitInv
<1>4. OwnerInv /\ RegistrationHolds
    BY DEF AccountInit, OwnerInv, RegistrationHolds, NoAttempt
<1> QED
    BY <1>1, <1>3, <1>4 DEF AccountInv

LEMMA AccountInvStep == AccountInv /\ [AccountNext]_accountVars => AccountInv'
BY AccountTypeStep, LimitStep, OwnerStep DEF AccountInv

\* The login limiter lets a counter pass its maximum by fewer than the number of
\* business threads, though it is read and incremented by separate commands.
THEOREM LimiterOverrunBounded == AccountSpec => []FailuresBounded
<1>1. AccountInv => FailuresBounded
  <2> SUFFICES ASSUME AccountInv, NEW k \in LoginKeys
               PROVE  failures[k] < MaxFailures + Cardinality(Threads)
    BY DEF FailuresBounded
  <2> QED
    BY UncountedFinite, AccountAssumption DEF AccountInv, LimitInv, AccountTypeOK
<1> QED
    BY <1>1, AccountInvInit, AccountInvStep, PTL DEF AccountSpec

\* A registration that was answered with OK keeps its name and password, however
\* many of the same name ran at once: the unique index decides, and the record
\* read back is the one that was inserted.
THEOREM RegistrationIsKept == AccountSpec => []RegistrationHolds
<1>1. AccountInv => RegistrationHolds
    BY DEF AccountInv
<1> QED
    BY <1>1, AccountInvInit, AccountInvStep, PTL DEF AccountSpec

=============================================================================
