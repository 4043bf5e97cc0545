# LiteIM: TLA+ models, model checking and proofs

This directory holds a verification development for LiteIM: TLA+ modules translated
from the C++ code of the server and its two clients, TLC configurations that check them
on small instances, and TLAPS proofs of the main properties for every instance.
`PROJECT.json` lists the components, the runs, the lines behind each definition,
the hazards and the theorems.

Paths below are relative to the repository root.

## 1. The system

| Part | State | Operations that change it |
| --- | --- | --- |
| `src/net` Session, TcpServer, EventLoop | per-connection state and buffers, session table, pending task queue | accept, read, `sendPacket`, `close`, close callback, idle sweep, stop |
| `src/concurrency/ThreadPool` | FIFO queue with a limit, stop flag | start, submit, worker loop, stop |
| `src/service/MessageRouter` | none | parse, run the handler on a business thread, answer |
| `src/service/SessionManager` | `users_` and `sessions_` under one mutex | bind, unbind, the two lookups (both erase dead bindings) |
| `src/service/OnlineService`, `src/cache/OnlineStatusCache` | Redis key `online:user:<id>` with a TTL | SETEX at login, EXPIRE at heartbeat, DEL at unbind |
| `src/service/AuthService`, `src/cache/LoginRateLimiter` | users; a Redis counter per name and address | register, login, count a failure, clear |
| `src/service/ChatService` | none of its own | private message (first or retried), delivery ACK |
| `src/service/OfflineMessageService` | none of its own | pull a page, ACK a set of messages |
| `src/service` Friend, Group, History | none of their own | friend requests, groups, fan-out, history pages |
| `src/storage` | MySQL: messages, offline messages, deliveries, friends, groups, users | one transaction or statement per call |
| `MySqlPool`, `RedisPool` | idle connections, closed flag | acquire with timeout, release, close |
| `src/timer`, `src/protocol`, `src/net/Buffer` | timer heap, decoder, byte buffer | add, cancel, fire; encode, feed, retrieve |
| `client_qt`, `client_cli` | connection, pending requests, chat page; socket and three threads | connect, send, receive, reconnect, quit |

How they interact: an I/O loop decodes packets of its sessions; the router hands
each request to the business pool; handlers run on any worker, call the services,
and answer with `sendPacket`, which queues the bytes on the session's own loop. When
a session closes, the loop's close callback submits `unbindSession` to the pool.

What makes this hard:

- **Nothing serialises requests.** Two requests of one session, or of one user on two
  sessions, run on two workers and interleave between any two critical sections,
  Redis commands or transactions.
- **Three stores, no common transaction.** The login table, Redis and MySQL are
  written one after the other, and each write can fail.
- **Sessions close at any time**, between the test of `closed()` and the use of
  the answer. `sendPacket` answers OK when the bytes are queued, not when they
  are written.
- **Senders retry** and servers restart, so every effect must survive being
  attempted twice.
- **Shutdown crosses every thread.** The main thread, the I/O loops and the workers
  end one after the other while connections, closes and cleanups are under way.

## 2. Modules

| Module | Models |
| --- | --- |
| `SessionManager` | the two maps; one operator per critical section of `SessionManager.cpp` |
| `OnlineService` | login, logout, heartbeat, close cleanup and the Redis key |
| `LoginRegistry` | abstract: one binding per user, newest wins, displaced sessions close |
| `PrivateDelivery` | private messages of one sender to one receiver |
| `AccountService` | registration, the password check and the login limiter |
| `FriendService` | friend requests, statement by statement, with InnoDB's row locks |
| `GroupService` | groups and the fan-out of a group message |
| `History` | conversation ids and paging back through a growing log |
| `ThreadPool` | the business pool: queue, condition variable, stop and restart |
| `ConnectionPool` | `MySqlPool` and `RedisPool`, which are the same code |
| `Reactor` | main, the I/O loops, the session table and the shutdown |
| `SessionOutput` | output buffer, EPOLLOUT, event dispatch and close of one session |
| `Timers` | `TimerHeap` and `TimerManager` on one loop |
| `Wire` | TLV and packet codec, `Buffer`, `FrameDecoder` |
| `QtClient` | the Qt client's connection, requests, chat page and conversation list |
| `CliClient` | the three threads of the command line client |
| `Business` | the constants that handlers share: threads, storage faults |
| `OnlineServiceProofs`, `PrivateDeliveryProofs`, `GroupServiceProofs`, `WireProofs` | proofs about the module they are named after |
| `ServiceProofs` | proofs about `FriendService` and `History` |
| `StorageProofs` | proofs about `ConnectionPool` and `AccountService` |
| `RuntimeProofs` | proofs about `ThreadPool`, `Reactor`, `Timers` and `SessionOutput` |
| `ClientProofs` | proofs about `CliClient` and `QtClient` |
| `MC*` | instances for TLC |

Definitions named "Variant" are deliberate mistakes (a dropped guard, a forgotten
step) that show each property able to fail. No specification uses them.

`MCRuntime` and `MCServices` put several components that share no state into one
run. `focus`, chosen in the initial state, names the component that moves; the others
stay in their initial states. The run is therefore the union of the components' state
spaces, not their product, and a counterexample is a behaviour of one component.
Each of those components has its own `XSpec`, which the proofs use.

### OnlineService

State: `conn` is the connection state of a session (`closing` lies between the
first statement of `closeInLoop`, which sets `closed_`, and the close callback);
`users` and `sessions` are the two maps; `online` is the Redis key of each user
with a TTL that is fresh or aged; `task[t]` is the position of business thread `t`
in its handler; `closing` are the `close()` calls queued on I/O loops; `cleanup` the
`unbindSession` tasks in the pool. `displaced` and `orphans` are history variables: no
guard reads them.

| Code | Actions |
| --- | --- |
| `AuthService::handleLogin`, `OnlineService::bindUser` | `BeginLogin`, `LoginLookup`, `SetUserOnline`, `BindCheck`, `BindRefused`, `BindUser`, `CloseOld`, `Rollback` |
| `handleLogout`, `unbindSession`, `unbindUser` | `BeginLogout`, `UnbindUser`, `SetUserOffline` |
| `HeartbeatService`, `refreshUserOnline` | `BeginHeartbeat`, `RefreshCheck`, `RefreshUserOnline` |
| `Session::closeInLoop`, the close callback of `main.cpp` | `CloseInLoop`, `CloseCallback`, `BeginCleanup` |
| lookups by other handlers | `LookupSession`, `LookupUser` |
| Redis time | `Age`, `Expire` |

A step is the code from one critical section or Redis command to the next. A Redis
error may or may not have been applied. The pool may refuse the cleanup. A
`weak_ptr` in the table expires only after its session has closed, because
TcpServer holds the owning pointer until the close callback; "expired or closed" is
therefore `Closed(s)`. Session ids are never reused.

### PrivateDelivery

State: `stored`, `offline`, `rowId`, `lastId` and `delivery` are the three MySQL
tables for this conversation; `unread` is the Redis counter; `online` says that the
receiver has a live, bound session; `wire` are pushes queued to that session;
`task[t]` is the handler of thread `t`, with the session it looked up earlier
(`peer`: live until that session closes, then dead); `inbox` is what the client
has. `accepted`, `lost` and `counted` are history variables.

| Code | Actions |
| --- | --- |
| `ChatService::handlePrivateMessage` | `SendMessage`, `SaveNew`, `SaveDuplicate`, `SaveUnknown`, `StorageError`, `CheckDelivered`, `RetryLookup` |
| `pushPrivateOrFallback`, `Session::sendPacket` | `PushQueued`, `PushRefused` |
| `ensureOfflineFallback` | `FallbackInserted`, `FallbackExists`, `FallbackUnknown`, `IncrementUnread` |
| `handleDeliveryAck` | `DeliveryAck` |
| `OfflineMessageService` | `PullOffline`, `OfflineAck`, `AckUnknown`, `ClearUnread` |
| connection, process | `Login`, `Disconnect`, `ReceivePush`, `Crash` |

Each MySQL transaction is one step, since the code runs it on one connection and rolls
back on every error but that of COMMIT. The `Unknown` actions are a COMMIT that answers
with an error though it was applied. A COMMIT that fails and leaves its transaction open is
the subject of `ConnectionPool` and `FriendService`, not of this module (section 7). `TooLarge` are messages whose packet alone exceeds
the high water mark. Message text, friendship and request validation are left out: a
request here is one that passed them.

### AccountService

`accounts` are the users with their passwords (a hash is the password it was made
from), `failures` and its TTL the Redis counter of a name and an address, `attempt[t]` the
position of a thread. The limiter is read in `Allow`, the password compared in `Verify`,
and the failure counted in `RecordFailure` or the counter deleted in `ClearFailures`.
`CreateUser` and `RereadUser` are the INSERT of a registration and the read after it.
`AttemptFails` is an error of MySQL or Redis at any of these. What follows a successful
check is `OnlineService`.

### FriendService

`requests` and `friendships` are committed rows; `rowLock` is the transaction that has a
row locked; `told` is the history of answers. Adding is three reads (`CheckFriends`,
`CheckExisting`, `CheckReverse`) and an INSERT, in no transaction. Accepting is
`AcceptRead`, then a transaction of `AcceptUpdate`, `InsertFirst`, `InsertSecond` and
`CommitAccept`; rejecting is one conditional UPDATE. A write waits for the lock of another
transaction, times out (`FriendFails`), or is the victim of a deadlock
(`DeadlockVictim`): two crossed requests that are accepted at once lock each other's
friendship rows in opposite order.

The DAO does not roll back after a COMMIT that failed. When the server refused it on a
connection that lives (`AcceptRefused`), the transaction stays open on that connection, with
its row locks; `leftover[t]` holds what it wrote, `t` standing for the connection. Then a
START TRANSACTION commits it (`BeginAccept`), a later single statement joins it
(`JoinWrite`) and is committed or lost with it, reads may see an old snapshot (`MaySee`),
and the end of the connection rolls it back (`ConnectionLost`). An OK given for a statement
that joined is not in `told`: its row goes if the connection ends.

### GroupService

`sending[t]` is a fan-out: `ReadMembers`, one `LookupMember` per member, `SaveGroupMessage`
(the message and the offline rows in one transaction), `CountUnread`, one `PushToMember`
per member found online, `RespondToSender`. Users join, log in and disconnect between any
two of them. A failed push ends the handler with an error, as in the code: later members
get neither a push nor an offline row, and the sender is told so. `RemoveGroupMember` is
an operation of the storage that no handler calls yet.

### History

The log grows by INSERTs whose ids are visible only after their COMMIT, so rows appear
out of order. `pager` is a user who opens a conversation with the number the
client computes (`ClientConversationId`), is authorised from that number alone
(`DecodePrivateConversationId`) and pages back to the end. `Base` and `Word` stand for
10000 and 2^32: the instance has ids below, at and above the base.

### ThreadPool and ConnectionPool

A critical section of the mutex is one step; `notify_one` and `notify_all` come after
the unlock and are steps of their own, lost when nobody waits. Workers may wake
spuriously. `ThreadPool` has stop() by several callers and by a task, a restart, and a
start() that fails half-way: it wakes and joins the threads it created and clears the queue
(`giveUp`, `clear`). In `ConnectionPool` a thread is where `user[t]` says:
waiting, woken, checking the connection outside the mutex, testing for close() again,
using it, in a transaction, giving it back, or about to notify. Links break at any
time. `openTxn` are the connections with a transaction open, which stays until someone ends
it. `EndTxn` is a COMMIT, or the ROLLBACK after an error before it; `CommitRefused` is a
COMMIT that fails on a live connection, after which no DAO rolls back and the pool does not
either. `refused` remembers those, until the next START TRANSACTION commits what was open.

### Reactor

`loop[l]` has the position of an I/O thread (in a batch of tasks, in epoll_wait, in
its events, or gone), its pending queue, the batch taken from it, the eventfd and
quit_. `main` follows `server/main.cpp`: serving, stopping, closing (sweep, then quit
and join each loop), draining (`business_pool.stop()`), done (the stores are closed).
The business pool appears by what `ThreadPool` guarantees: a bounded number of accepted
jobs, all of them run. A job that posts to a loop whose thread has ended touches
freed memory; the model lets it do nothing or end the process ("crashed"). Equal requests
of a session count once in `jobs`. `epoll_wait` interrupted by a signal is left out:
signals are blocked and read from a signalfd.

### SessionOutput, Timers, Wire

`SessionOutput` counts units of output instead of keeping bytes, and dispatches an event to
the callbacks in `Channel`'s order, also after one of them has closed the session. A packet
is sent by another thread, through the loop's queue (`SendPacket`, `RunSend`), or by the
loop itself inside the read callback (`SendPacketInLoop`). The module
assumes that a failed write returns an error; nothing under `src/` sets the
disposition of SIGPIPE. In `Timers` the heap is a set with the order as an operator, and
lazy deletion is kept: `cancel` leaves a stale entry. `Wire` keeps the bytes; each
fixed-width number is one unit.

### QtClient and CliClient

The Qt client runs on one thread, and a signal calls its slots at once, so an event and all
it triggers is one action, written with functions from client to client that carry the
names of the methods. `stale` remembers that the decoder holds something of an
earlier connection: from then on a decoded packet may carry the number of any pending
request, whether that was sent on this connection or not. A request that `ChatController` refuses
before it takes a number, or that the codec cannot encode, fails without being sent. The command line client has three threads over one blocking socket;
a send holds `socket_mutex_` until its last byte is written. A write to a connection the
server has closed fails or kills the process with SIGPIPE.

## 3. Runs

| Run | Instance | Checks |
| --- | --- | --- |
| `online_safety` | 2 users, 2 sessions, 2 threads, all faults | table consistency, kicks, cleanups, lost bindings |
| `online_liveness` | 1 user, 2 sessions, 2 threads, all faults, fairness | dead bindings go, keys of absent users expire, refinement of `LoginRegistry` |
| `online_serial` | 2 users, 3 sessions, 1 thread, cleanup may be refused | Redis and the table agree when no handler runs |
| `online_login_race` | 1 user, 2 sessions, 2 threads, no faults | violated: that agreement with two threads |
| `online_unbind_race` | same | violated: a late unbind leaves the new session's key alone |
| `delivery_safety` | 2 messages (one too large), 2 threads, page of 1, all faults | delivery state, rows, reachability, unread counting |
| `delivery_liveness` | 2 messages, 1 thread, page of 1, all faults, fairness | every pending message is delivered in the end |
| `delivery_retry_race` | 1 message, 2 threads, no faults | violated: a delivered message is never queued again |
| `runtime` | six components, see below, fairness | nothing accepted is lost, every wait ends |
| `services` | six components, see below, storage faults | accounting, answers, streams, pages |
| `server_stop` | 1 I/O loop, 2 connections | violated: `server.stop()` leaves no session open |
| `pool_commit` | 1 connection, 2 threads | violated: a connection comes from the pool without a transaction |

`runtime` has, one at a time: `ThreadPool` (2 workers, 2 callers, a queue of 2, 3 tasks, 2
starts), `AccountService` (2 threads, one name, two passwords, maximum 2), `Timers` (3
timers, time 0 to 2), `Reactor` (1 loop, 2 connections, 1 request, 1 job),
`SessionOutput` (packets below and above a mark of 4, a socket that takes 2) and
`CliClient` (packets of 2 pieces, a socket that takes 1). It checks:

| Property | Shows |
| --- | --- |
| `StopDrains`, `AcceptedIsRun`, `StopReturns` | accepted tasks run in order, none is left by stop(), and stop() returns |
| `FailuresBounded`, `LockoutEnds` | the limiter is overrun by less than the number of threads, and a lockout ends |
| `FiresAsScheduled`, `TimerFires` | timers fire once, in order, not after a cancel, and do fire |
| `CleanupsPrecedeClose`, `ExpiredIsClosed`, `ShutdownEnds` | cleanups meet open stores, an idle session is closed, the shutdown ends |
| `OutputDrains` | EPOLLOUT stays enabled while there is output |
| `FramesWhole`, `QuitEnds` | the CLI's packets never mix, and it ends when told to |

`services` has: `ConnectionPool` (2 connections, 3 threads), `FriendService` (2 users, 3
threads), `GroupService` (3 users, 3 threads, 3 logins), `Wire` (2 packets of 5 kinds, a
buffer of 3), `History` (4 users around the base, 2 messages) and `QtClient` (2 chats, 3
requests, 3 connections). It checks:

| Property | Shows |
| --- | --- |
| `ConnectionsAccountedFor`, `NoLostWakeup`, `OnlyRefusedIsInherited` | no connection is lost or shared, no waiter forgotten, no transaction inherited but one whose COMMIT was refused |
| `FriendsIffAccepted`, `AnswerStaysTrue` | friendship is mutual and follows from an accepted request; answers stay true |
| `OkReachesEveryMember`, `OneChannelPerMember` | an OK means every member was reached, and by one way only |
| `ReceivedIsSent` | any cut of the stream gives the packets that were sent |
| `PagingIsComplete`, `HistoryForMembers` | pages lose and repeat nothing; ids decode to the right users |
| `OnlineMeansConnected`, `PageShowsOpenChat` | the client's status and page match its connection and open chat |

Why the bounds are enough to be interesting: two threads give every pairwise
interleaving of handlers, two sessions a displaced and a displacing one, two
users a session contested by both. `online_serial` has a third session, so that a
session which displaced another is displaced itself. Two messages and a page
of one are the smallest instance in which a page can hide a row. Three threads and two
connections make one wait while two release, though never two wait at once (the theorem
`WaitersAreWoken` is for any number); a queue of two with three tasks can be full
and still be drained; a pool of one job refuses the second cleanup. A timer can be
cancelled under another one in the heap, a packet is larger than the socket's room
and than the buffer. One I/O loop is enough for the races of main with a loop; that loops
are joined one after the other is covered by the theorem, which is for any number. The
other bounds (`MaxTasks`, `MaxSends`, `MaxCommands` and so on) only cut behaviours short.

`online_safety`, `online_serial`, `delivery_safety` and `services` use symmetry; the
runs with liveness do not. Deadlock is checked in the runs of `OnlineService` and
`PrivateDelivery`. The other runs have it off, because their components do stop: a pool
is closed, a server is done, a client has exited, or a bounded input is used up.

### The disagreements

- **`online_login_race`.** `bindUser` writes Redis and then the table without a
  lock over both. Two logins of one user can write them in opposite orders, and
  Redis then names the kicked session. `docs/tutorials/step32_session_manager_online_service.md:536`
  says both point to the newest session.
- **`online_unbind_race`.** `unbindUser` removes the binding under the mutex and
  issues an unconditional DEL after it. A login in between loses its new key.
  `docs/process/progress.md:1258` says a late unbind does not delete it.
- **`delivery_retry_race`.** A retry reads the delivery status and pushes or stores
  in a later step. An ACK in between lets a delivered message be queued again.
  `docs/tutorials/step54_client_message_idempotency.md:160` says it is not.
- **`server_stop`.** A session that passes the test of `started_` before the stop enters
  the table after it was swept, and a close queued behind the last `doPendingTasks` is
  dropped with the loop. `docs/tutorials/step19_signalfd.md:385` says that `server.stop()`
  closes the sessions. The process exits afterwards, so what is lost is the close callback,
  and with it the cleanup of the Redis key, which the TTL makes up for.
- **`pool_commit`.** Every failure before a COMMIT is rolled back; that of the COMMIT itself is
  returned as it is. On a connection that lives the transaction stays open, and the pool
  hands it to the next thread. `docs/tutorials/step31_storage_cache_adapters.md:246` says
  that a failure of any step is rolled back. What the code does keep is
  `OnlyRefusedIsInherited`.

After either login race the friend list, which reads the key, is wrong until the next
login: EXPIRE never creates a key, so a heartbeat does not bring a deleted one back.
Messages are not affected, because the services find sessions through the table.
After the retry race the client gets a message twice; it is not counted as unread
twice and its delivery state does not go back (`NoDoubleUnread`,
`DeliveryNeverRegresses`).

### Met while modelling

These follow from the models; no document of the repository says otherwise, and no
property is about them.

- Qt client: `connectToHost` resets the decoder only when it aborts a socket in use, so after
  a remote close the next connection starts with the old bytes or the old error;
  `ClientSession::reset()` has no caller, so requests of a lost connection stay pending.
- Qt client: a remote close during a login or registration leaves `busy_` set, so both
  buttons stay disabled; a status goes to the latest bubble that is sending, which mixes
  up two outstanding messages; a failed send is reported twice; a late history of another
  conversation empties the page; after a reconnect the client does not log in again; a
  conversation made by a push has no target id, so a reply in it stays at "Sending".
- Command line client: when the server closes while main waits in `getline`, main
  notices only after the next line.
- Friend requests after a refused COMMIT: an accept that was answered with an error may be
  committed by a later handler on the same connection, and an add or reject on it that was
  answered with OK is lost when the connection ends first. Until then the rows stay locked.
- Login table: a session that closes between the test of `closed()` and the lock of `bind`,
  or whose cleanup the full pool refuses, leaves a binding nobody removes (`orphans`) until a
  lookup or the user's next login erases it. `DeadBindingHasOwner` and `DeadBindingCleaned`
  except these; `UserGoneKeyExpires` does not.
- Thread pool: a stop() that waits for `stop_mutex_` while another thread restarts the pool
  joins the new workers, which is why `StopReturns` excepts a restart.

## 4. Fairness

- A worker that has begun a handler finishes it (weak fairness of its steps): every
  blocking call of a handler returns with a result or an error.
- An I/O loop runs what is queued on it, dispatches what epoll reports and finishes a
  `closeInLoop`. A loop with nothing to report sleeps: it is owed a step only when its
  eventfd was written.
- The pool's queue is first in, first out, so a task in it is taken however many
  requests compete: strong fairness of `BeginCleanup`, and of the handling of
  the client's ACK in `PrivateDelivery`.
- Redis time and the clock pass; the timerfd expires again and again.
- In `PrivateDelivery` the client, while it is connected, pulls and acknowledges
  repeatedly. `PendingIsDelivered` is stated for a client that in the end stays connected.
- In `ThreadPool` a thread inside submit() or stop() goes on and a task ends. `stop_mutex_`
  is not withheld from one caller for ever: strong fairness of `BeginJoin`.
- In `Reactor` main goes on once it stops; the signal itself is not owed.
- In `SessionOutput` the peer keeps reading. A peer that does not is the idle sweep's.
- In `CliClient` the server reads while it is up: without that, a blocked write keeps
  `socket_mutex_`, and `close()` would wait for it.

No client request, line of input, connect or disconnect is otherwise owed. The fairness
of the components in `MCRuntime` is its `RuntimeFairness`, each conjunct for the component
that moves.

## 5. Proofs

The theorems hold for any sets of users, sessions, threads, connections and messages and
any limits. They assume only the named assumptions of the modules: `None` is no member
of the sets it is used beside, fault switches are Booleans, `TooLarge` is a set of
messages, limits are natural numbers (positive where zero makes no sense), and, where
threads or connections are counted, that they are finitely many. `History` also assumes
that the square of the base of a private conversation id fits a word, `Wire` that a body is
a list of fields with a type and bytes. One theorem has assumptions of its own
(`SerialKeysAgree`, below).

Every safety invariant and every action property that a passing run checks is also a theorem.

### Online sessions: OnlineServiceProofs

`Inv` (types and `BindingsConsistent`) is inductive by itself. `IInv` adds three parts:
`Connected` (only sessions that have connected are bound, await a cleanup or are named by a
handler), `KickIsNeverLost` and `DeadBindingHasOwner`. `Connected` is needed because the
last two speak about sessions a handler remembers from an earlier step. From it follow
`TypeCorrect`, `TableConsistent`, `SessionKeepsUser`, `KickNeverLost`, `DeadBindingOwned`,
`LossJustified`, and `RefinesRegistry`: each step is a step of `LoginRegistry` or
leaves its variables unchanged (the safety part of the refinement).

`SerialKeysAgree` is about one worker and a Redis that does not fail: then
`QuiescentAgreement` holds for any users and sessions. `SerialInv` says that the key names
the session of the table unless a login is between its write to Redis and its write to the
table (`KeyNamesSession`), and that it then names that login's session (`KeyNamesLogin`).
Both assumptions are needed. With two workers the property fails (`online_login_race`). A
SETEX that took effect but was reported as failed leaves the key of a login that is not bound.

### Private messages: PrivateDeliveryProofs

The inductive invariant has three parts. `DeliveryInv`
is the types, `DeliveredMeansReceived` and `RowsAgree`. `CountInv` says what a handler
past its save may rely on (`HandlersKnow`: its message is stored, and one about to be
counted has a row and has not been counted), that only one handler is about to count a
message (`OneCounter`) and that a counted message has a row (`CountedHasRow`): this is
what makes `NoDoubleUnread` hold under retries. The third is
`AcceptedIsReachable`. Each has one preservation lemma with a case per action.

### Groups: GroupServiceProofs

`GroupInv` says that a message has one handler, that a
handler's members still to be looked up, found online and found offline are disjoint, and
that those pushed to, those still to be pushed to and the rows together cover the
audience of the saved message. `FanOutIsComplete` is that cover when nobody is left;
`NobodyGetsItTwice` is the disjointness.

### Friends and history: ServiceProofs

`FriendInv` adds to the types two facts about locks. An accept past its UPDATE
holds the lock of the request's row, which is still pending (`AcceptHoldsRow`): that is why
the COMMIT may set the row to accepted without looking again, and why two accepts or an
accept and a reject of one request exclude each other. A transaction left open holds the
locks of the requests it wrote, which nobody has answered, and an accept begins with none left
open (`LeftoverHoldsRows`): that is why the old transaction may be committed at any later time
without undoing an answer. `FriendshipIsMutual`, `AnswersAreFinal` and
`NoLockOutlivesHandler` follow, each with a case per action; the last excepts the
connections with a transaction left open, on which the rows do stay locked.

`HistoryInv` says of the pager that what it got is descending, lies in the conversation and
at or above the smallest id so far, and holds every message of the beginning from that id on
(`GotIsSuffix`); and that nothing was read without authorization (`PagerIsAuthorized`). A
page adds the newest messages below the smallest id, so messages that commit meanwhile,
even with a smaller id than one already shown, leave no gap in what was there at the
beginning: `PagingGivesEveryMessage`. `HistoryReachesItsMembers` is the arithmetic of the
ids: quotient and remainder give back the two users whose ids made the number.

### Pools and accounts: StorageProofs

`CoreInv` says which connection a thread has in which
phase, that connections are with one owner, and on which a transaction may be open.
`WakeInv` counts: as long as somebody waits, there are no more idle connections than threads
about to notify or woken. `NoConnectionIsLost`, `WaitersAreWoken` and `HandedOutClean`
(a transaction open on a connection that is not in one is a refused one) follow. The count is needed because two releases may come before the first notification:
"somebody is on the way" alone is not preserved when that one takes a single connection.

`LimiterOverrunBounded`: the bound on the failures is not inductive; what is, is that the
failures and the attempts that were let in and are not counted yet are together less
than the maximum plus the number of threads (`LimitInv`). Passing `Allow` adds an attempt
when failures are below the maximum; counting moves one from the second number to
the first. `RegistrationIsKept` needs to know what a registration past its INSERT owns.

### Threads, loops, timers, output: RuntimeProofs

`NothingAcceptedIsLost`: a worker leaves only when the queue is empty
and closed (`DrainInv`), and started tasks followed by queued ones are the accepted ones.

`CleanupsMeetOpenStores`: `ShutdownInv` ties main's place to the pools: past the business
pool's stop() nothing is submitted, and the stores are closed only when no job is left. A
job that runs is therefore proof that Redis is open.

`TimersFireAsScheduled`: every active timer is behind every fired one in the order of the
heap (`ActiveIsAhead`), whatever a callback adds, cancels or clears in the middle of
`popExpired`. A timer added meanwhile expires no earlier than now and has the
largest id, so it comes behind the ones that fired.

`OutputNeverStranded` and `ChannelOutlivesDispatch`: a session is in epoll exactly while it
is started, and its channel is alive until the reset that `closeInLoop` queues
(`ChannelFollowsLife`). Hence output left in the buffer is watched and below the high water
mark, and `handleEvent` never goes on with a channel that is gone. The first is the safety
half of `OutputDrains`. These two invariants appear in no run.

### Clients: ClientProofs

`PacketsNeverMix` (command line client): a thread writes exactly while it holds
`socket_mutex_` (`WriterHoldsMutex`), and what was written is whole packets except for the
last, whose pieces are the holder's (`OnlyLastIsPartial`).

`OnlineOnlyWhileConnected` and `PageNeverMixesChats` (Qt client): each handler is an operator
on the client's record, and one lemma per handler shows that it keeps `StatusHolds` and
`PageHolds`. The second needs that no history is outstanding before a conversation is open,
since `setMessages` would show it.

### The byte stream: WireProofs

`RoundTrip`: `parseTlvMap` returns the fields `appendString` encoded, for every list of
fields of legal lengths.

`StreamIsTransparent`: `StreamInv` says that there is a stream of all bytes sent, with a mark
at the end of each packet, and that decoder, socket and output buffer hold, in this order,
exactly the bytes behind the last packet handled; the decoder never holds a whole
packet between two steps. Writing and reading move bytes within this sequence, and `feed` cuts
it at the marks. The stream is not a variable of the model: it is a witness in
the invariant, as the code forgets the bytes it has handled.

The loops of the codec are recursive functions over an offset. The prover cannot instantiate
an induction theorem, so a statement about all offsets is proved by its least
counterexample (`LeastMember`, from the well-foundedness of `<`): of the places where it
fails, the one with the least left to read contradicts one step of the loop. The same argument
shows that the recursive definitions satisfy their equations (`RecursionHasSolution`).

## 6. Only model-checked

- Liveness, that is every `~>` property, `UserGoneKeyExpires`, `PendingIsDelivered` and
  the fairness part of `ImplementsRegistry`: out of the prover's reach.
- The five disagreements are counterexamples, not theorems.

The type invariants `TypeOK` of `OnlineService` and `PrivateDelivery` are proved
(`TypeCorrect`), and `LocksHaveOwner` and `RegistrationHolds` too; they appear in no
run.

## 7. Not modelled

- Descriptor exhaustion in `Acceptor`: what the idle descriptor achieves depends on every
  other user of descriptors in the process.
- Start-up: a sequence of constructors and `start` calls that returns at the first error,
  before any other thread runs. The start of the loop threads belongs to it.
- The late effect of a refused COMMIT on messages and groups: `PrivateDelivery` and
  `GroupService` take a transaction as one step on a connection that was handed out clean. A
  ROLLBACK that fails on a live connection is left out everywhere.
- Logging, configuration, wording of errors, request validation and password hashing:
  no state that a property tells apart.
- Thin wrappers of epoll, sockets, the MySQL and Redis client libraries; Qt widgets, whose
  enabled buttons are in the guards of `QtClient`; the load generator.
- Code without a caller: `OnlineStatusCache::getOnlineSession`,
  `OfflineMessageDao::markOfflineDelivered`, `FriendDao`'s `addFriendship` and
  `deleteFriendship`, and `ChatController`'s `addFriend`, `createGroup` and `joinGroup`.
- `isUserOnline` is read only for the friend list, which shows the online key's
  existence; that is where the effect of the two login races becomes visible.
- The unread counter is not compared with the number of pending rows: the code deletes
  the whole counter on an ACK and treats it as a hint. A delivery ACK leaves the offline
  row, so a delivered message may be pulled once more.
