------------------------------- MODULE CliClient -------------------------------
(***************************************************************************)
(* The command line client: the main thread reads lines and sends packets, *)
(* a heartbeat thread sends packets too, and a receiver thread reads.      *)
(* They share the flag running and a ProtocolClient, whose socket_mutex_   *)
(* guards the descriptor: a send holds it until the last byte is written,  *)
(* a read only while it copies the descriptor.  The socket is blocking.    *)
(*                                                                         *)
(* A packet is PacketParts pieces that write() may accept one at a time.   *)
(***************************************************************************)
EXTENDS Naturals, Sequences

CONSTANTS
    PacketParts,   \* pieces of an encoded packet
    SendRoom,      \* pieces that the socket's send buffer holds
    MaxCommands,   \* bound: packets that main and heartbeat send together
    MaxReplies     \* bound: packets that the server sends

ASSUME CliAssumption ==
    /\ PacketParts \in Nat \ {0} /\ SendRoom \in Nat \ {0}
    /\ MaxCommands \in Nat /\ MaxReplies \in Nat

VARIABLES
    running,    \* the atomic flag
    socket,     \* socket_: "none", "open", or "closed" by close()
    mutex,      \* holder of socket_mutex_, or "free"
    stage,      \* what each thread does next
    left,       \* pieces that each sender has still to write
    sentParts,  \* the sender of each piece that a live connection took
    unread,     \* pieces in the send buffer
    replies,    \* pieces of the server's packets that wait to be read
    server,     \* "up", or "gone" once it has closed the connection
    commands,   \* counts the packets sent
    answers     \* counts the packets received

cliVars == <<running, socket, mutex, stage, left, sentParts, unread, replies,
             server, commands, answers>>

Senders == {"main", "heartbeat"}
CliThreads == Senders \cup {"receiver"}

CliInit ==
    /\ running = TRUE /\ socket = "none" /\ mutex = "free"
    /\ stage = [main |-> "connect", heartbeat |-> "unborn", receiver |-> "unborn"]
    /\ left = [t \in Senders |-> 0] /\ sentParts = <<>> /\ unread = 0 /\ replies = 0
    /\ server = "up" /\ commands = 0 /\ answers = 0

GoTo(t, next) == stage' = [stage EXCEPT ![t] = next]

-----------------------------------------------------------------------------
\* connectTo, over every resolved address; main gives up if none answers, and
\* starts the two threads otherwise.
Connect ==
    /\ stage["main"] = "connect"
    /\ \/ GoTo("main", "exited") /\ UNCHANGED socket
       \/ /\ socket' = "open"
          /\ stage' = [t \in CliThreads |-> "loop"]
    /\ UNCHANGED <<running, mutex, left, sentParts, unread, replies, server, commands, answers>>

\* The test at the head of each thread's loop, and what follows it.
LoopTest(t) ==
    /\ stage[t] = "loop"
    /\ GoTo(t, IF running
               THEN CASE t = "main" -> "input" [] t = "heartbeat" -> "sleep" [] OTHER -> "copy"
               ELSE IF t = "main" THEN "close" ELSE "ended")
    /\ UNCHANGED <<running, socket, mutex, left, sentParts, unread, replies, server, commands, answers>>

\* What main may read; end of file counts as quit.
Lines == {"command", "help", "malformed", "quit"}

\* buildPacketFromLine: a known command with its arguments gives a packet, any
\* other line an error.
BuildPacketFromLine(line) == line = "command"

\* main has read a line: a command becomes a packet, help and a line that
\* buildPacketFromLine refuses go back to the loop, quit and end of file leave.
\* main does not look at running between getline and the send.
ReadLine(line) ==
    /\ stage["main"] = "input"
    /\ \/ /\ BuildPacketFromLine(line) /\ commands < MaxCommands
          /\ commands' = commands + 1 /\ GoTo("main", "lock") /\ UNCHANGED running
       \/ line \in {"help", "malformed"} /\ GoTo("main", "loop") /\ UNCHANGED <<running, commands>>
       \/ line = "quit" /\ GoTo("main", "close") /\ running' = FALSE /\ UNCHANGED commands
    /\ UNCHANGED <<socket, mutex, left, sentParts, unread, replies, server, answers>>

\* The heartbeat's sleep is over, or running was found FALSE during it.
EndSleep ==
    /\ stage["heartbeat"] = "sleep"
    /\ \/ ~running /\ GoTo("heartbeat", "ended") /\ UNCHANGED commands
       \/ /\ running /\ commands < MaxCommands
          /\ commands' = commands + 1 /\ GoTo("heartbeat", "lock")
    /\ UNCHANGED <<running, socket, mutex, left, sentParts, unread, replies, server, answers>>

\* Variant: sendPacket without socket_mutex_.
BeginSendUnlocked(t) ==
    /\ stage[t] = "lock" /\ socket = "open"
    /\ mutex' = t /\ left' = [left EXCEPT ![t] = PacketParts] /\ GoTo(t, "write")
    /\ UNCHANGED <<running, socket, sentParts, unread, replies, server, commands, answers>>

\* sendPacket: fail when encodePacket refuses, as it may what the user typed,
\* then lock, and fail unless there is a socket.
BeginSend(t) ==
    /\ stage[t] = "lock"
    /\ \/ /\ mutex = "free" /\ socket = "open"
          /\ mutex' = t /\ left' = [left EXCEPT ![t] = PacketParts] /\ GoTo(t, "write")
       \/ /\ t = "main" \/ (mutex = "free" /\ socket # "open")
          /\ GoTo(t, "failed") /\ UNCHANGED <<mutex, left>>
    /\ UNCHANGED <<running, socket, sentParts, unread, replies, server, commands, answers>>

\* writeAll: one write() that the socket accepts, until the packet is out.
WriteSome(t) ==
    /\ stage[t] = "write" /\ unread < SendRoom
    /\ unread' = unread + 1
    /\ sentParts' = IF server = "up" THEN Append(sentParts, t) ELSE sentParts
    /\ left' = [left EXCEPT ![t] = @ - 1]
    /\ \/ left[t] > 1 /\ UNCHANGED <<mutex, stage>>
       \/ left[t] = 1 /\ mutex' = "free" /\ GoTo(t, "loop")
    /\ UNCHANGED <<running, socket, replies, server, commands, answers>>

\* A write() to a connection the server has closed: an error, or SIGPIPE,
\* which nothing in the client ignores.
WriteFails(t) ==
    /\ stage[t] = "write" /\ server = "gone"
    /\ mutex' = "free" /\ left' = [left EXCEPT ![t] = 0]
    /\ GoTo(t, "failed") \/ stage' = [u \in CliThreads |-> "killed"]
    /\ UNCHANGED <<running, socket, sentParts, unread, replies, server, commands, answers>>

\* readPacket copies the descriptor under the mutex.
CopyFd ==
    /\ stage["receiver"] = "copy" /\ mutex = "free"
    /\ GoTo("receiver", IF socket = "open" THEN "header" ELSE "failed")
    /\ UNCHANGED <<running, socket, mutex, left, sentParts, unread, replies, server, commands, answers>>

\* read() of the header or of the body returns bytes; parseHeader may refuse.
ReadSome ==
    /\ stage["receiver"] \in {"header", "body"} /\ replies > 0 /\ socket = "open"
    /\ replies' = replies - 1
    /\ \/ stage["receiver"] = "header" /\ GoTo("receiver", "body")
       \/ stage["receiver"] = "header" /\ GoTo("receiver", "failed")
       \/ stage["receiver"] = "body" /\ GoTo("receiver", "loop")
    /\ UNCHANGED <<running, socket, mutex, left, sentParts, unread, server, commands, answers>>

\* read() returns 0 or an error: the server has closed and all was read, or
\* close() has shut the socket down.
ReadEnds ==
    /\ stage["receiver"] \in {"header", "body"}
    /\ (server = "gone" /\ replies = 0) \/ socket = "closed"
    /\ GoTo("receiver", "failed")
    /\ UNCHANGED <<running, socket, mutex, left, sentParts, unread, replies, server, commands, answers>>

\* The error branch of each thread: clear running and leave the loop.
Fail(t) ==
    /\ stage[t] = "failed"
    /\ running' = FALSE
    /\ GoTo(t, IF t = "main" THEN "close" ELSE "ended")
    /\ UNCHANGED <<socket, mutex, left, sentParts, unread, replies, server, commands, answers>>

\* Variant: close() without shutdown(): the descriptor is gone, a blocked read sleeps on.
CloseSocketOnly ==
    /\ stage["main"] = "close" /\ mutex = "free"
    /\ socket' = "orphaned" /\ GoTo("main", "join")
    /\ UNCHANGED <<running, mutex, left, sentParts, unread, replies, server, commands, answers>>

\* close(): shutdown() ends a blocked read, then the descriptor is released.
CloseSocket ==
    /\ stage["main"] = "close" /\ mutex = "free"
    /\ socket' = "closed" /\ GoTo("main", "join")
    /\ UNCHANGED <<running, mutex, left, sentParts, unread, replies, server, commands, answers>>

\* Both threads are joined and main returns.
JoinThreads ==
    /\ stage["main"] = "join" /\ stage["heartbeat"] = "ended" /\ stage["receiver"] = "ended"
    /\ GoTo("main", "exited")
    /\ UNCHANGED <<running, socket, mutex, left, sentParts, unread, replies, server, commands, answers>>

\* The server reads, answers or pushes, and may close the connection.
ServerReads ==
    /\ server = "up" /\ unread > 0
    /\ unread' = 0
    /\ UNCHANGED <<running, socket, mutex, stage, left, sentParts, replies, server, commands, answers>>

ServerSends ==
    /\ server = "up" /\ answers < MaxReplies
    /\ answers' = answers + 1 /\ replies' = replies + 2
    /\ UNCHANGED <<running, socket, mutex, stage, left, sentParts, unread, server, commands>>

ServerCloses ==
    /\ server = "up" /\ socket = "open"
    /\ server' = "gone"
    /\ UNCHANGED <<running, socket, mutex, stage, left, sentParts, unread, replies, commands, answers>>

-----------------------------------------------------------------------------
SenderStep(t) == LoopTest(t) \/ BeginSend(t) \/ WriteSome(t) \/ WriteFails(t) \/ Fail(t)

\* What a thread does without waiting for the user.
CliStep(t) ==
    \/ t \in Senders /\ SenderStep(t)
    \/ t = "main" /\ (Connect \/ CloseSocket \/ JoinThreads)
    \/ t = "heartbeat" /\ EndSleep
    \/ t = "receiver" /\ (LoopTest(t) \/ CopyFd \/ ReadSome \/ ReadEnds \/ Fail(t))

CliNext ==
    \/ \E t \in CliThreads : CliStep(t)
    \/ \E line \in Lines : ReadLine(line)
    \/ ServerReads \/ ServerSends \/ ServerCloses

CliSpec == CliInit /\ [][CliNext]_cliVars

-----------------------------------------------------------------------------
\* The packets of main and of the heartbeat never mix on the connection:
\* socket_mutex_ is held over all the writes that writeAll needs for one.
FramesWhole ==
    \A i \in 1..Len(sentParts) :
       i % PacketParts # 0 /\ i < Len(sentParts) => sentParts[i + 1] = sentParts[i]

\* A client that leaves its command loop ends.  A receiver blocked in read()
\* is woken by the shutdown() in close(), a heartbeat sees running cleared, and
\* no thread keeps socket_mutex_ from close() while the server reads.
QuitEnds == stage["main"] = "close" ~> stage["main"] \in {"exited", "killed"}

================================================================================
