---------------------------- MODULE SessionOutput ----------------------------
(***************************************************************************)
(* The output side of one Session on its I/O loop, with its Channel and    *)
(* the Epoller: packets queued by other threads, the output buffer with    *)
(* its high water mark, the interest in EPOLLOUT that follows the buffer,  *)
(* the dispatch of one epoll event to the callbacks, and closeInLoop with  *)
(* the deferred reset of the channel.                                      *)
(*                                                                         *)
(* Output is counted in units; a packet has one or more.  epoll is level   *)
(* triggered: an event is reported as long as it is of interest and true.  *)
(***************************************************************************)
EXTENDS Naturals, Sequences

CONSTANTS
    HighWater,    \* output_high_water_mark_, in units
    PacketSizes,  \* sizes of an encoded packet
    SocketRoom,   \* free units of an empty socket send buffer
    MaxSends      \* bound: packets sent

ASSUME OutputAssumption ==
    /\ HighWater \in Nat \ {0} /\ SocketRoom \in Nat \ {0} /\ MaxSends \in Nat
    /\ PacketSizes \subseteq Nat \ {0}

VARIABLES
    life,       \* state_: "new", "started" or "closed" (closed_ is set with it)
    channel,    \* registered: in the epoller; interest: events_; alive: not reset
    output,     \* units in output_buffer_
    room,       \* free units of the socket's send buffer
    queued,     \* sendEncodedInLoop and closeInLoop tasks queued on the loop
    resets,     \* the reset that closeInLoop queued has still to run
    event,      \* the callbacks of the event being dispatched, in order
    sends       \* counts the calls of sendPacket

outputVars == <<life, channel, output, room, queued, resets, event, sends>>

Callbacks == {"error", "close", "read", "write"}

OutputInit ==
    /\ life = "new"
    /\ channel = [registered |-> FALSE, interest |-> {}, alive |-> TRUE]
    /\ output = 0 /\ room = SocketRoom
    /\ queued = <<>> /\ resets = FALSE /\ event = <<>> /\ sends = 0

Idle == event = <<>>

-----------------------------------------------------------------------------
\* Channel::enableReading, enableWriting and disableWriting, each followed by
\* updateChannel, which adds the descriptor to epoll or changes its events.
Watch(events) == [channel EXCEPT !.registered = TRUE, !.interest = events]
EnableWriting == Watch(channel.interest \cup {"write"})
DisableWriting == Watch(channel.interest \ {"write"})

\* removeChannel.
Unwatch == [channel EXCEPT !.registered = FALSE]

\* startInLoop.
StartSession ==
    /\ life = "new" /\ Idle
    /\ life' = "started"
    /\ channel' = Watch({"read"})
    /\ UNCHANGED <<output, room, queued, resets, event, sends>>

\* closeInLoop: out of epoll, descriptor and output gone, and the channel,
\* which may be dispatching right now, is reset by a later task.
Shut ==
    /\ life' = "closed"
    /\ channel' = Unwatch
    /\ output' = 0
    /\ resets' = TRUE

\* What sendPacket has the loop do with a packet: 0 stands for closeInLoop, to
\* which one above the mark leads.
SizeInLoop(size) == IF size > HighWater THEN 0 ELSE size

\* sendPacket by another thread: refused once closed, otherwise queued on the
\* loop and, unless it is above the mark, answered OK.
SendPacket(size) ==
    /\ sends < MaxSends
    /\ sends' = sends + 1
    /\ queued' = IF life = "closed" THEN queued ELSE Append(queued, SizeInLoop(size))
    /\ UNCHANGED <<life, channel, output, room, resets, event>>

\* closeInLoop when size is 0, and sendEncodedInLoop otherwise: it closes the
\* session rather than let the buffer pass the mark.
SendEncodedInLoop(size) ==
    \/ /\ life = "closed" \/ (life = "new" /\ size > 0)
       /\ UNCHANGED <<life, channel, output, resets>>
    \/ /\ life # "closed"
       /\ size = 0 \/ (life = "started" /\ output > HighWater - size)
       /\ Shut
    \/ /\ life = "started" /\ size > 0 /\ output <= HighWater - size
       /\ output' = output + size
       /\ channel' = EnableWriting
       /\ UNCHANGED <<life, resets>>

RunSend ==
    /\ Idle /\ queued # <<>>
    /\ queued' = Tail(queued)
    /\ SendEncodedInLoop(Head(queued))
    /\ UNCHANGED <<room, event, sends>>

\* epoll_wait reports the channel.  handleEvent turns the event into callbacks:
\* a hang-up without input ends in the close callback; otherwise error, read
\* and write follow each other, whatever the ones before them did.
EpollReports ==
    /\ Idle /\ channel.registered
    /\ \/ \E failed \in BOOLEAN :
             event' = (IF failed THEN <<"error">> ELSE <<>>) \o <<"close">>
       \/ \E failed, readable \in BOOLEAN :
             LET writable == "write" \in channel.interest /\ room > 0
             IN  /\ failed \/ readable \/ writable
                 /\ event' = (IF failed THEN <<"error">> ELSE <<>>)
                             \o (IF readable THEN <<"read">> ELSE <<>>)
                             \o (IF writable THEN <<"write">> ELSE <<>>)
    /\ UNCHANGED <<life, channel, output, room, queued, resets, sends>>

\* The writable event alone.
Writable ==
    /\ Idle /\ channel.registered /\ "write" \in channel.interest /\ room > 0
    /\ event' = <<"write">>
    /\ UNCHANGED <<life, channel, output, room, queued, resets, sends>>

\* The error and close callbacks close the session; handleRead does so at end
\* of file or on bytes that are no packet.
CloseCallback ==
    /\ ~Idle /\ Head(event) \in {"error", "close", "read"}
    /\ event' = Tail(event)
    /\ \/ life = "started" /\ Shut
       \/ /\ life = "closed" \/ Head(event) = "read"
          /\ UNCHANGED <<life, channel, output, resets>>
    /\ UNCHANGED <<room, queued, sends>>

\* sendPacket on the loop itself, by the read callback: nothing is queued, the
\* session is written to, or closed, at once.
SendPacketInLoop(size) ==
    /\ ~Idle /\ Head(event) = "read" /\ life = "started"
    /\ sends < MaxSends
    /\ sends' = sends + 1
    /\ SendEncodedInLoop(SizeInLoop(size))
    /\ UNCHANGED <<room, queued, event>>

\* Variant: handleWrite without the test that the buffer is empty.
HandleWriteStopsEarly ==
    /\ ~Idle /\ Head(event) = "write"
    /\ event' = Tail(event)
    /\ LET n == IF output < room THEN output ELSE room
       IN  /\ output' = output - n /\ room' = room - n
           /\ channel' = IF life = "started" THEN DisableWriting ELSE channel
    /\ UNCHANGED <<life, queued, resets, sends>>

\* handleWrite: write until the socket is full or the buffer empty, and stop
\* watching EPOLLOUT once it is empty; a failed write closes the session.
HandleWrite ==
    /\ ~Idle /\ Head(event) = "write"
    /\ event' = Tail(event)
    /\ \/ /\ life = "started"
          /\ LET n == IF output < room THEN output ELSE room
             IN  /\ output' = output - n /\ room' = room - n
                 /\ channel' = IF output' = 0 THEN DisableWriting ELSE channel
          /\ UNCHANGED <<life, resets>>
       \/ life = "started" /\ Shut /\ UNCHANGED room
       \/ life = "closed" /\ UNCHANGED <<life, channel, output, room, resets>>
    /\ UNCHANGED <<queued, sends>>

\* The task queued by closeInLoop, run after the events of the round.
ResetSessionChannel ==
    /\ resets /\ Idle
    /\ resets' = FALSE
    /\ channel' = [channel EXCEPT !.alive = FALSE]
    /\ UNCHANGED <<life, output, room, queued, event, sends>>

\* The peer reads what the socket holds.
PeerReads ==
    /\ room < SocketRoom
    /\ room' = SocketRoom
    /\ UNCHANGED <<life, channel, output, queued, resets, event, sends>>

-----------------------------------------------------------------------------
SessionSteps == StartSession \/ RunSend \/ CloseCallback \/ HandleWrite \/ ResetSessionChannel

OutputNext ==
    \/ SessionSteps \/ EpollReports \/ PeerReads
    \/ \E size \in PacketSizes : SendPacket(size) \/ SendPacketInLoop(size)

OutputSpec == OutputInit /\ [][OutputNext]_outputVars

\* What sendPacket accepted leaves the buffer, sent to a peer that keeps
\* reading or dropped with the session: handleWrite never stops watching
\* EPOLLOUT with output left, although a full socket cuts a write short.
OutputDrains == output > 0 ~> output = 0

=============================================================================
