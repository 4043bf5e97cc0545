----------------------------- MODULE GroupService -----------------------------
(***************************************************************************)
(* Groups: creating, joining and the fan-out of a group message, by        *)
(* GroupService over GroupDao and saveMessageWithOfflineRecipients.        *)
(*                                                                         *)
(* The fan-out reads the members, looks every member's session up, saves   *)
(* the message with an offline row for each member it found offline, and   *)
(* then pushes to the sessions it remembered.  Members join, log in and    *)
(* disconnect between any two of these steps.                              *)
(***************************************************************************)
EXTENDS Business, Naturals, Functions

CONSTANTS
    Users,          \* the members to be
    Groups,         \* group ids to be created
    GroupMessages,  \* one id for every group message sent
    MaxLogins       \* bound: sessions that all users open together

\* None is no message, no saved message and no answer.
ASSUME GroupAssumption ==
    None \notin GroupMessages \cup [sender : Users, audience : SUBSET Users] \cup {"ok", "error"}

VARIABLES
    owner,     \* chat_groups: group -> its owner, None before it is created
    members,   \* group_members: group -> a set of users
    logins,    \* user -> number of the newest session, 0 before the first
    open,      \* the sessions <<user, number>> that are open
    sending,   \* what each thread has in hand: a message being fanned out
    saved,     \* messages: id -> [sender, audience], None before it is saved
    rows,      \* offline_messages: a set of <<user, message>>
    counted,   \* Redis unread increments: a set of <<user, message>>
    pushed,    \* history: <<user, message>> queued on an open session
    reply      \* history: message -> "ok", "error", or None

groupVars == <<owner, members, logins, open, sending, saved, rows, counted, pushed, reply>>

NotSending == [pc |-> "idle", msg |-> None, group |-> None, sender |-> None,
               todo |-> {}, online |-> {}, offline |-> {}]

GroupInit ==
    /\ owner = [g \in Groups |-> None]
    /\ members = [g \in Groups |-> {}]
    /\ logins = [u \in Users |-> 0]
    /\ open = {}
    /\ sending = [t \in Threads |-> NotSending]
    /\ saved = [m \in GroupMessages |-> None]
    /\ rows = {} /\ counted = {} /\ pushed = {}
    /\ reply = [m \in GroupMessages |-> None]

-----------------------------------------------------------------------------
\* Sessions, as OnlineService gives them: the newest login of a user, while it
\* is open.  A kicked session stays open until its loop has closed it.

Newest(u) == <<u, logins[u]>>

LogIn(u) ==
    /\ FoldFunction(+, 0, logins) < MaxLogins
    /\ logins' = [logins EXCEPT ![u] = @ + 1]
    /\ open' = open \cup {<<u, logins[u] + 1>>}
    /\ UNCHANGED <<owner, members, sending, saved, rows, counted, pushed, reply>>

Disconnect(s) ==
    /\ open' = open \ {s}
    /\ UNCHANGED <<owner, members, logins, sending, saved, rows, counted, pushed, reply>>

-----------------------------------------------------------------------------
\* The group tables.

\* insertGroupMember; a second join changes nothing.
InsertGroupMember(g, u) == members' = [members EXCEPT ![g] = @ \cup {u}]

\* findGroupById, getGroupMembers.
GroupExists(g) == owner[g] # None
GetGroupMembers(g) == members[g]

\* The group and the membership of its owner in one transaction.  An error
\* rolls both back; one at the COMMIT may come after it was applied, and
\* nothing tells the two apart here.
CreateGroup(u, g) ==
    /\ ~GroupExists(g)
    /\ owner' = [owner EXCEPT ![g] = u]
    /\ InsertGroupMember(g, u)
    /\ UNCHANGED <<logins, open, sending, saved, rows, counted, pushed, reply>>

JoinGroup(u, g) ==
    /\ GroupExists(g)
    /\ InsertGroupMember(g, u)
    /\ UNCHANGED <<owner, logins, open, sending, saved, rows, counted, pushed, reply>>

\* An operation of the storage that no handler calls yet: the owner stays.
RemoveGroupMember(u, g) ==
    /\ GroupExists(g)
    /\ owner[g] # u
    /\ members' = [members EXCEPT ![g] = @ \ {u}]
    /\ UNCHANGED <<owner, logins, open, sending, saved, rows, counted, pushed, reply>>

-----------------------------------------------------------------------------
\* handleGroupMessage.

Fresh(m) ==
    /\ saved[m] = None
    /\ reply[m] = None
    /\ \A t \in Threads : sending[t].msg # m

\* The group and its members are read, and the sender must be among them.
ReadMembers(t, u, g, m) ==
    /\ sending[t] = NotSending
    /\ Fresh(m)
    /\ GroupExists(g)
    /\ IF u \in GetGroupMembers(g)
       THEN /\ sending' = [sending EXCEPT ![t] =
                   [NotSending EXCEPT !.pc = "lookup", !.msg = m, !.group = g,
                                      !.sender = u, !.todo = GetGroupMembers(g) \ {u}]]
            /\ UNCHANGED reply
       ELSE /\ reply' = [reply EXCEPT ![m] = "error"]
            /\ UNCHANGED sending
    /\ UNCHANGED <<owner, members, logins, open, saved, rows, counted, pushed>>

\* One getSessionByUser: the session is remembered, or the user is offline.
LookupMember(t) ==
    /\ sending[t].pc = "lookup"
    /\ \E u \in sending[t].todo :
           sending' = [sending EXCEPT
               ![t].todo = @ \ {u},
               ![t].online = @ \cup ({Newest(u)} \cap open),
               ![t].offline = @ \cup {x \in {u} : Newest(x) \notin open}]
    /\ UNCHANGED <<owner, members, logins, open, saved, rows, counted, pushed, reply>>

Audience(t) == sending[t].offline \cup {s[1] : s \in sending[t].online}

\* The handler is done with its message.
Conclude(t, answer) ==
    /\ reply' = [reply EXCEPT ![sending[t].msg] = answer]
    /\ sending' = [sending EXCEPT ![t] = NotSending]

\* Variant: every member gets an offline row, not only the ones found offline.
OfflineRowsForAll(t) == Audience(t) \X {sending[t].msg}

OfflineRows(t) == sending[t].offline \X {sending[t].msg}

SavedMessage(t) == [sender |-> sending[t].sender, audience |-> Audience(t)]

\* saveMessageWithOfflineRecipients: the message and the rows, all or nothing.
\* An error ends the handler, also one of a COMMIT that was applied.
SaveGroupMessage(t) ==
    /\ sending[t].pc = "lookup"
    /\ sending[t].todo = {}
    /\ \/ /\ saved' = [saved EXCEPT ![sending[t].msg] = SavedMessage(t)]
          /\ rows' = rows \cup OfflineRows(t)
          /\ \/ sending' = [sending EXCEPT ![t].pc = "count"] /\ UNCHANGED reply
             \/ StorageMayFail /\ Conclude(t, "error")
       \/ StorageMayFail /\ Conclude(t, "error") /\ UNCHANGED <<saved, rows>>
    /\ UNCHANGED <<owner, members, logins, open, counted, pushed>>

\* incrUnread for each key, of which any may fail.
IncrUnread(keys) ==
    \E failed \in IF StorageMayFail THEN SUBSET keys ELSE {{}} : counted' = counted \cup (keys \ failed)

\* One INCR per offline member; an error is only logged.
CountUnread(t) ==
    /\ sending[t].pc = "count"
    /\ IncrUnread(OfflineRows(t))
    /\ sending' = [sending EXCEPT ![t].pc = "push"]
    /\ UNCHANGED <<owner, members, logins, open, saved, rows, pushed, reply>>

\* Variant: a push that fails is skipped and the fan-out goes on.
PushToMemberSkips(t) ==
    /\ sending[t].pc = "push"
    /\ \E s \in sending[t].online :
           /\ sending' = [sending EXCEPT ![t].online = @ \ {s}]
           /\ pushed' = pushed \cup {<<x[1], sending[t].msg>> : x \in {s} \cap open}
    /\ UNCHANGED <<owner, members, logins, open, saved, rows, counted, reply>>

\* The first push that fails ends the handler with an error: the members after
\* it get nothing, and there is no offline row to fall back on.
PushToMember(t) ==
    /\ sending[t].pc = "push"
    /\ \E s \in sending[t].online :
           IF s \in open
           THEN /\ sending' = [sending EXCEPT ![t].online = @ \ {s}]
                /\ pushed' = pushed \cup {<<s[1], sending[t].msg>>}
                /\ UNCHANGED reply
           ELSE Conclude(t, "error") /\ UNCHANGED pushed
    /\ UNCHANGED <<owner, members, logins, open, saved, rows, counted>>

RespondToSender(t) ==
    /\ sending[t].pc = "push"
    /\ sending[t].online = {}
    /\ Conclude(t, "ok")
    /\ UNCHANGED <<owner, members, logins, open, saved, rows, counted, pushed>>

GroupStep(t) ==
    \/ LookupMember(t) \/ SaveGroupMessage(t) \/ CountUnread(t)
    \/ PushToMember(t) \/ RespondToSender(t)

GroupNext ==
    \/ \E u \in Users, g \in Groups :
           CreateGroup(u, g) \/ JoinGroup(u, g) \/ RemoveGroupMember(u, g)
    \/ \E u \in Users : LogIn(u)
    \/ \E s \in open : Disconnect(s)
    \/ \E t \in Threads : \/ \E u \in Users, g \in Groups, m \in GroupMessages :
                                ReadMembers(t, u, g, m)
                          \/ GroupStep(t)

GroupSpec == GroupInit /\ [][GroupNext]_groupVars

-----------------------------------------------------------------------------

\* An OK to the sender means that every member the handler found has been
\* reached: the push was queued on an open session, or an offline row waits.
OkReachesEveryMember ==
    \A m \in GroupMessages :
        reply[m] = "ok" => \A u \in saved[m].audience : <<u, m>> \in rows \cup pushed

\* Nobody gets a message twice: a member has an offline row or a push, never
\* both, and only a message that is stored is pushed or counted, to others than
\* its sender.
OneChannelPerMember ==
    /\ rows \cap pushed = {}
    /\ counted \subseteq rows
    /\ \A x \in rows \cup pushed :
           saved[x[2]] # None /\ x[1] \in saved[x[2]].audience \ {saved[x[2]].sender}
=============================================================================
