-------------------------- MODULE GroupServiceProofs --------------------------
(***************************************************************************)
(* The safety properties of GroupService, for any number of users, groups, *)
(* messages, logins and business threads.                                  *)
(***************************************************************************)
EXTENDS GroupService, TLAPS

SavedMessages == [sender : Users, audience : SUBSET Users]

Sessions == Users \X Nat

Sendings ==
    [pc : {"lookup", "count", "push"}, msg : GroupMessages, group : Groups, sender : Users,
     todo : SUBSET Users, online : SUBSET Sessions, offline : SUBSET Users]

GroupTypeOK ==
    /\ members \in [Groups -> SUBSET Users]
    /\ logins \in [Users -> Nat]
    /\ open \subseteq Sessions
    /\ sending \in [Threads -> Sendings \cup {NotSending}]
    /\ saved \in [GroupMessages -> SavedMessages \cup {None}]
    /\ reply \in [GroupMessages -> {"ok", "error", None}]
    /\ rows \subseteq Users \X GroupMessages
    /\ counted \subseteq Users \X GroupMessages
    /\ pushed \subseteq Users \X GroupMessages

Active(t) == sending[t] # NotSending
Msg(t) == sending[t].msg

\* The users of the sessions that are still to be pushed to.
OnlineUsers(t) == {s[1] : s \in sending[t].online}

\* A member is looked up once, and never the sender.
LookupsDisjoint(t) ==
    /\ sending[t].sender \notin sending[t].todo \cup Audience(t)
    /\ sending[t].todo \cap Audience(t) = {}
    /\ sending[t].offline \cap OnlineUsers(t) = {}

\* Once saved, a message has a row for each member found offline and for nobody
\* else, and everyone else in its audience has been pushed to or will be.
FanOutCovers(t) ==
    IF sending[t].pc = "lookup" THEN saved[Msg(t)] = None
    ELSE /\ saved[Msg(t)] # None
         /\ saved[Msg(t)].sender = sending[t].sender
         /\ Audience(t) \subseteq saved[Msg(t)].audience
         /\ \A u \in Users : <<u, Msg(t)>> \in rows <=> u \in sending[t].offline
         /\ \A u \in saved[Msg(t)].audience : u \in Audience(t) \/ <<u, Msg(t)>> \in pushed

HandlerInv(t) ==
    Active(t) => LookupsDisjoint(t) /\ FanOutCovers(t) /\ reply[Msg(t)] = None

OneHandlerPerMessage ==
    \A t, u \in Threads : Active(t) /\ Active(u) /\ Msg(t) = Msg(u) => t = u

GroupInv ==
    /\ GroupTypeOK
    /\ OneHandlerPerMessage
    /\ \A t \in Threads : HandlerInv(t)
    /\ OneChannelPerMember
    /\ OkReachesEveryMember

-----------------------------------------------------------------------------
LEMMA NotSendingIsIdle == NotSending \notin Sendings
BY GroupAssumption DEF NotSending, Sendings

LEMMA ActiveType ==
    ASSUME GroupTypeOK, NEW t \in Threads, Active(t)
    PROVE  sending[t] \in Sendings /\ Audience(t) \subseteq Users /\ OnlineUsers(t) \subseteq Users
<1>1. sending[t] \in Sendings
    BY DEF GroupTypeOK, Active
<1> QED
    BY <1>1 DEF Sendings, Sessions, Audience, OnlineUsers

\* A step of thread t that touches at most one message, its own, disturbs no
\* other handler.
LEMMA OthersKept ==
    ASSUME GroupInv, NEW t \in Threads, NEW m \in GroupMessages,
           \A u \in Threads \ {t} : sending'[u] = sending[u],
           \A u \in Threads \ {t} : Active(u) => Msg(u) # m,
           \A n \in GroupMessages \ {m} : saved'[n] = saved[n] /\ reply'[n] = reply[n],
           \A n \in GroupMessages \ {m}, u \in Users :
               /\ <<u, n>> \in rows' <=> <<u, n>> \in rows
               /\ <<u, n>> \in pushed' <=> <<u, n>> \in pushed
    PROVE  \A u \in Threads \ {t} : HandlerInv(u)'
<1> SUFFICES ASSUME NEW u \in Threads \ {t}, Active(u)' PROVE HandlerInv(u)'
    BY DEF HandlerInv
<1>1. sending'[u] = sending[u] /\ Active(u) /\ Msg(u)' = Msg(u)
    BY DEF Active, Msg
<1>2. sending[u] \in Sendings
    BY <1>1, ActiveType DEF GroupInv
<1>3. Msg(u) \in GroupMessages \ {m}
    BY <1>1, <1>2 DEF Sendings, Msg
<1>4. HandlerInv(u)
    BY DEF GroupInv
<1>5. LookupsDisjoint(u)'
    BY <1>1, <1>4 DEF HandlerInv, LookupsDisjoint, Audience, OnlineUsers
<1>6. Audience(u)' = Audience(u)
    BY <1>1 DEF Audience
<1>7. saved'[Msg(u)] = saved[Msg(u)] /\ reply'[Msg(u)] = reply[Msg(u)]
    BY <1>3
<1>8. saved[Msg(u)] # None => saved[Msg(u)].audience \subseteq Users
    BY <1>3 DEF GroupInv, GroupTypeOK, SavedMessages
<1>9. FanOutCovers(u)'
    BY <1>1, <1>3, <1>4, <1>6, <1>7, <1>8 DEF HandlerInv, FanOutCovers
<1> QED
    BY <1>1, <1>4, <1>5, <1>7, <1>9 DEF HandlerInv

-----------------------------------------------------------------------------
\* Sessions and memberships change without touching any message.
LEMMA MembershipKeepsInv ==
    ASSUME GroupInv, UNCHANGED <<sending, saved, rows, counted, pushed, reply>>, GroupTypeOK'
    PROVE  GroupInv'
BY DEF GroupInv, OneHandlerPerMessage, HandlerInv, Active, Msg, LookupsDisjoint, FanOutCovers,
       Audience, OnlineUsers, OneChannelPerMember, OkReachesEveryMember

LEMMA SessionsKeepInv ==
    ASSUME GroupInv,
           \/ \E u \in Users, g \in Groups :
                  CreateGroup(u, g) \/ JoinGroup(u, g) \/ RemoveGroupMember(u, g)
           \/ \E u \in Users : LogIn(u)
           \/ \E s \in open : Disconnect(s)
    PROVE  GroupInv'
<1>1. ASSUME NEW u \in Users, NEW g \in Groups,
             CreateGroup(u, g) \/ JoinGroup(u, g) \/ RemoveGroupMember(u, g)
      PROVE  GroupInv'
  <2>1. members' \in [Groups -> SUBSET Users]
    BY <1>1 DEF CreateGroup, JoinGroup, RemoveGroupMember, InsertGroupMember, GroupInv, GroupTypeOK
  <2>2. UNCHANGED <<logins, open, sending, saved, rows, counted, pushed, reply>>
    BY <1>1 DEF CreateGroup, JoinGroup, RemoveGroupMember
  <2>3. GroupTypeOK'
    BY <2>1, <2>2 DEF GroupInv, GroupTypeOK
  <2> QED
    BY <2>2, <2>3, MembershipKeepsInv
<1>2. ASSUME NEW u \in Users, LogIn(u) PROVE GroupInv'
  <2>1. logins' = [logins EXCEPT ![u] = @ + 1] /\ open' = open \cup {<<u, logins[u] + 1>>}
        /\ UNCHANGED <<members, sending, saved, rows, counted, pushed, reply>>
    BY <1>2, Zenon DEF LogIn
  <2>2. GroupTypeOK'
    BY <2>1 DEF GroupInv, GroupTypeOK, Sessions
  <2> QED
    BY <2>1, <2>2, MembershipKeepsInv
<1>3. ASSUME NEW s \in open, Disconnect(s) PROVE GroupInv'
  <2>1. GroupTypeOK'
    BY <1>3 DEF Disconnect, GroupInv, GroupTypeOK
  <2> QED
    BY <1>3, <2>1, MembershipKeepsInv DEF Disconnect
<1> QED
    BY <1>1, <1>2, <1>3

\* The end of a handler frees its thread and answers its message.
LEMMA ConcludeType ==
    ASSUME GroupTypeOK, NEW t \in Threads, Active(t), NEW answer \in {"ok", "error"},
           Conclude(t, answer)
    PROVE  /\ sending' \in [Threads -> Sendings \cup {NotSending}]
           /\ reply' \in [GroupMessages -> {"ok", "error", None}]
           /\ ~Active(t)'
           /\ \A u \in Threads \ {t} : sending'[u] = sending[u]
           /\ \A n \in GroupMessages \ {Msg(t)} : reply'[n] = reply[n]
           /\ reply'[Msg(t)] = answer
<1>1. Msg(t) \in GroupMessages
    BY ActiveType DEF Sendings, Msg
<1> QED
    BY <1>1 DEF Conclude, GroupTypeOK, Active, Msg

\* Only handlers that have not ended have a message to themselves.
LEMMA OneHandlerKept ==
    ASSUME GroupInv, NEW t \in Threads,
           \A u \in Threads \ {t} : sending'[u] = sending[u],
           Active(t)' => \A u \in Threads \ {t} : Active(u) => Msg(u) # Msg(t)'
    PROVE  OneHandlerPerMessage'
BY DEF GroupInv, OneHandlerPerMessage, Active, Msg

LEMMA OwnMessage ==
    ASSUME GroupInv, NEW t \in Threads, Active(t)
    PROVE  /\ Msg(t) \in GroupMessages
           /\ \A u \in Threads \ {t} : Active(u) => Msg(u) # Msg(t)
<1>1. Msg(t) \in GroupMessages
    BY ActiveType DEF GroupInv, Sendings, Msg
<1> QED
    BY <1>1 DEF GroupInv, OneHandlerPerMessage

\* A handler that ends disturbs no other one, whatever it did to its own message.
LEMMA HandlerEnds ==
    ASSUME GroupInv, NEW t \in Threads, Active(t), NEW answer \in {"ok", "error"},
           Conclude(t, answer), UNCHANGED pushed,
           \A n \in GroupMessages \ {Msg(t)} : saved'[n] = saved[n],
           \A n \in GroupMessages \ {Msg(t)}, u \in Users : <<u, n>> \in rows' <=> <<u, n>> \in rows
    PROVE  /\ sending' \in [Threads -> Sendings \cup {NotSending}]
           /\ reply' \in [GroupMessages -> {"ok", "error", None}]
           /\ reply'[Msg(t)] = answer
           /\ \A n \in GroupMessages \ {Msg(t)} : reply'[n] = reply[n]
           /\ OneHandlerPerMessage' /\ \A u \in Threads : HandlerInv(u)'
<1>1. GroupTypeOK
    BY DEF GroupInv
<1>2. /\ sending' \in [Threads -> Sendings \cup {NotSending}]
      /\ reply' \in [GroupMessages -> {"ok", "error", None}]
      /\ ~Active(t)'
      /\ \A u \in Threads \ {t} : sending'[u] = sending[u]
      /\ \A n \in GroupMessages \ {Msg(t)} : reply'[n] = reply[n]
      /\ reply'[Msg(t)] = answer
    BY <1>1, ConcludeType
<1>3. Msg(t) \in GroupMessages /\ \A u \in Threads \ {t} : Active(u) => Msg(u) # Msg(t)
    BY OwnMessage
<1>4. OneHandlerPerMessage'
    BY <1>2, OneHandlerKept
<1>5. \A u \in Threads \ {t} : HandlerInv(u)'
    BY <1>2, <1>3, OthersKept
<1>6. HandlerInv(t)'
    BY <1>2 DEF HandlerInv
<1> QED
    BY <1>2, <1>4, <1>5, <1>6

\* The group and its members are read.
LEMMA ReadKeepsInv ==
    ASSUME GroupInv, NEW t \in Threads, NEW u \in Users, NEW g \in Groups,
           NEW m \in GroupMessages, ReadMembers(t, u, g, m)
    PROVE  GroupInv'
<1>1. UNCHANGED <<members, logins, open, saved, rows, counted, pushed>>
    BY DEF ReadMembers
<1>2. saved[m] = None /\ reply[m] = None /\ \A v \in Threads : Active(v) => Msg(v) # m
    BY DEF ReadMembers, Fresh, Active, Msg
<1>3. OneChannelPerMember'
    BY <1>1 DEF GroupInv, OneChannelPerMember
<1>4. CASE u \in GetGroupMembers(g)
  <2> DEFINE new == [pc |-> "lookup", msg |-> m, group |-> g, sender |-> u,
                     todo |-> members[g] \ {u}, online |-> {}, offline |-> {}]
  <2>1. sending' = [sending EXCEPT ![t] = new] /\ reply' = reply
    BY <1>4, ZenonT(60) DEF ReadMembers, NotSending, GetGroupMembers
  <2>2. /\ new \in Sendings /\ new.pc = "lookup" /\ new.msg = m /\ new.sender = u
        /\ new.todo = members[g] \ {u} /\ new.online = {} /\ new.offline = {}
    BY DEF GroupInv, GroupTypeOK, Sendings
  <2> HIDE DEF new
  <2>3. GroupTypeOK'
    BY <1>1, <2>1, <2>2 DEF GroupInv, GroupTypeOK
  <2>4. sending'[t] = new /\ \A v \in Threads \ {t} : sending'[v] = sending[v]
    BY <2>1 DEF GroupInv, GroupTypeOK
  <2>5. OneHandlerPerMessage'
    <3>1. Msg(t)' = m
      BY <2>2, <2>4 DEF Msg
    <3> QED
      BY <1>2, <2>4, <3>1, OneHandlerKept
  <2>6. \A v \in Threads \ {t} : HandlerInv(v)'
    BY <1>1, <1>2, <2>1, <2>4, OthersKept
  <2>7. HandlerInv(t)'
    <3>1. Audience(t)' = {} /\ OnlineUsers(t)' = {} /\ Msg(t)' = m
      BY <2>2, <2>4 DEF Audience, OnlineUsers, Msg
    <3>2. LookupsDisjoint(t)'
      BY <2>2, <2>4, <3>1 DEF LookupsDisjoint
    <3>3. FanOutCovers(t)'
      BY <1>1, <1>2, <2>2, <2>4, <3>1 DEF FanOutCovers
    <3> QED
      BY <1>2, <2>1, <3>1, <3>2, <3>3 DEF HandlerInv
  <2>8. OkReachesEveryMember'
    BY <1>1, <2>1, Zenon DEF GroupInv, OkReachesEveryMember
  <2> QED
    BY <1>3, <2>3, <2>5, <2>6, <2>7, <2>8 DEF GroupInv
<1>5. CASE u \notin GetGroupMembers(g)
  <2>1. sending' = sending /\ reply' = [reply EXCEPT ![m] = "error"]
    BY <1>5 DEF ReadMembers
  <2>2. GroupTypeOK'
    BY <1>1, <2>1 DEF GroupInv, GroupTypeOK
  <2>3. OneHandlerPerMessage'
    BY <2>1 DEF GroupInv, OneHandlerPerMessage, Active, Msg
  <2>4. \A v \in Threads \ {t} : HandlerInv(v)'
    BY <1>1, <1>2, <2>1, OthersKept DEF GroupInv, GroupTypeOK
  <2>5. HandlerInv(t)'
    BY <2>1 DEF HandlerInv, Active, ReadMembers
  <2>6. OkReachesEveryMember'
    BY <1>1, <2>1 DEF GroupInv, GroupTypeOK, OkReachesEveryMember
  <2> QED
    BY <1>3, <2>2, <2>3, <2>4, <2>5, <2>6 DEF GroupInv
<1> QED
    BY <1>4, <1>5

\* One lookup moves a member from the ones to do to the online or offline ones.
LEMMA LookupKeepsInv ==
    ASSUME GroupInv, NEW t \in Threads, LookupMember(t)
    PROVE  GroupInv'
<1>1. UNCHANGED <<members, logins, open, saved, rows, counted, pushed, reply>>
    BY DEF LookupMember
<1>2. Active(t) /\ sending[t].pc = "lookup"
    BY DEF LookupMember, Active, NotSending
<1>3. PICK u \in sending[t].todo :
          sending' = [sending EXCEPT
               ![t].todo = @ \ {u},
               ![t].online = @ \cup ({Newest(u)} \cap open),
               ![t].offline = @ \cup {x \in {u} : Newest(x) \notin open}]
    BY Zenon DEF LookupMember
<1>4. sending[t] \in Sendings /\ u \in Users
    BY <1>2, <1>3, ActiveType DEF GroupInv, Sendings
<1> DEFINE new == [sending[t] EXCEPT !.todo = @ \ {u},
                       !.online = @ \cup ({Newest(u)} \cap open),
                       !.offline = @ \cup {x \in {u} : Newest(x) \notin open}]
<1>5. sending' = [sending EXCEPT ![t] = new]
    BY <1>3, Zenon
<1>6. new \in Sendings
    BY <1>4, Zenon DEF GroupInv, GroupTypeOK, Sendings
<1>7. sending'[t] = new /\ \A v \in Threads \ {t} : sending'[v] = sending[v]
    BY <1>5 DEF GroupInv, GroupTypeOK
<1>8. /\ new.todo = sending[t].todo \ {u}
      /\ new.msg = Msg(t) /\ new.sender = sending[t].sender /\ new.pc = "lookup"
      /\ new.online = sending[t].online \cup ({Newest(u)} \cap open)
      /\ new.offline = sending[t].offline \cup {x \in {u} : Newest(x) \notin open}
    BY <1>2, <1>4 DEF Sendings, Msg
<1> HIDE DEF new
<1>9. GroupTypeOK'
    BY <1>1, <1>5, <1>6 DEF GroupInv, GroupTypeOK
<1>10. Msg(t)' = Msg(t)
    BY <1>7, <1>8 DEF Msg
<1>11. OneHandlerPerMessage'
    BY <1>2, <1>7, <1>10, OwnMessage, OneHandlerKept
<1>12. \A v \in Threads \ {t} : HandlerInv(v)'
    BY <1>1, <1>2, <1>7, OwnMessage, OthersKept
<1>13. HandlerInv(t)'
  <2>1. HandlerInv(t) /\ LookupsDisjoint(t) /\ saved[Msg(t)] = None /\ reply[Msg(t)] = None
    BY <1>2 DEF GroupInv, HandlerInv, FanOutCovers
  <2>2. CASE Newest(u) \in open
    <3>1. Newest(u)[1] = u
      BY DEF Newest
    <3>2. new.online = sending[t].online \cup {Newest(u)} /\ new.offline = sending[t].offline
      BY <1>8, <2>2
    <3>3. OnlineUsers(t)' = OnlineUsers(t) \cup {u}
      BY <1>7, <3>1, <3>2 DEF OnlineUsers
    <3>4. Audience(t)' = Audience(t) \cup {u}
      BY <1>7, <3>1, <3>2 DEF Audience
    <3> QED
      BY <1>1, <1>7, <1>8, <1>10, <2>1, <3>2, <3>3, <3>4
      DEF HandlerInv, LookupsDisjoint, FanOutCovers, Audience
  <2>3. CASE Newest(u) \notin open
    <3>1. new.online = sending[t].online /\ new.offline = sending[t].offline \cup {u}
      BY <1>8, <2>3
    <3>2. OnlineUsers(t)' = OnlineUsers(t)
      BY <1>7, <3>1 DEF OnlineUsers
    <3>3. Audience(t)' = Audience(t) \cup {u}
      BY <1>7, <3>1 DEF Audience
    <3>4. u \notin OnlineUsers(t)
      BY <2>1 DEF LookupsDisjoint, Audience, OnlineUsers
    <3> QED
      BY <1>1, <1>7, <1>8, <1>10, <2>1, <3>1, <3>2, <3>3, <3>4
      DEF HandlerInv, LookupsDisjoint, FanOutCovers
  <2> QED
    BY <2>2, <2>3
<1>14. OneChannelPerMember' /\ OkReachesEveryMember'
    BY <1>1 DEF GroupInv, OneChannelPerMember, OkReachesEveryMember
<1> QED
    BY <1>9, <1>11, <1>12, <1>13, <1>14 DEF GroupInv

\* The transaction that saves the message with its offline rows.
LEMMA SaveKeepsInv ==
    ASSUME GroupInv, NEW t \in Threads, SaveGroupMessage(t)
    PROVE  GroupInv'
<1>1. UNCHANGED <<members, logins, open, counted, pushed>>
    BY DEF SaveGroupMessage
<1>2. Active(t) /\ sending[t].pc = "lookup" /\ sending[t] \in Sendings
    BY ActiveType DEF SaveGroupMessage, Active, NotSending, GroupInv
<1>3. Msg(t) \in GroupMessages /\ \A u \in Threads \ {t} : Active(u) => Msg(u) # Msg(t)
    BY <1>2, OwnMessage
<1>4. LookupsDisjoint(t) /\ saved[Msg(t)] = None /\ reply[Msg(t)] = None
    BY <1>2 DEF GroupInv, HandlerInv, FanOutCovers
<1>5. \A u \in Users : <<u, Msg(t)>> \notin rows \cup pushed
    BY <1>4 DEF GroupInv, OneChannelPerMember
<1>6. Audience(t) \subseteq Users /\ SavedMessage(t) \in SavedMessages
    BY <1>2, ActiveType, Zenon DEF GroupInv, SavedMessage, SavedMessages, Sendings
<1>7. SavedMessage(t) # None
    BY <1>6, GroupAssumption DEF SavedMessages
<1>8. CASE Conclude(t, "error") /\ UNCHANGED <<saved, rows>>
  <2>1. /\ sending' \in [Threads -> Sendings \cup {NotSending}]
        /\ reply' \in [GroupMessages -> {"ok", "error", None}]
        /\ reply'[Msg(t)] = "error" /\ \A n \in GroupMessages \ {Msg(t)} : reply'[n] = reply[n]
        /\ OneHandlerPerMessage' /\ \A u \in Threads : HandlerInv(u)'
    BY <1>1, <1>2, <1>8, HandlerEnds
  <2>2. GroupTypeOK'
    BY <1>1, <1>8, <2>1 DEF GroupInv, GroupTypeOK
  <2>3. OneChannelPerMember'
    BY <1>1, <1>8 DEF GroupInv, OneChannelPerMember
  <2>4. OkReachesEveryMember'
    BY <1>1, <1>8, <2>1 DEF GroupInv, OkReachesEveryMember
  <2> QED
    BY <2>1, <2>2, <2>3, <2>4 DEF GroupInv
<1>9. ASSUME saved' = [saved EXCEPT ![sending[t].msg] = SavedMessage(t)],
             rows' = rows \cup OfflineRows(t)
      PROVE  /\ saved' \in [GroupMessages -> SavedMessages \cup {None}]
             /\ rows' \subseteq Users \X GroupMessages
             /\ saved'[Msg(t)] = SavedMessage(t)
             /\ \A n \in GroupMessages \ {Msg(t)} : saved'[n] = saved[n]
             /\ \A u \in Users : <<u, Msg(t)>> \in rows' <=> u \in sending[t].offline
             /\ \A n \in GroupMessages \ {Msg(t)}, u \in Users : <<u, n>> \in rows' <=> <<u, n>> \in rows
             /\ OneChannelPerMember'
  <2>1. /\ saved' \in [GroupMessages -> SavedMessages \cup {None}]
        /\ saved'[Msg(t)] = SavedMessage(t)
        /\ \A n \in GroupMessages \ {Msg(t)} : saved'[n] = saved[n]
    BY <1>3, <1>6, <1>9 DEF GroupInv, GroupTypeOK, Msg
  <2>2. OfflineRows(t) = {<<u, Msg(t)>> : u \in sending[t].offline} /\ sending[t].offline \subseteq Users
    BY <1>2 DEF OfflineRows, Msg, Sendings
  <2>3. rows' \subseteq Users \X GroupMessages
    <3>1. rows \subseteq Users \X GroupMessages
      BY DEF GroupInv, GroupTypeOK
    <3>2. OfflineRows(t) \subseteq Users \X GroupMessages
      BY <1>3, <2>2
    <3> QED
      BY <1>9, <3>1, <3>2, Zenon
  <2>4. /\ \A u \in Users : <<u, Msg(t)>> \in rows' <=> u \in sending[t].offline
        /\ \A n \in GroupMessages \ {Msg(t)}, u \in Users : <<u, n>> \in rows' <=> <<u, n>> \in rows
    BY <1>5, <1>9, <2>2
  <2>5. rows' \cap pushed' = {} /\ counted' \subseteq rows'
    BY <1>1, <1>5, <1>9, <2>2 DEF GroupInv, OneChannelPerMember
  <2>6. ASSUME NEW x \in rows' \cup pushed'
        PROVE  saved'[x[2]] # None /\ x[1] \in saved'[x[2]].audience \ {saved'[x[2]].sender}
    <3>1. CASE x \in OfflineRows(t)
      <4>1. x[2] = Msg(t) /\ x[1] \in sending[t].offline
        BY <2>2, <3>1
      <4>2. x[1] \in Audience(t) /\ x[1] # sending[t].sender
        BY <1>4, <4>1 DEF LookupsDisjoint, Audience
      <4> QED
        BY <1>7, <2>1, <4>1, <4>2 DEF SavedMessage
    <3>2. CASE x \in rows \cup pushed
      <4>1. x[2] # Msg(t) /\ x[2] \in GroupMessages
        BY <1>4, <3>2 DEF GroupInv, GroupTypeOK, OneChannelPerMember
      <4> QED
        BY <2>1, <3>2, <4>1 DEF GroupInv, OneChannelPerMember
    <3> QED
      BY <1>1, <1>9, <2>6, <3>1, <3>2
  <2> QED
    BY <2>1, <2>3, <2>4, <2>5, <2>6 DEF OneChannelPerMember
<1>10. CASE /\ saved' = [saved EXCEPT ![sending[t].msg] = SavedMessage(t)]
            /\ rows' = rows \cup OfflineRows(t)
            /\ Conclude(t, "error")
  <2>1. /\ saved' \in [GroupMessages -> SavedMessages \cup {None}]
        /\ rows' \subseteq Users \X GroupMessages
        /\ \A n \in GroupMessages \ {Msg(t)} : saved'[n] = saved[n]
        /\ \A n \in GroupMessages \ {Msg(t)}, u \in Users : <<u, n>> \in rows' <=> <<u, n>> \in rows
        /\ OneChannelPerMember'
    BY <1>9, <1>10, Zenon
  <2>2. /\ sending' \in [Threads -> Sendings \cup {NotSending}]
        /\ reply' \in [GroupMessages -> {"ok", "error", None}]
        /\ reply'[Msg(t)] = "error" /\ \A n \in GroupMessages \ {Msg(t)} : reply'[n] = reply[n]
        /\ OneHandlerPerMessage' /\ \A u \in Threads : HandlerInv(u)'
    BY <1>1, <1>2, <1>10, <2>1, HandlerEnds
  <2>3. GroupTypeOK'
    BY <1>1, <2>1, <2>2 DEF GroupInv, GroupTypeOK
  <2>4. OkReachesEveryMember'
    BY <1>1, <2>1, <2>2 DEF GroupInv, GroupTypeOK, OkReachesEveryMember
  <2> QED
    BY <2>1, <2>2, <2>3, <2>4 DEF GroupInv
<1>11. CASE /\ saved' = [saved EXCEPT ![sending[t].msg] = SavedMessage(t)]
            /\ rows' = rows \cup OfflineRows(t)
            /\ sending' = [sending EXCEPT ![t].pc = "count"] /\ UNCHANGED reply
  <2> DEFINE new == [sending[t] EXCEPT !.pc = "count"]
  <2>1. new \in Sendings /\ new.msg = Msg(t) /\ new.pc = "count" /\ new.sender = sending[t].sender
        /\ new.offline = sending[t].offline /\ new.online = sending[t].online
        /\ new.todo = sending[t].todo
    BY <1>2 DEF Sendings, Msg
  <2>2. sending' = [sending EXCEPT ![t] = new]
    BY <1>11
  <2> HIDE DEF new
  <2>3. sending'[t] = new /\ \A v \in Threads \ {t} : sending'[v] = sending[v]
    BY <2>2 DEF GroupInv, GroupTypeOK
  <2>4. GroupTypeOK'
    BY <1>1, <1>9, <1>11, <2>1, <2>2 DEF GroupInv, GroupTypeOK
  <2>5. Msg(t)' = Msg(t) /\ Audience(t)' = Audience(t) /\ OnlineUsers(t)' = OnlineUsers(t)
    BY <2>1, <2>3 DEF Msg, Audience, OnlineUsers
  <2>6. OneHandlerPerMessage'
    BY <1>3, <2>3, <2>5, OneHandlerKept
  <2>7. \A v \in Threads \ {t} : HandlerInv(v)'
    BY <1>1, <1>3, <1>9, <1>11, <2>3, OthersKept
  <2>8. HandlerInv(t)'
    <3>1. LookupsDisjoint(t)'
      BY <1>4, <2>1, <2>3, <2>5 DEF LookupsDisjoint
    <3>2. /\ saved'[Msg(t)] # None
          /\ saved'[Msg(t)].sender = sending[t].sender
          /\ saved'[Msg(t)].audience = Audience(t)
      BY <1>7, <1>9, <1>11 DEF SavedMessage
    <3>3. \A u \in Users : <<u, Msg(t)>> \in rows' <=> u \in sending[t].offline
      BY <1>9, <1>11
    <3>4. FanOutCovers(t)'
      BY <2>1, <2>3, <2>5, <3>2, <3>3 DEF FanOutCovers
    <3> QED
      BY <1>4, <1>11, <2>5, <3>1, <3>4 DEF HandlerInv
  <2>9. OkReachesEveryMember'
    BY <1>1, <1>3, <1>4, <1>9, <1>11, GroupAssumption DEF GroupInv, OkReachesEveryMember
  <2> QED
    BY <1>9, <1>11, <2>4, <2>6, <2>7, <2>8, <2>9 DEF GroupInv
<1> QED
    BY <1>8, <1>10, <1>11 DEF SaveGroupMessage

\* The unread counters of the offline members.
LEMMA CountKeepsInv ==
    ASSUME GroupInv, NEW t \in Threads, CountUnread(t)
    PROVE  GroupInv'
<1>1. UNCHANGED <<members, logins, open, saved, rows, pushed, reply>>
    BY DEF CountUnread
<1>2. Active(t) /\ sending[t].pc = "count" /\ sending[t] \in Sendings
    BY ActiveType DEF CountUnread, Active, NotSending, GroupInv
<1>3. Msg(t) \in GroupMessages /\ \A u \in Threads \ {t} : Active(u) => Msg(u) # Msg(t)
    BY <1>2, OwnMessage
<1>4. LookupsDisjoint(t) /\ FanOutCovers(t) /\ reply[Msg(t)] = None
    BY <1>2 DEF GroupInv, HandlerInv
<1>5. counted' \subseteq counted \cup OfflineRows(t)
    BY DEF CountUnread, IncrUnread
<1>6. OfflineRows(t) \subseteq rows
    BY <1>2, <1>4 DEF OfflineRows, FanOutCovers, Msg, Sendings
<1>7. counted' \subseteq rows'
    BY <1>1, <1>5, <1>6 DEF GroupInv, OneChannelPerMember
<1> DEFINE new == [sending[t] EXCEPT !.pc = "push"]
<1>8. new \in Sendings /\ new.msg = Msg(t) /\ new.pc = "push" /\ new.sender = sending[t].sender
        /\ new.offline = sending[t].offline /\ new.online = sending[t].online
        /\ new.todo = sending[t].todo
    BY <1>2 DEF Sendings, Msg
<1>9. sending' = [sending EXCEPT ![t] = new]
    BY DEF CountUnread
<1> HIDE DEF new
<1>10. sending'[t] = new /\ \A v \in Threads \ {t} : sending'[v] = sending[v]
    BY <1>9 DEF GroupInv, GroupTypeOK
<1>11. GroupTypeOK'
    BY <1>1, <1>7, <1>8, <1>9 DEF GroupInv, GroupTypeOK
<1>12. Msg(t)' = Msg(t) /\ Audience(t)' = Audience(t) /\ OnlineUsers(t)' = OnlineUsers(t)
    BY <1>8, <1>10 DEF Msg, Audience, OnlineUsers
<1>13. OneHandlerPerMessage'
    BY <1>3, <1>10, <1>12, OneHandlerKept
<1>14. \A v \in Threads \ {t} : HandlerInv(v)'
    BY <1>1, <1>3, <1>10, OthersKept
<1>15. LookupsDisjoint(t)'
    BY <1>4, <1>8, <1>10, <1>12 DEF LookupsDisjoint
<1>16. FanOutCovers(t)'
    BY <1>1, <1>2, <1>4, <1>8, <1>10, <1>12 DEF FanOutCovers
<1>17. HandlerInv(t)'
    BY <1>1, <1>4, <1>12, <1>15, <1>16 DEF HandlerInv
<1>18. OneChannelPerMember' /\ OkReachesEveryMember'
    BY <1>1, <1>7 DEF GroupInv, OneChannelPerMember, OkReachesEveryMember
<1> QED
    BY <1>11, <1>13, <1>14, <1>17, <1>18 DEF GroupInv

\* A push takes its session from the ones to do, or ends the handler.
LEMMA PushKeepsInv ==
    ASSUME GroupInv, NEW t \in Threads, PushToMember(t)
    PROVE  GroupInv'
<1>1. UNCHANGED <<members, logins, open, saved, rows, counted>>
    BY DEF PushToMember
<1>2. Active(t) /\ sending[t].pc = "push" /\ sending[t] \in Sendings
    BY ActiveType DEF PushToMember, Active, NotSending, GroupInv
<1>3. Msg(t) \in GroupMessages /\ \A u \in Threads \ {t} : Active(u) => Msg(u) # Msg(t)
    BY <1>2, OwnMessage
<1>4. LookupsDisjoint(t) /\ FanOutCovers(t) /\ reply[Msg(t)] = None
    BY <1>2 DEF GroupInv, HandlerInv
<1>5. CASE Conclude(t, "error") /\ UNCHANGED pushed
  <2>1. /\ sending' \in [Threads -> Sendings \cup {NotSending}]
        /\ reply' \in [GroupMessages -> {"ok", "error", None}]
        /\ reply'[Msg(t)] = "error" /\ \A n \in GroupMessages \ {Msg(t)} : reply'[n] = reply[n]
        /\ OneHandlerPerMessage' /\ \A u \in Threads : HandlerInv(u)'
    BY <1>1, <1>2, <1>5, HandlerEnds
  <2>2. GroupTypeOK'
    BY <1>1, <1>5, <2>1 DEF GroupInv, GroupTypeOK
  <2>3. OneChannelPerMember'
    BY <1>1, <1>5 DEF GroupInv, OneChannelPerMember
  <2>4. OkReachesEveryMember'
    BY <1>1, <1>5, <2>1 DEF GroupInv, OkReachesEveryMember
  <2> QED
    BY <2>1, <2>2, <2>3, <2>4 DEF GroupInv
<1>6. ASSUME NEW s \in sending[t].online,
             sending' = [sending EXCEPT ![t].online = @ \ {s}],
             pushed' = pushed \cup {<<s[1], sending[t].msg>>},
             UNCHANGED reply
      PROVE  GroupInv'
  <2> DEFINE new == [sending[t] EXCEPT !.online = @ \ {s}]
  <2>1. new \in Sendings /\ new.msg = Msg(t) /\ new.pc = "push" /\ new.sender = sending[t].sender
        /\ new.offline = sending[t].offline /\ new.online = sending[t].online \ {s}
        /\ new.todo = sending[t].todo
    BY <1>2 DEF Sendings, Msg
  <2>2. sending' = [sending EXCEPT ![t] = new]
    BY <1>6
  <2> HIDE DEF new
  <2>3. sending'[t] = new /\ \A v \in Threads \ {t} : sending'[v] = sending[v]
    BY <2>2 DEF GroupInv, GroupTypeOK
  <2>4. s[1] \in Users /\ s[1] \in OnlineUsers(t) /\ s[1] \in Audience(t)
    BY <1>2, <1>6 DEF Sendings, Sessions, OnlineUsers, Audience
  <2>5. pushed' = pushed \cup {<<s[1], Msg(t)>>}
    BY <1>6 DEF Msg
  <2>6. GroupTypeOK'
    <3>1. pushed \subseteq Users \X GroupMessages
      BY DEF GroupInv, GroupTypeOK
    <3>2. pushed' \subseteq Users \X GroupMessages
      BY <1>3, <2>4, <2>5, <3>1
    <3>3. sending' \in [Threads -> Sendings \cup {NotSending}]
      BY <2>1, <2>2 DEF GroupInv, GroupTypeOK
    <3> QED
      BY <1>1, <1>6, <3>2, <3>3 DEF GroupInv, GroupTypeOK
  <2>7. Msg(t)' = Msg(t)
    BY <2>1, <2>3 DEF Msg
  <2>8. /\ Audience(t)' \subseteq Audience(t) /\ OnlineUsers(t)' \subseteq OnlineUsers(t)
        /\ Audience(t) \subseteq Audience(t)' \cup {s[1]}
    BY <2>1, <2>3 DEF Audience, OnlineUsers
  <2>9. OneHandlerPerMessage'
    BY <1>3, <2>3, <2>7, OneHandlerKept
  <2>10. \A v \in Threads \ {t} : HandlerInv(v)'
    BY <1>1, <1>3, <1>6, <2>3, <2>5, OthersKept
  <2>11. LookupsDisjoint(t)'
    BY <1>4, <2>1, <2>3, <2>8 DEF LookupsDisjoint
  <2>12. FanOutCovers(t)'
    <3>1. \A u \in saved[Msg(t)].audience : u \in Audience(t)' \/ <<u, Msg(t)>> \in pushed'
      BY <1>2, <1>4, <2>5, <2>8 DEF FanOutCovers
    <3>2. /\ saved[Msg(t)] # None
          /\ saved[Msg(t)].sender = sending[t].sender
          /\ Audience(t)' \subseteq saved[Msg(t)].audience
          /\ \A u \in Users : <<u, Msg(t)>> \in rows <=> u \in sending[t].offline
      BY <1>2, <1>4, <2>8 DEF FanOutCovers
    <3> QED
      BY <1>1, <2>1, <2>3, <2>7, <3>1, <3>2 DEF FanOutCovers
  <2>13. HandlerInv(t)'
    BY <1>4, <1>6, <2>7, <2>11, <2>12 DEF HandlerInv
  <2>14. OneChannelPerMember'
    <3>1. <<s[1], Msg(t)>> \notin rows
      BY <1>2, <1>4, <2>4 DEF FanOutCovers, LookupsDisjoint
    <3>2. saved[Msg(t)] # None /\ s[1] \in saved[Msg(t)].audience \ {saved[Msg(t)].sender}
      BY <1>2, <1>4, <2>4 DEF FanOutCovers, LookupsDisjoint
    <3> QED
      BY <1>1, <2>5, <3>1, <3>2 DEF GroupInv, OneChannelPerMember
  <2>15. OkReachesEveryMember'
    BY <1>1, <1>6, <2>5 DEF GroupInv, OkReachesEveryMember
  <2> QED
    BY <2>6, <2>9, <2>10, <2>13, <2>14, <2>15 DEF GroupInv
<1> QED
    BY <1>5, <1>6 DEF PushToMember

\* The OK is sent when nobody is left to push to.
LEMMA RespondKeepsInv ==
    ASSUME GroupInv, NEW t \in Threads, RespondToSender(t)
    PROVE  GroupInv'
<1>1. UNCHANGED <<members, logins, open, saved, rows, counted, pushed>> /\ Conclude(t, "ok")
    BY DEF RespondToSender
<1>2. Active(t) /\ sending[t].pc = "push" /\ sending[t] \in Sendings /\ sending[t].online = {}
    BY ActiveType DEF RespondToSender, Active, NotSending, GroupInv
<1>3. Msg(t) \in GroupMessages /\ \A u \in Threads \ {t} : Active(u) => Msg(u) # Msg(t)
    BY <1>2, OwnMessage
<1>4. /\ sending' \in [Threads -> Sendings \cup {NotSending}]
      /\ reply' \in [GroupMessages -> {"ok", "error", None}]
      /\ reply'[Msg(t)] = "ok" /\ \A n \in GroupMessages \ {Msg(t)} : reply'[n] = reply[n]
      /\ OneHandlerPerMessage' /\ \A u \in Threads : HandlerInv(u)'
    BY <1>1, <1>2, HandlerEnds
<1>5. GroupTypeOK'
    BY <1>1, <1>4 DEF GroupInv, GroupTypeOK
<1>6. FanOutCovers(t)
    BY <1>2 DEF GroupInv, HandlerInv
<1>7. Audience(t) = sending[t].offline /\ Audience(t) \subseteq Users
    BY <1>2, ActiveType DEF GroupInv, Audience
<1>8. \A u \in saved[Msg(t)].audience : <<u, Msg(t)>> \in rows \cup pushed
    BY <1>2, <1>6, <1>7 DEF FanOutCovers
<1>9. saved[Msg(t)] # None
    BY <1>2, <1>6 DEF FanOutCovers
<1>10. OneChannelPerMember'
    BY <1>1 DEF GroupInv, OneChannelPerMember
<1>11. OkReachesEveryMember'
    BY <1>1, <1>4, <1>8, <1>9 DEF GroupInv, OkReachesEveryMember
<1> QED
    BY <1>4, <1>5, <1>10, <1>11 DEF GroupInv

-----------------------------------------------------------------------------
LEMMA GroupInvStep == GroupInv /\ [GroupNext]_groupVars => GroupInv'
<1> SUFFICES ASSUME GroupInv, [GroupNext]_groupVars PROVE GroupInv'
    OBVIOUS
<1>1. CASE UNCHANGED groupVars
  <2>1. GroupTypeOK'
    BY <1>1 DEF groupVars, GroupInv, GroupTypeOK
  <2> QED
    BY <1>1, <2>1, MembershipKeepsInv DEF groupVars
<1>2. CASE GroupNext
    BY <1>2, SessionsKeepInv, ReadKeepsInv, LookupKeepsInv, SaveKeepsInv, CountKeepsInv,
       PushKeepsInv, RespondKeepsInv
    DEF GroupNext, GroupStep
<1> QED
    BY <1>1, <1>2

LEMMA GroupInvInit == GroupInit => GroupInv
<1> SUFFICES ASSUME GroupInit PROVE GroupInv
    OBVIOUS
<1>1. GroupTypeOK
    BY DEF GroupInit, GroupTypeOK
<1>2. \A t \in Threads : ~Active(t)
    BY DEF GroupInit, Active
<1>3. OneChannelPerMember
    BY DEF GroupInit, OneChannelPerMember
<1>4. OkReachesEveryMember
    BY GroupAssumption DEF GroupInit, OkReachesEveryMember
<1> QED
    BY <1>1, <1>2, <1>3, <1>4 DEF GroupInv, OneHandlerPerMessage, HandlerInv

\* An OK to the sender of a group message means that every member the fan-out
\* found has an offline row or a push, whatever joins, leaves, logins and
\* disconnects ran between the lookups, the save and the pushes.
THEOREM FanOutIsComplete == GroupSpec => []OkReachesEveryMember
<1>1. GroupInv => OkReachesEveryMember
    BY DEF GroupInv
<1> QED
    BY <1>1, GroupInvInit, GroupInvStep, PTL DEF GroupSpec

\* No member gets both, and nobody outside the audience gets anything.
THEOREM NobodyGetsItTwice == GroupSpec => []OneChannelPerMember
<1>1. GroupInv => OneChannelPerMember
    BY DEF GroupInv
<1> QED
    BY <1>1, GroupInvInit, GroupInvStep, PTL DEF GroupSpec

=============================================================================
