------------------------------ MODULE MCServices ------------------------------
(***************************************************************************)
(* One instance of each component that runs beside the others without      *)
(* sharing state with them: a connection pool, the friend and the group    *)
(* handlers, the byte stream, the history and the Qt client.  focus names  *)
(* the one that moves; the others rest in their initial states.            *)
(***************************************************************************)
EXTENDS ConnectionPool, FriendService, GroupService, Wire, History, QtClient, TLC

VARIABLE focus

allVars == <<focus, connVars, friendVars, groupVars, wireVars, historyVars, clientVars>>

ServicesInit ==
    /\ focus \in {"connections", "friends", "groups", "wire", "history", "client"}
    /\ ConnInit /\ FriendInit /\ GroupInit /\ WireInit /\ HistoryInit /\ ClientInit

ServicesNext ==
    /\ UNCHANGED focus
    /\ \/ /\ focus = "connections" /\ ConnNext
          /\ UNCHANGED <<friendVars, groupVars, wireVars, historyVars, clientVars>>
       \/ /\ focus = "friends" /\ FriendNext
          /\ UNCHANGED <<connVars, groupVars, wireVars, historyVars, clientVars>>
       \/ /\ focus = "groups" /\ GroupNext
          /\ UNCHANGED <<connVars, friendVars, wireVars, historyVars, clientVars>>
       \/ /\ focus = "wire" /\ WireNext
          /\ UNCHANGED <<connVars, friendVars, groupVars, historyVars, clientVars>>
       \/ /\ focus = "history" /\ HistoryNext
          /\ UNCHANGED <<connVars, friendVars, groupVars, wireVars, clientVars>>
       \/ /\ focus = "client" /\ ClientNext
          /\ UNCHANGED <<connVars, friendVars, groupVars, wireVars, historyVars>>

ServicesSpec == ServicesInit /\ [][ServicesNext]_allVars

\* Threads are interchangeable.
Symmetry == Permutations(Threads)

\* No field, an empty one, one type twice, a value that looks like a header,
\* and a value too long to be encoded.
MCBodies ==
    {<<>>,
     <<[type |-> 1, value |-> <<>>]>>,
     <<[type |-> 1, value |-> <<9>>], [type |-> 1, value |-> <<>>]>>,
     <<[type |-> 2, value |-> <<9, 0>>]>>,
     <<[type |-> 1, value |-> <<0, 0, 0>>]>>}
===============================================================================
