--------------------------- MODULE SessionManager ---------------------------
(***************************************************************************)
(* The in-memory login table of the server, SessionManager: two maps kept  *)
(* in step under one mutex, users_ (user -> session) and sessions_         *)
(* (session -> user).  Every critical section of SessionManager.cpp is one *)
(* action here; what its callers do between two critical sections is in    *)
(* OnlineService.                                                          *)
(*                                                                         *)
(* A weak_ptr<Session> in the table expires only after the session has     *)
(* closed (TcpServer holds the owning pointer until the close callback),   *)
(* so "expired or closed()" is Closed(s).                                  *)
(***************************************************************************)
CONSTANTS
    Users,      \* user ids (positive, validated by every entry point)
    Sessions,   \* session ids; TcpServer never reuses one
    None        \* absence of a map entry

ASSUME NoneAssumption == None \notin Users \cup Sessions

VARIABLES
    conn,       \* Session::state_/closed_ of every session
    users,      \* users_: the session a user is bound to
    sessions    \* sessions_: the user a session is bound to

tableVars == <<users, sessions>>

ConnStates == {"new", "open", "closing", "closed"}

TableTypeOK ==
    /\ conn \in [Sessions -> ConnStates]
    /\ users \in [Users -> Sessions \cup {None}]
    /\ sessions \in [Sessions -> Users \cup {None}]

TableInit ==
    /\ conn = [s \in Sessions |-> "new"]
    /\ users = [u \in Users |-> None]
    /\ sessions = [s \in Sessions |-> None]

-----------------------------------------------------------------------------
\* closed_ is set by the first statement of closeInLoop, before the callback.
Closed(s) == conn[s] \in {"closing", "closed"}

\* Variant: bindUser does not look at the session's own entry.
NeverBoundToAnother(u, s) == FALSE

BoundToAnother(u, s) == sessions[s] \notin {None, u}

\* The results of the two lookups; their side effects are the actions below.
SessionOf(u) == IF users[u] # None /\ ~Closed(users[u]) THEN users[u] ELSE None

UserOf(s) ==
    IF sessions[s] # None /\ users[sessions[s]] = s /\ ~Closed(s)
    THEN sessions[s]
    ELSE None

EraseBindingLocked(u, s) ==
    /\ users' = [users EXCEPT ![u] = None]
    /\ sessions' = [sessions EXCEPT ![s] = None]

\* Variant: the sessions_ entry of the displaced session stays behind.
BindLockedKeepsOld(u, s) ==
    /\ ~BoundToAnother(u, s)
    /\ users' = [users EXCEPT ![u] = s]
    /\ sessions' = [sessions EXCEPT ![s] = u]

\* The critical section of bindUser: the newest session wins the user's entry
\* and the entry of the session it displaces disappears with it.
BindLocked(u, s) ==
    /\ ~BoundToAnother(u, s)
    /\ users' = [users EXCEPT ![u] = s]
    /\ sessions' = [x \in Sessions |-> IF x = s THEN u
                                    ELSE IF x = users[u] THEN None
                                    ELSE sessions[x]]

\* Variant: unbindUser ignores the session id.
UnbindAny(u, s) == users[u] # None

\* unbindUser removes the binding only when it still names this very session.
UnbindMatches(u, s) == users[u] = s

UnbindLocked(u, s) ==
    IF UnbindMatches(u, s) THEN EraseBindingLocked(u, users[u])
                           ELSE UNCHANGED tableVars

\* getSessionByUser erases the binding of a dead session it meets.
GetSessionByUser(u) ==
    IF users[u] # None /\ Closed(users[u])
    THEN EraseBindingLocked(u, users[u])
    ELSE UNCHANGED tableVars

\* getUserBySession erases a stale sessions_ entry, and the whole binding of
\* a dead session.
GetUserBySession(s) ==
    LET dead == sessions[s] # None /\ users[sessions[s]] = s /\ Closed(s)
    IN  /\ sessions' = IF UserOf(s) = None THEN [sessions EXCEPT ![s] = None]
                                           ELSE sessions
        /\ users' = IF dead THEN [users EXCEPT ![sessions[s]] = None] ELSE users

\* getBoundUserBySession is the plain read of the map.
GetBoundUserBySession(s) == sessions[s]

-----------------------------------------------------------------------------
\* The two maps are inverse to each other: a user has one session, a session
\* one user, and neither map names a binding the other does not have.  So the
\* "session binding is stale" branch of getUserBySession never runs.
BindingsConsistent ==
    /\ \A u \in Users : users[u] # None => sessions[users[u]] = u
    /\ \A s \in Sessions : sessions[s] # None => users[sessions[s]] = s
=============================================================================
