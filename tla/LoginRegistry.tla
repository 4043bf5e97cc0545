---------------------------- MODULE LoginRegistry ----------------------------
(***************************************************************************)
(* What the login path promises, without threads, Redis or a second map:   *)
(* a user is bound to at most one session and a session to at most one     *)
(* user; the newest login wins ("kick old, keep new"); the session it      *)
(* displaces is condemned in the same instant, and a condemned session     *)
(* closes.                                                                 *)
(***************************************************************************)
CONSTANTS Users, Sessions, None

VARIABLES
    life,       \* "new", "open" or "closed"
    owner,      \* user -> session bound to the user, or None
    kicked      \* displaced sessions that have yet to close

vars == <<life, owner, kicked>>

Init ==
    /\ life = [s \in Sessions |-> "new"]
    /\ owner = [u \in Users |-> None]
    /\ kicked = {}

Connect(s) ==
    /\ life[s] = "new"
    /\ life' = [life EXCEPT ![s] = "open"]
    /\ UNCHANGED <<owner, kicked>>

Close(s) ==
    /\ life[s] = "open"
    /\ life' = [life EXCEPT ![s] = "closed"]
    /\ kicked' = kicked \ {s}
    /\ UNCHANGED owner

\* A login displaces the user's previous session, if that is another one.
Login(u, s) ==
    /\ life[s] # "new"
    /\ \A v \in Users \ {u} : owner[v] # s
    /\ owner' = [owner EXCEPT ![u] = s]
    /\ kicked' = kicked \cup {x \in {owner[u]} \ {s, None} : life[x] = "open"}
    /\ UNCHANGED life

\* A binding ends by logout, or because its session has closed.
Unbind(u) ==
    /\ owner[u] # None
    /\ owner' = [owner EXCEPT ![u] = None]
    /\ UNCHANGED <<life, kicked>>

Next ==
    \/ \E s \in Sessions : Connect(s) \/ Close(s)
    \/ \E u \in Users : Unbind(u) \/ \E s \in Sessions : Login(u, s)

SafetySpec == Init /\ [][Next]_vars

\* A condemned session closes; nothing else is promised to happen.
Spec ==
    /\ SafetySpec
    /\ \A s \in Sessions : WF_vars(s \in kicked /\ Close(s))
=============================================================================
