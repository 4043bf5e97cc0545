---------------------------- MODULE AccountService ----------------------------
(***************************************************************************)
(* Accounts: AuthService::handleRegister over UserDao, and the part of     *)
(* AuthService::handleLogin that comes before the bind, over UserDao and   *)
(* LoginRateLimiter (a Redis counter per user name and address).           *)
(*                                                                         *)
(* The limiter is read before the password is checked and incremented      *)
(* after it, by threads that do not know of each other.                    *)
(***************************************************************************)
EXTENDS Business, Naturals, FiniteSets

CONSTANTS
    Names, Passwords,
    Addresses,    \* peer addresses; a counter belongs to a name and an address
    MaxFailures   \* AuthServiceOptions::max_login_failures

ASSUME AccountAssumption ==
    /\ MaxFailures \in Nat \ {0}
    /\ IsFiniteSet(Threads)
    /\ None \notin Passwords

VARIABLES
    accounts,    \* users: name -> password, None while the name is free
    failures,    \* Redis: <<name, address>> -> failures counted, 0 without a key
    expiry,      \* Redis: what is left of the key's TTL
    attempt,     \* what each thread is executing
    registered   \* history: <<name, password>> answered with OK

accountVars == <<accounts, failures, expiry, attempt, registered>>

\* loginFailureKey puts lengths before the two parts, so that they stay apart.
LoginKeys == Names \X Addresses

Attempts == [pc : {"allow", "verify", "record", "clear", "create", "reread"},
             name : Names, address : Addresses, password : Passwords]
NoAttempt == [pc |-> "idle"]

AccountTypeOK ==
    /\ accounts \in [Names -> Passwords \cup {None}]
    /\ failures \in [LoginKeys -> Nat]
    /\ expiry \in [LoginKeys -> {"none", "fresh", "aged"}]
    /\ attempt \in [Threads -> Attempts \cup {NoAttempt}]
    /\ registered \subseteq Names \X Passwords

AccountInit ==
    /\ accounts = [n \in Names |-> None]
    /\ failures = [k \in LoginKeys |-> 0]
    /\ expiry = [k \in LoginKeys |-> "none"]
    /\ attempt = [t \in Threads |-> NoAttempt]
    /\ registered = {}

LoginKey(t) == <<attempt[t].name, attempt[t].address>>
Proceed(t, pc) == attempt' = [attempt EXCEPT ![t].pc = pc]
Done(t) == attempt' = [attempt EXCEPT ![t] = NoAttempt]

BeginAttempt(t) ==
    /\ attempt[t] = NoAttempt
    /\ \E a \in Attempts : a.pc \in {"allow", "create"} /\ attempt' = [attempt EXCEPT ![t] = a]
    /\ UNCHANGED <<accounts, failures, expiry, registered>>

-----------------------------------------------------------------------------
\* Login.

\* Variant: the limit is passed only once the counter exceeds it.
AllowOneMore(t) ==
    /\ attempt[t].pc = "allow"
    /\ IF failures[LoginKey(t)] <= MaxFailures THEN Proceed(t, "verify") ELSE Done(t)
    /\ UNCHANGED <<accounts, failures, expiry, registered>>

\* GET; a name at its limit is refused.
Allow(t) ==
    /\ attempt[t].pc = "allow"
    /\ IF failures[LoginKey(t)] < MaxFailures THEN Proceed(t, "verify") ELSE Done(t)
    /\ UNCHANGED <<accounts, failures, expiry, registered>>

\* The salted hash of the password that was entered is compared with the
\* stored one.
FindUserByUsername(n) == accounts[n]
PasswordMatches(n, password) == FindUserByUsername(n) = password

\* An unknown name counts as a failure as well.
Verify(t) ==
    /\ attempt[t].pc = "verify"
    /\ Proceed(t, IF PasswordMatches(attempt[t].name, attempt[t].password) THEN "clear" ELSE "record")
    /\ UNCHANGED <<accounts, failures, expiry, registered>>

\* Variant: INCR and EXPIRE as two commands, of which the second may fail.
RecordFailureInTwoCommands(t) ==
    LET k == LoginKey(t)
    IN  /\ attempt[t].pc = "record"
        /\ failures' = [failures EXCEPT ![k] = @ + 1]
        /\ \/ expiry' = [expiry EXCEPT ![k] = "fresh"]
           \/ StorageMayFail /\ UNCHANGED expiry
        /\ Done(t)
        /\ UNCHANGED <<accounts, registered>>

\* One script: INCR, and EXPIRE, which starts the TTL again.
RecordFailure(t) ==
    LET k == LoginKey(t)
    IN  /\ attempt[t].pc = "record"
        /\ failures' = [failures EXCEPT ![k] = @ + 1]
        /\ expiry' = [expiry EXCEPT ![k] = "fresh"]
        /\ Done(t)
        /\ UNCHANGED <<accounts, registered>>

\* DEL.  When it succeeds the handler goes on to OnlineService::bindUser.
ClearFailures(t) ==
    LET k == LoginKey(t)
    IN  /\ attempt[t].pc = "clear"
        /\ failures' = [failures EXCEPT ![k] = 0]
        /\ expiry' = [expiry EXCEPT ![k] = "none"]
        /\ Done(t)
        /\ UNCHANGED <<accounts, registered>>

\* Redis: the TTL runs down, then the counter is gone.
AgeCounter(k) ==
    /\ expiry[k] = "fresh"
    /\ expiry' = [expiry EXCEPT ![k] = "aged"]
    /\ UNCHANGED <<accounts, failures, attempt, registered>>

ExpireCounter(k) ==
    /\ expiry[k] = "aged"
    /\ failures' = [failures EXCEPT ![k] = 0]
    /\ expiry' = [expiry EXCEPT ![k] = "none"]
    /\ UNCHANGED <<accounts, attempt, registered>>

-----------------------------------------------------------------------------
\* Registration.

\* The unique index on the name refuses the second INSERT.  An INSERT that was
\* applied may still be answered with an error.
CreateUser(t) ==
    LET n == attempt[t].name
    IN  /\ attempt[t].pc = "create"
        /\ IF accounts[n] = None
           THEN /\ accounts' = [accounts EXCEPT ![n] = attempt[t].password]
                /\ Proceed(t, "reread") \/ (StorageMayFail /\ Done(t))
           ELSE Done(t) /\ UNCHANGED accounts
        /\ UNCHANGED <<failures, expiry, registered>>

\* The record is read back, by name, on a connection acquired anew.
RereadUser(t) ==
    LET n == attempt[t].name
    IN  /\ attempt[t].pc = "reread"
        /\ registered' = registered \cup {<<n, attempt[t].password>>}
        /\ Done(t)
        /\ UNCHANGED <<accounts, failures, expiry>>

\* A command that fails without effect ends the handler: a login is refused
\* when the limiter cannot be asked, told or cleared.
AttemptFails(t) ==
    /\ StorageMayFail
    /\ attempt[t] # NoAttempt
    /\ Done(t)
    /\ UNCHANGED <<accounts, failures, expiry, registered>>

AccountStep(t) ==
    \/ Allow(t) \/ Verify(t) \/ RecordFailure(t) \/ ClearFailures(t)
    \/ CreateUser(t) \/ RereadUser(t)

AccountNext ==
    \/ \E t \in Threads : BeginAttempt(t) \/ AccountStep(t) \/ AttemptFails(t)
    \/ \E k \in LoginKeys : AgeCounter(k) \/ ExpireCounter(k)

AccountSpec == AccountInit /\ [][AccountNext]_accountVars

-----------------------------------------------------------------------------
\* Attempts that were all let in before the first of them failed go past the
\* limit, but by no more than the threads that run at once, less the one that
\* reached the limit.
FailuresBounded ==
    \A k \in LoginKeys : failures[k] < MaxFailures + Cardinality(Threads)

\* A name that is locked out is let in again: no failure counted on the way can
\* leave a counter that never expires, and while the name is locked out nobody
\* starts its TTL again for ever.
LockoutEnds ==
    \A k \in LoginKeys : failures[k] >= MaxFailures ~> failures[k] < MaxFailures

\* Whoever was told that the name is theirs can log in with their password: of
\* two registrations of one name at once only one is told so, whichever read
\* the record back.
RegistrationHolds == \A r \in registered : accounts[r[1]] = r[2]
=============================================================================
