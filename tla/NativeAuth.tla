----------------------------- MODULE NativeAuth -----------------------------
(***************************************************************************)
(* One native account and its sessions: login with lockout, the sessions'   *)
(* use, expiry and logout (native_auth.py), and the password reset of       *)
(* scripts/reset_native_password.py.                                        *)
(*                                                                          *)
(* A login holds the row lock of the credential (FOR UPDATE) from its       *)
(* decision to its commit, and so does a reset from the moment it writes    *)
(* the password.  A request and a logout lock nothing: they read a session  *)
(* and write columns of it by primary key later.                            *)
(*                                                                          *)
(* Abstractions.  A password is the number of the reset that set it, and a  *)
(* login knows the present one or does not.  Of failed_attempts only the    *)
(* comparison with auth_max_failed_attempts matters, so it is counted up to *)
(* there.  A time limit is ahead ("live") or has passed.  active stands for *)
(* credential and membership together; the code never clears either.        *)
(***************************************************************************)
EXTENDS Integers, FiniteSets

CONSTANTS
    Thread,       \* request threads, and runs of the reset script
    Threshold,    \* auth_max_failed_attempts
    MaxSessions,  \* bound on the logins
    MaxPasswords  \* bound on the passwords set

ASSUME LimitsOK ==
    /\ Threshold \in Nat \ {0}
    /\ MaxSessions \in Nat
    /\ MaxPasswords \in Nat \ {0}

VARIABLES
    credential,  \* the row of native_credentials
    active,      \* credential and membership are active
    sessions,    \* the rows of native_auth_sessions, in order of creation
    txn,         \* what each thread is doing, and what it has read
    streak       \* history: rejected attempts since the last success or reset

state == <<credential, active, sessions, streak>>
vars  == <<credential, active, sessions, txn, streak>>

-----------------------------------------------------------------------------
SessionId == 1 .. MaxSessions
Password  == 1 .. MaxPasswords

Credential == [password : Password, failed : 0 .. Threshold,
               lock : {"none", "live", "lapsed"}]

\* limit says whether idle_expires_at or also expires_at has passed.
Session == [status : {"absent", "open", "revoked"}, password : 0 .. MaxPasswords,
            limit : {"live", "idle", "expired"}]

NoSession == [status |-> "absent", password |-> 0, limit |-> "live"]

\* What is held of what was read: right is the result of verify_password, seen
\* the credential, clear that failed_attempts was 0, lapsed and active what a
\* request found of its session and identity, found the sessions a reset lists.
Idle  == [op |-> "none"]
Login == [op : {"login"}, right : BOOLEAN, seen : Credential, active : BOOLEAN]
Use   == [op : {"request", "logout"}, session : SessionId, lapsed : BOOLEAN,
          active : BOOLEAN]
Reset == [op : {"reset"}, at : {"read", "written", "listed"}, clear : BOOLEAN,
          found : SUBSET SessionId]

Txn == {Idle} \cup Login \cup Use \cup Reset

TypeOK ==
    /\ credential \in Credential
    /\ active \in BOOLEAN
    /\ sessions \in [SessionId -> Session]
    /\ txn \in [Thread -> Txn]
    /\ streak \in 0 .. Threshold

Init ==
    /\ credential = [password |-> 1, failed |-> 0, lock |-> "none"]
    /\ active = TRUE
    /\ sessions = [s \in SessionId |-> NoSession]
    /\ txn = [t \in Thread |-> Idle]
    /\ streak = 0

-----------------------------------------------------------------------------
Turns(t, next) == txn' = [txn EXCEPT ![t] = next]

\* The row lock of the credential.
Locks(t) ==
    \/ txn[t].op = "login"
    \/ txn[t].op = "reset" /\ txn[t].at # "read"

Unlocked == \A t \in Thread : ~Locks(t)

Open == {s \in SessionId : sessions[s].status = "open"}

\* Mutant: the count goes on.
OneMore(n, count) == count + 1

\* One more, up to n.
UpTo(n, count) == IF count < n THEN count + 1 ELSE n

-----------------------------------------------------------------------------
(* Login: authenticate_native.                                              *)

\* Mutant: the row is read without FOR UPDATE.
LoginReadsUnlocked(t) ==
    /\ txn[t] = Idle
    /\ \E right \in BOOLEAN :
         Turns(t, [op |-> "login", right |-> right, seen |-> credential,
                   active |-> active])
    /\ UNCHANGED state

\* Waits for the row lock, and then sees what its last holder committed.
LoginLocks(t) ==
    /\ txn[t] = Idle
    /\ Unlocked
    /\ \E right \in BOOLEAN :
         Turns(t, [op |-> "login", right |-> right, seen |-> credential,
                   active |-> active])
    /\ UNCHANGED state

\* Mutant: the lock is not looked at.
ValidWhenLocked(t) == txn[t].right /\ txn[t].active

Valid(t) ==
    /\ txn[t].seen.lock # "live"
    /\ txn[t].right
    /\ txn[t].active

LoginLockedOut(t) ==
    /\ txn[t].op = "login"
    /\ ~Valid(t)
    /\ txn[t].seen.lock = "live"
    /\ Turns(t, Idle)
    /\ UNCHANGED state

LoginRejected(t) ==
    /\ txn[t].op = "login"
    /\ ~Valid(t)
    /\ txn[t].seen.lock # "live"
    /\ LET failed == UpTo(Threshold, txn[t].seen.failed)
       IN  credential' = [credential EXCEPT
                            !.failed = failed,
                            !.lock = IF failed = Threshold THEN "live" ELSE @]
    /\ streak' = UpTo(Threshold, streak)
    /\ Turns(t, Idle)
    /\ UNCHANGED <<active, sessions>>

LoginSucceeds(t) ==
    /\ txn[t].op = "login"
    /\ Valid(t)
    /\ \E s \in SessionId :
         /\ \A r \in SessionId : sessions[r].status = "absent" <=> r >= s
         /\ sessions' = [sessions EXCEPT ![s] =
              [NoSession EXCEPT !.status = "open", !.password = txn[t].seen.password]]
    /\ credential' = [credential EXCEPT !.failed = 0, !.lock = "none"]
    /\ streak' = 0
    /\ Turns(t, Idle)
    /\ UNCHANGED active

-----------------------------------------------------------------------------
(* Requests and logout: authenticate_session, revoke_session.               *)

Reads(t, op) ==
    /\ txn[t] = Idle
    /\ \E s \in Open :
         Turns(t, [op |-> op, session |-> s,
                   lapsed |-> sessions[s].limit # "live", active |-> active])
    /\ UNCHANGED state

RequestReads(t) == Reads(t, "request")
LogoutReads(t)  == Reads(t, "logout")

\* revoked_at is written, whatever became of the row.
Revokes(t) ==
    /\ sessions' = [sessions EXCEPT ![txn[t].session].status = "revoked"]
    /\ Turns(t, Idle)
    /\ UNCHANGED <<credential, active, streak>>

LogoutCommits(t) == txn[t].op = "logout" /\ Revokes(t)

RequestExpired(t) ==
    txn[t].op = "request" /\ txn[t].lapsed /\ Revokes(t)

RequestDisowned(t) ==
    txn[t].op = "request" /\ ~txn[t].lapsed /\ ~txn[t].active /\ Revokes(t)

InForce(t) == txn[t].op = "request" /\ ~txn[t].lapsed /\ txn[t].active

\* The session was seen lately enough.
RequestServed(t) ==
    /\ InForce(t)
    /\ Turns(t, Idle)
    /\ UNCHANGED state

\* Mutant: the whole row is written back as it was read.
TouchedWhole(t) ==
    [sessions[txn[t].session] EXCEPT !.status = "open",
       !.limit = IF @ = "expired" THEN @ ELSE "live"]

\* idle_expires_at moves on, but not past expires_at; revoked_at is not written.
Touched(t) ==
    [sessions[txn[t].session] EXCEPT
       !.limit = IF @ = "expired" THEN @ ELSE "live"]

RequestTouches(t) ==
    /\ InForce(t)
    /\ sessions' = [sessions EXCEPT ![txn[t].session] = Touched(t)]
    /\ Turns(t, Idle)
    /\ UNCHANGED <<credential, active, streak>>

-----------------------------------------------------------------------------
(* The reset script, and revoke_all_credential_sessions.                    *)

ResetReads(t) ==
    /\ txn[t] = Idle
    /\ Turns(t, [op |-> "reset", at |-> "read",
                clear |-> credential.failed = 0, found |-> {}])
    /\ UNCHANGED state

\* Mutant: there is no flush, and the sessions are listed without the lock.
ResetWritesLater(t) ==
    /\ txn[t].op = "reset" /\ txn[t].at = "read"
    /\ Turns(t, [txn[t] EXCEPT !.at = "listed", !.found = Open])
    /\ UNCHANGED state

\* db.flush: the UPDATE waits for the row lock, and holds it.
ResetWrites(t) ==
    /\ txn[t].op = "reset" /\ txn[t].at = "read"
    /\ Unlocked
    /\ Turns(t, [txn[t] EXCEPT !.at = "written"])
    /\ UNCHANGED state

ResetLists(t) ==
    /\ txn[t].op = "reset" /\ txn[t].at = "written"
    /\ Turns(t, [txn[t] EXCEPT !.at = "listed", !.found = Open])
    /\ UNCHANGED state

\* failed_attempts is written only if it was not 0 when it was read.
ResetCommits(t) ==
    /\ txn[t].op = "reset" /\ txn[t].at = "listed"
    /\ credential.password < MaxPasswords
    /\ credential' = [credential EXCEPT
         !.password = @ + 1,
         !.failed = IF txn[t].clear THEN @ ELSE 0]
    /\ sessions' = [s \in SessionId |->
         IF s \in txn[t].found THEN [sessions[s] EXCEPT !.status = "revoked"]
                               ELSE sessions[s]]
    /\ streak' = 0
    /\ Turns(t, Idle)
    /\ UNCHANGED active

-----------------------------------------------------------------------------
(* Environment: a thread dies, time passes, an administrator of the         *)
(* database takes the account out of use.                                   *)

Dies(t) ==
    /\ txn[t] # Idle
    /\ Turns(t, Idle)
    /\ UNCHANGED state

LockLapses ==
    /\ credential.lock = "live"
    /\ credential' = [credential EXCEPT !.lock = "lapsed"]
    /\ UNCHANGED <<active, sessions, txn, streak>>

IdleLapses(s) ==
    /\ sessions[s].status = "open" /\ sessions[s].limit = "live"
    /\ sessions' = [sessions EXCEPT ![s].limit = "idle"]
    /\ UNCHANGED <<credential, active, txn, streak>>

Expires(s) ==
    /\ sessions[s].status = "open" /\ sessions[s].limit # "expired"
    /\ sessions' = [sessions EXCEPT ![s].limit = "expired"]
    /\ UNCHANGED <<credential, active, txn, streak>>

Deactivated ==
    /\ active
    /\ active' = FALSE
    /\ UNCHANGED <<credential, sessions, txn, streak>>

-----------------------------------------------------------------------------
LoginStep(t) ==
    LoginLocks(t) \/ LoginLockedOut(t) \/ LoginRejected(t) \/ LoginSucceeds(t)

UseStep(t) ==
    \/ RequestReads(t) \/ RequestExpired(t) \/ RequestDisowned(t)
    \/ RequestServed(t) \/ RequestTouches(t)
    \/ LogoutReads(t) \/ LogoutCommits(t)

ResetStep(t) ==
    ResetReads(t) \/ ResetWrites(t) \/ ResetLists(t) \/ ResetCommits(t)

Next ==
    \/ \E t \in Thread : LoginStep(t) \/ UseStep(t) \/ ResetStep(t) \/ Dies(t)
    \/ \E s \in SessionId : IdleLapses(s) \/ Expires(s)
    \/ LockLapses \/ Deactivated

Spec == Init /\ [][Next]_vars

-----------------------------------------------------------------------------
(* Properties.                                                              *)

\* SECURITY.md's "concurrent lockout hardening": no rejected attempt is lost,
\* however many run at once, beside a reset and past the end of a lockout, and
\* the attempt that reaches the threshold locks the account.
FailuresCounted ==
    /\ streak <= credential.failed
    /\ streak = Threshold => credential.lock # "none"

\* No session is opened while the account is locked, by the row as it is then
\* and not only as the login read it.
NoLoginWhileLocked ==
    [][\A s \in SessionId :
         sessions[s].status = "absent" /\ sessions'[s].status # "absent" =>
           credential.lock # "live"]_vars

\* "password reset is CLI-only and revokes active sessions": none that an older
\* password opened is open after it, not one opened during the reset either.
ResetClosesSessions ==
    \A s \in Open : sessions[s].password = credential.password

\* A revoked session stays revoked, whatever requests read before write of it
\* afterwards, and the rows of sessions are not reused.
RevocationIsFinal ==
    [][\A s \in SessionId :
         sessions[s].status = "revoked" => sessions'[s].status = "revoked"]_vars
=============================================================================
