-------------------------- MODULE NativeAuthProofs --------------------------
(***************************************************************************)
(* Theorems about NativeAuth, for any threads and limits.                   *)
(*                                                                          *)
(* Everything rests on the row lock: one thread has it at a time            *)
(* (OneHolder), so what a login read is still there when it commits         *)
(* (LoginInv), and the sessions a reset listed are all there are            *)
(* (ResetInv).                                                              *)
(***************************************************************************)
EXTENDS NativeAuth, TLAPS

OneHolder == \A t, u \in Thread : Locks(t) /\ Locks(u) => t = u

\* Only time changes the credential under a login.
LoginInv ==
    \A t \in Thread : txn[t].op = "login" =>
        /\ txn[t].seen.password = credential.password
        /\ txn[t].seen.failed = credential.failed
        /\ credential.lock = "live" => txn[t].seen.lock = "live"
        /\ txn[t].seen.lock = "none" <=> credential.lock = "none"

\* No session is opened under a reset.
ResetInv ==
    \A t \in Thread : txn[t].op = "reset" /\ txn[t].at = "listed" =>
        Open \subseteq txn[t].found

\* A session that a thread read, or a reset listed, is there.
UseInv ==
    \A t \in Thread :
        /\ txn[t].op \in {"request", "logout"} =>
             sessions[txn[t].session].status # "absent"
        /\ txn[t].op = "reset" =>
             \A s \in txn[t].found : sessions[s].status # "absent"

\* A full count has locked the account.
FullIsLocked == credential.failed = Threshold => credential.lock # "none"

Inv ==
    /\ TypeOK
    /\ OneHolder
    /\ LoginInv
    /\ ResetInv
    /\ UseInv
    /\ FullIsLocked
    /\ FailuresCounted
    /\ ResetClosesSessions

-----------------------------------------------------------------------------
\* The fields of what a thread holds.
LEMMA TxnFields ==
    ASSUME NEW next \in Txn
    PROVE  /\ next.op = "login" => next \in Login
           /\ next.op \in {"request", "logout"} => next \in Use
           /\ next.op = "reset" => next \in Reset
  BY DEF Txn, Idle, Login, Use, Reset

\* The capped count keeps its bounds and its order.
LEMMA CountUpTo ==
    ASSUME NEW m \in 0 .. Threshold, NEW n \in 0 .. Threshold, m <= n
    PROVE  /\ UpTo(Threshold, m) \in 0 .. Threshold
           /\ UpTo(Threshold, m) <= UpTo(Threshold, n)
  BY LimitsOK DEF UpTo

\* An account nobody has used.
THEOREM InitInv == Init => Inv
<1> SUFFICES ASSUME Init PROVE Inv
  OBVIOUS
<1>1. credential \in Credential
  BY LimitsOK DEF Init, Credential, Password
<1>2. sessions \in [SessionId -> Session]
  BY LimitsOK DEF Init, NoSession, Session
<1>3. TypeOK
  BY <1>1, <1>2, LimitsOK DEF Init, TypeOK, Txn
<1>4. OneHolder /\ LoginInv /\ ResetInv /\ UseInv
  BY DEF Init, OneHolder, Locks, LoginInv, ResetInv, UseInv, Idle
<1>5. FullIsLocked /\ FailuresCounted
  BY LimitsOK DEF Init, FullIsLocked, FailuresCounted
<1>6. ResetClosesSessions
  BY DEF Init, ResetClosesSessions, Open, NoSession
<1>7. QED
  BY <1>3, <1>4, <1>5, <1>6 DEF Inv

-----------------------------------------------------------------------------
\* A step of one thread that changes no row: what it holds next is well
\* formed, and it takes the lock only if that is free.
LEMMA TurnKeepsInv ==
    ASSUME Inv, NEW t \in Thread, NEW next \in Txn, Turns(t, next), UNCHANGED state,
           next.op = "login" => next.seen = credential /\ Unlocked,
           next.op = "reset" /\ next.at # "read" => Unlocked \/ Locks(t),
           next.op = "reset" /\ next.at = "listed" => next.found = Open,
           next.op = "reset" /\ next.at # "listed" =>
             next.found = {} \/ (txn[t].op = "reset" /\ next.found = txn[t].found),
           next.op \in {"request", "logout"} => next.session \in Open
    PROVE  Inv'
<1>1. /\ txn' = [txn EXCEPT ![t] = next]
      /\ UNCHANGED <<credential, active, sessions, streak>>
  BY DEF Turns, state
<1>2. txn'[t] = next /\ \A u \in Thread : u # t => txn'[u] = txn[u]
  BY <1>1 DEF Inv, TypeOK
<1>3. TypeOK'
  BY <1>1 DEF Inv, TypeOK
<1>4. OneHolder'
  <2>1. Locks(t)' => Unlocked \/ Locks(t)
    BY <1>2 DEF Locks
  <2>2. \A u \in Thread : u # t => (Locks(u)' <=> Locks(u))
    BY <1>2 DEF Locks
  <2>3. QED
    BY <2>1, <2>2 DEF Inv, OneHolder, Unlocked
<1>5. LoginInv'
  BY <1>1, <1>2 DEF Inv, LoginInv
<1>6. ResetInv' /\ UseInv'
  BY <1>1, <1>2 DEF Inv, ResetInv, UseInv, Open
<1>7. FullIsLocked' /\ FailuresCounted' /\ ResetClosesSessions'
  BY <1>1 DEF Inv, FullIsLocked, FailuresCounted, ResetClosesSessions, Open
<1>8. QED
  BY <1>3, <1>4, <1>5, <1>6, <1>7 DEF Inv

\* A login, a request, a logout or a reset reads.
LEMMA ReadKeepsInv ==
    ASSUME Inv, NEW t \in Thread,
           \/ LoginLocks(t) \/ RequestReads(t) \/ LogoutReads(t) \/ ResetReads(t)
    PROVE  Inv'
<1>1. UNCHANGED state
  BY DEF LoginLocks, RequestReads, LogoutReads, Reads, ResetReads
<1>2. CASE LoginLocks(t)
  <2>1. PICK right \in BOOLEAN :
          Turns(t, [op |-> "login", right |-> right, seen |-> credential,
                    active |-> active])
    BY <1>2 DEF LoginLocks
  <2> DEFINE next == [op |-> "login", right |-> right, seen |-> credential,
                      active |-> active]
  <2>2. next \in Txn /\ next.op = "login" /\ next.seen = credential
    BY DEF Txn, Login, Inv, TypeOK
  <2>3. Turns(t, next) /\ Unlocked
    BY <1>2, <2>1 DEF LoginLocks
  <2> HIDE DEF next
  <2>4. QED
    BY <1>1, <2>2, <2>3, TurnKeepsInv
<1>3. CASE RequestReads(t) \/ LogoutReads(t)
  <2>1. PICK op \in {"request", "logout"}, s \in Open :
          Turns(t, [op |-> op, session |-> s,
                    lapsed |-> sessions[s].limit # "live", active |-> active])
    BY <1>3 DEF RequestReads, LogoutReads, Reads
  <2> DEFINE next == [op |-> op, session |-> s,
                      lapsed |-> sessions[s].limit # "live", active |-> active]
  <2>2. next \in Txn /\ next.op \in {"request", "logout"} /\ next.session \in Open
    BY DEF Txn, Use, Open, Inv, TypeOK
  <2>3. Turns(t, next)
    BY <2>1
  <2> HIDE DEF next
  <2>4. QED
    BY <1>1, <2>2, <2>3, TurnKeepsInv
<1>4. CASE ResetReads(t)
  <2> DEFINE next == [op |-> "reset", at |-> "read",
                      clear |-> credential.failed = 0, found |-> {}]
  <2>1. next \in Txn /\ next.op = "reset" /\ next.at = "read" /\ next.found = {}
    BY DEF Txn, Reset
  <2>2. Turns(t, next)
    BY <1>4 DEF ResetReads
  <2> HIDE DEF next
  <2>3. QED
    BY <1>1, <2>1, <2>2, TurnKeepsInv
<1>5. QED
  BY <1>2, <1>3, <1>4

\* A reset flushes the password, or lists the sessions.
LEMMA ResetMovesKeepInv ==
    ASSUME Inv, NEW t \in Thread, ResetWrites(t) \/ ResetLists(t)
    PROVE  Inv'
<1>1. UNCHANGED state /\ txn[t].op = "reset"
  BY DEF ResetWrites, ResetLists
<1>2. txn[t] \in Reset
  BY <1>1, TxnFields DEF Inv, TypeOK
<1>3. CASE ResetWrites(t)
  <2> DEFINE next == [txn[t] EXCEPT !.at = "written"]
  <2>1. /\ next \in Txn /\ next.op = "reset" /\ next.at = "written"
        /\ next.found = txn[t].found
    BY <1>2 DEF Txn, Reset
  <2>2. Turns(t, next) /\ Unlocked
    BY <1>3 DEF ResetWrites
  <2> HIDE DEF next
  <2>3. QED
    BY <1>1, <2>1, <2>2, TurnKeepsInv
<1>4. CASE ResetLists(t)
  <2> DEFINE next == [txn[t] EXCEPT !.at = "listed", !.found = Open]
  <2>1. /\ next \in Txn /\ next.op = "reset" /\ next.at = "listed"
        /\ next.found = Open
    BY <1>2 DEF Txn, Reset, Open
  <2>2. Turns(t, next) /\ Locks(t)
    BY <1>4 DEF ResetLists, Locks
  <2> HIDE DEF next
  <2>3. QED
    BY <1>1, <2>1, <2>2, TurnKeepsInv
<1>5. QED
  BY <1>3, <1>4

\* A thread stops without a write.
LEMMA RestKeepsInv ==
    ASSUME Inv, NEW t \in Thread,
           LoginLockedOut(t) \/ RequestServed(t) \/ Dies(t)
    PROVE  Inv'
<1>1. Turns(t, Idle) /\ UNCHANGED state
  BY DEF LoginLockedOut, RequestServed, Dies
<1>2. Idle \in Txn /\ Idle.op = "none"
  BY DEF Txn, Idle
<1>3. QED
  BY <1>1, <1>2, TurnKeepsInv

-----------------------------------------------------------------------------
\* A step that writes rows, and leaves the thread that takes it idle: no other
\* thread takes or loses the lock.
LEMMA IdleKeepsLocks ==
    ASSUME Inv, NEW t \in Thread, Turns(t, Idle)
    PROVE  /\ txn' \in [Thread -> Txn]
           /\ txn'[t] = Idle /\ \A u \in Thread : u # t => txn'[u] = txn[u]
           /\ OneHolder'
<1>1. txn' = [txn EXCEPT ![t] = Idle] /\ Idle \in Txn
  BY DEF Turns, Txn
<1>2. txn'[t] = Idle /\ \A u \in Thread : u # t => txn'[u] = txn[u]
  BY <1>1 DEF Inv, TypeOK
<1>3. \A u \in Thread : Locks(u)' => Locks(u)
  BY <1>2 DEF Locks, Idle
<1>4. OneHolder'
  BY <1>3 DEF Inv, OneHolder
<1>5. QED
  BY <1>1, <1>2, <1>4 DEF Inv, TypeOK

\* No session goes away under the threads that read it.
LEMMA OthersUse ==
    ASSUME Inv, NEW t \in Thread, txn'[t] = Idle,
           \A u \in Thread : u # t => txn'[u] = txn[u],
           \A r \in SessionId : sessions[r].status # "absent" =>
                                  sessions'[r].status # "absent"
    PROVE  UseInv'
<1>1. ASSUME NEW u \in Thread, txn'[u].op \in {"request", "logout"}
      PROVE  sessions'[txn'[u].session].status # "absent"
  <2>1. txn'[u] = txn[u]
    BY <1>1 DEF Idle
  <2>2. txn[u].session \in SessionId
    BY <1>1, <2>1, TxnFields DEF Inv, TypeOK, Use
  <2>3. QED
    BY <1>1, <2>1, <2>2 DEF Inv, UseInv
<1>2. ASSUME NEW u \in Thread, txn'[u].op = "reset", NEW s \in txn'[u].found
      PROVE  sessions'[s].status # "absent"
  <2>1. txn'[u] = txn[u]
    BY <1>2 DEF Idle
  <2>2. txn[u].found \subseteq SessionId
    BY <1>2, <2>1, TxnFields DEF Inv, TypeOK, Reset
  <2>3. QED
    BY <1>2, <2>1, <2>2 DEF Inv, UseInv
<1>3. QED
  BY <1>1, <1>2 DEF UseInv

\* Sessions may be closed and their limits may move.
LEMMA SessionsShrink ==
    ASSUME Inv, sessions' \in [SessionId -> Session], UNCHANGED credential,
           \A s \in SessionId : sessions'[s].status = "open" =>
             /\ sessions[s].status = "open"
             /\ sessions'[s].password = sessions[s].password
    PROVE  /\ Open' \subseteq Open
           /\ ResetClosesSessions'
<1>1. Open' \subseteq Open
  BY DEF Open
<1>2. QED
  BY <1>1 DEF Inv, ResetClosesSessions, Open

\* A request or a logout writes to its session.
LEMMA UseKeepsInv ==
    ASSUME Inv, NEW t \in Thread,
           \/ LogoutCommits(t) \/ RequestExpired(t) \/ RequestDisowned(t)
           \/ RequestTouches(t)
    PROVE  Inv'
<1>1. /\ txn[t].op \in {"request", "logout"}
      /\ Turns(t, Idle) /\ UNCHANGED <<credential, active, streak>>
  BY DEF LogoutCommits, RequestExpired, RequestDisowned, RequestTouches, Revokes, InForce
<1>2. PICK s \in SessionId : s = txn[t].session
  BY <1>1, TxnFields DEF Inv, TypeOK, Use
<1>3. PICK row \in Session :
        /\ sessions' = [sessions EXCEPT ![s] = row]
        /\ row.status \in {"revoked", sessions[s].status}
        /\ row.password = sessions[s].password
  <2>1. sessions[s] \in Session
    BY DEF Inv, TypeOK
  <2>2. CASE RequestTouches(t)
    BY <1>2, <2>1, <2>2 DEF RequestTouches, Touched, Session
  <2>3. CASE ~RequestTouches(t)
    <3> DEFINE row == [sessions[s] EXCEPT !.status = "revoked"]
    <3>1. sessions' = [sessions EXCEPT ![s] = row]
      BY <1>2, <2>3 DEF LogoutCommits, RequestExpired, RequestDisowned, Revokes
    <3>2. row \in Session /\ row.status = "revoked" /\ row.password = sessions[s].password
      BY <2>1 DEF Session
    <3> HIDE DEF row
    <3>3. QED
      BY <3>1, <3>2
  <2>4. QED
    BY <2>2, <2>3
<1>4. /\ sessions' \in [SessionId -> Session]
      /\ \A r \in SessionId : sessions'[r].status = "open" =>
           /\ sessions[r].status = "open"
           /\ sessions'[r].password = sessions[r].password
  BY <1>3 DEF Inv, TypeOK
<1>5. Open' \subseteq Open /\ ResetClosesSessions'
  BY <1>1, <1>4, SessionsShrink
<1>6. /\ txn' \in [Thread -> Txn] /\ OneHolder'
      /\ txn'[t] = Idle /\ \A u \in Thread : u # t => txn'[u] = txn[u]
  BY <1>1, IdleKeepsLocks
<1>7. TypeOK'
  BY <1>1, <1>4, <1>6 DEF Inv, TypeOK
<1>8. LoginInv' /\ ResetInv'
  BY <1>1, <1>5, <1>6 DEF Inv, LoginInv, ResetInv, Idle
<1>11. UseInv'
  <2>1. \A r \in SessionId : sessions[r].status # "absent" => sessions'[r].status # "absent"
    BY <1>3 DEF Inv, TypeOK
  <2>2. QED
    BY <2>1, <1>6, OthersUse
<1>9. FullIsLocked' /\ FailuresCounted'
  BY <1>1 DEF Inv, FullIsLocked, FailuresCounted
<1>10. QED
  BY <1>5, <1>6, <1>7, <1>8, <1>9, <1>11 DEF Inv

\* A login commits: nobody else holds the lock.
LEMMA LoginKeepsInv ==
    ASSUME Inv, NEW t \in Thread, LoginRejected(t) \/ LoginSucceeds(t)
    PROVE  Inv'
<1>1. /\ txn[t].op = "login" /\ Turns(t, Idle) /\ UNCHANGED active
      /\ txn[t] \in Login
  BY TxnFields DEF LoginRejected, LoginSucceeds, Inv, TypeOK
<1>2. /\ txn' \in [Thread -> Txn] /\ OneHolder'
      /\ txn'[t] = Idle /\ \A u \in Thread : u # t => txn'[u] = txn[u]
  BY <1>1, IdleKeepsLocks
<1>3. \A u \in Thread : ~Locks(u)'
  <2>1. \A u \in Thread : u # t => ~Locks(u)
    BY <1>1 DEF Inv, OneHolder, Locks
  <2>2. QED
    BY <1>2, <2>1 DEF Locks, Idle
<1>4. LoginInv' /\ ResetInv'
  BY <1>3 DEF Locks, LoginInv, ResetInv
<1>5. /\ txn[t].seen.password = credential.password
      /\ txn[t].seen.failed = credential.failed
  BY <1>1 DEF Inv, LoginInv
<1>6. /\ credential \in Credential /\ credential.failed \in 0 .. Threshold
      /\ streak \in 0 .. Threshold /\ streak <= credential.failed
  BY DEF Inv, TypeOK, Credential, FailuresCounted
<1>7. CASE LoginRejected(t)
  <2> DEFINE failed == UpTo(Threshold, credential.failed)
             lock   == IF failed = Threshold THEN "live" ELSE credential.lock
             new    == [credential EXCEPT !.failed = failed, !.lock = lock]
  <2>1. credential' = new /\ UNCHANGED sessions /\ streak' = UpTo(Threshold, streak)
    BY <1>5, <1>6, <1>7 DEF LoginRejected, Credential
  <2>2. failed \in 0 .. Threshold /\ streak' \in 0 .. Threshold /\ streak' <= failed
    BY <1>6, <2>1, CountUpTo, LimitsOK
  <2> HIDE DEF failed
  <2>3. /\ new \in Credential /\ new.failed = failed /\ new.lock = lock
        /\ new.password = credential.password
    BY <1>6, <2>2 DEF Credential
  <2> HIDE DEF new
  <2>4. TypeOK'
    BY <1>1, <1>2, <2>1, <2>2, <2>3 DEF Inv, TypeOK
  <2>5. FullIsLocked'
    BY <2>1, <2>3 DEF FullIsLocked
  <2>6. FailuresCounted'
    BY <2>1, <2>2, <2>3, LimitsOK DEF FailuresCounted
  <2>7. ResetClosesSessions'
    BY <2>1, <2>3 DEF Inv, ResetClosesSessions, Open
  <2>8. UseInv'
    BY <2>1, <1>2, OthersUse
  <2>9. QED
    BY <1>2, <1>4, <2>4, <2>5, <2>6, <2>7, <2>8 DEF Inv
<1>8. CASE LoginSucceeds(t)
  <2> DEFINE new == [credential EXCEPT !.failed = 0, !.lock = "none"]
             row == [NoSession EXCEPT !.status = "open", !.password = txn[t].seen.password]
  <2>1. PICK s \in SessionId : sessions' = [sessions EXCEPT ![s] = row]
    BY <1>8 DEF LoginSucceeds
  <2>2. credential' = new /\ streak' = 0
    BY <1>8 DEF LoginSucceeds
  <2>9. 0 \in 0 .. Threshold
    BY LimitsOK
  <2>3. new \in Credential /\ new.failed = 0 /\ new.password = credential.password
    BY <1>6, <2>9 DEF Credential
  <2>4. row \in Session /\ row.password = credential.password
    <3>1. NoSession \in Session
      BY LimitsOK DEF NoSession, Session
    <3>2. credential.password \in 0 .. MaxPasswords
      BY <1>6, LimitsOK DEF Credential, Password
    <3>3. QED
      BY <3>1, <3>2, <1>5 DEF Session
  <2> HIDE DEF new, row
  <2>5. TypeOK'
    BY <1>1, <1>2, <2>1, <2>2, <2>3, <2>4, LimitsOK DEF Inv, TypeOK
  <2>6. FullIsLocked' /\ FailuresCounted'
    BY <2>2, <2>3, LimitsOK DEF FullIsLocked, FailuresCounted
  <2>7. ResetClosesSessions'
    BY <2>1, <2>2, <2>3, <2>4 DEF Inv, TypeOK, ResetClosesSessions, Open
  <2>8. UseInv'
    <3>1. row.status = "open"
      BY DEF row, NoSession
    <3>2. \A r \in SessionId : sessions[r].status # "absent" => sessions'[r].status # "absent"
      BY <2>1, <3>1 DEF Inv, TypeOK
    <3>3. QED
      BY <3>2, <1>2, OthersUse
  <2>10. QED
    BY <1>2, <1>4, <2>5, <2>6, <2>7, <2>8 DEF Inv
<1>9. QED
  BY <1>7, <1>8

\* A reset commits: of the sessions it listed, none is left open.
LEMMA ResetCommitKeepsInv ==
    ASSUME Inv, NEW t \in Thread, ResetCommits(t)
    PROVE  Inv'
<1>1. /\ txn[t].op = "reset" /\ txn[t].at = "listed" /\ Locks(t)
      /\ Turns(t, Idle) /\ UNCHANGED active /\ streak' = 0
  BY DEF ResetCommits, Locks
<1>2. /\ txn' \in [Thread -> Txn] /\ OneHolder'
      /\ txn'[t] = Idle /\ \A u \in Thread : u # t => txn'[u] = txn[u]
  BY <1>1, IdleKeepsLocks
<1>3. \A u \in Thread : ~Locks(u)'
  <2>1. \A u \in Thread : u # t => ~Locks(u)
    BY <1>1 DEF Inv, OneHolder
  <2>2. QED
    BY <1>2, <2>1 DEF Locks, Idle
<1>4. LoginInv' /\ ResetInv'
  BY <1>3 DEF Locks, LoginInv, ResetInv
<1> DEFINE failed == IF txn[t].clear THEN credential.failed ELSE 0
           new == [credential EXCEPT !.password = credential.password + 1,
                                     !.failed = failed]
<1>5. credential' = new
  BY DEF ResetCommits
<1>6. /\ credential \in Credential /\ credential.failed \in 0 .. Threshold
      /\ credential.password + 1 \in Password
  BY LimitsOK DEF Inv, TypeOK, Credential, Password, ResetCommits
<1>7. failed \in 0 .. Threshold /\ failed \in {0, credential.failed}
  BY <1>6, LimitsOK
<1> HIDE DEF failed
<1>8. new \in Credential /\ new.failed = failed /\ new.lock = credential.lock
  BY <1>6, <1>7 DEF Credential
<1> HIDE DEF new
<1>9. /\ sessions' \in [SessionId -> Session]
      /\ \A s \in SessionId : s \in txn[t].found => sessions'[s].status = "revoked"
      /\ \A s \in SessionId : s \notin txn[t].found => sessions'[s] = sessions[s]
  BY DEF ResetCommits, Inv, TypeOK, Session
<1>10. Open' = {}
  BY <1>1, <1>9 DEF Inv, ResetInv, Open
<1>11. TypeOK'
  BY <1>1, <1>2, <1>5, <1>8, <1>9, LimitsOK DEF Inv, TypeOK
<1>12. FullIsLocked' /\ FailuresCounted'
  BY <1>1, <1>5, <1>7, <1>8, LimitsOK DEF Inv, FullIsLocked, FailuresCounted
<1>13. ResetClosesSessions'
  BY <1>10 DEF ResetClosesSessions
<1>14. UseInv'
  <2>1. \A r \in SessionId : sessions[r].status # "absent" => sessions'[r].status # "absent"
    BY <1>9
  <2>2. QED
    BY <2>1, <1>2, OthersUse
<1>15. QED
  BY <1>2, <1>4, <1>11, <1>12, <1>13, <1>14 DEF Inv

\* Time passes, and the account is taken out of use.
LEMMA EnvironmentKeepsInv ==
    ASSUME Inv,
           \/ \E s \in SessionId : IdleLapses(s) \/ Expires(s)
           \/ LockLapses \/ Deactivated
    PROVE  Inv'
<1>1. CASE LockLapses
  <2> DEFINE new == [credential EXCEPT !.lock = "lapsed"]
  <2>1. /\ credential' = new /\ credential.lock = "live"
        /\ UNCHANGED <<active, sessions, txn, streak>>
    BY <1>1 DEF LockLapses
  <2>2. /\ new \in Credential /\ new.lock = "lapsed"
        /\ new.password = credential.password /\ new.failed = credential.failed
    BY DEF Inv, TypeOK, Credential
  <2> HIDE DEF new
  <2>3. TypeOK' /\ OneHolder'
    BY <2>1, <2>2 DEF Inv, TypeOK, OneHolder, Locks
  <2>4. LoginInv' /\ ResetInv' /\ UseInv'
    BY <2>1, <2>2 DEF Inv, LoginInv, ResetInv, UseInv, Open
  <2>5. FullIsLocked' /\ FailuresCounted' /\ ResetClosesSessions'
    BY <2>1, <2>2 DEF Inv, FullIsLocked, FailuresCounted, ResetClosesSessions, Open
  <2>6. QED
    BY <2>3, <2>4, <2>5 DEF Inv
<1>2. CASE Deactivated
  <2>1. active' = FALSE /\ UNCHANGED <<credential, sessions, txn, streak>>
    BY <1>2 DEF Deactivated
  <2>2. TypeOK' /\ OneHolder' /\ LoginInv' /\ ResetInv' /\ UseInv'
    BY <2>1 DEF Inv, TypeOK, OneHolder, Locks, LoginInv, ResetInv, UseInv, Open
  <2>3. FullIsLocked' /\ FailuresCounted' /\ ResetClosesSessions'
    BY <2>1 DEF Inv, FullIsLocked, FailuresCounted, ResetClosesSessions, Open
  <2>4. QED
    BY <2>2, <2>3 DEF Inv
<1>3. ASSUME NEW s \in SessionId, IdleLapses(s) \/ Expires(s) PROVE Inv'
  <2>1. UNCHANGED <<credential, active, txn, streak>>
    BY <1>3 DEF IdleLapses, Expires
  <2>2. /\ sessions' \in [SessionId -> Session]
        /\ \A r \in SessionId : /\ sessions'[r].status = sessions[r].status
                                /\ sessions'[r].password = sessions[r].password
    BY <1>3 DEF IdleLapses, Expires, Inv, TypeOK, Session
  <2>3. Open' \subseteq Open /\ ResetClosesSessions'
    BY <2>1, <2>2, SessionsShrink
  <2>4. TypeOK' /\ OneHolder' /\ LoginInv' /\ ResetInv'
    BY <2>1, <2>2, <2>3 DEF Inv, TypeOK, OneHolder, Locks, LoginInv, ResetInv
  <2>5. FullIsLocked' /\ FailuresCounted'
    BY <2>1 DEF Inv, FullIsLocked, FailuresCounted
  <2>6. UseInv'
    <3>1. \A u \in Thread : txn[u].op \in {"request", "logout"} =>
            txn[u].session \in SessionId
      BY TxnFields DEF Inv, TypeOK, Use
    <3>2. \A u \in Thread : txn[u].op = "reset" => txn[u].found \subseteq SessionId
      BY TxnFields DEF Inv, TypeOK, Reset
    <3>3. QED
      BY <2>1, <2>2, <3>1, <3>2 DEF Inv, UseInv
  <2>7. QED
    BY <2>3, <2>4, <2>5, <2>6 DEF Inv
<1>4. QED
  BY <1>1, <1>2, <1>3

-----------------------------------------------------------------------------
\* Each step of a thread, or of the environment, keeps the invariant.
THEOREM NextInv == Inv /\ [Next]_vars => Inv'
<1> SUFFICES ASSUME Inv, [Next]_vars PROVE Inv'
  OBVIOUS
<1>1. CASE UNCHANGED vars
  <2>1. UNCHANGED <<credential, active, sessions, txn, streak>>
    BY <1>1 DEF vars
  <2>2. TypeOK' /\ OneHolder' /\ LoginInv' /\ ResetInv' /\ UseInv'
    BY <2>1 DEF Inv, TypeOK, OneHolder, Locks, LoginInv, ResetInv, UseInv, Open
  <2>3. FullIsLocked' /\ FailuresCounted' /\ ResetClosesSessions'
    BY <2>1 DEF Inv, FullIsLocked, FailuresCounted, ResetClosesSessions, Open
  <2>4. QED
    BY <2>2, <2>3 DEF Inv
<1>2. ASSUME NEW t \in Thread, LoginStep(t) PROVE Inv'
  BY <1>2, ReadKeepsInv, RestKeepsInv, LoginKeepsInv DEF LoginStep
<1>3. ASSUME NEW t \in Thread, UseStep(t) PROVE Inv'
  BY <1>3, ReadKeepsInv, RestKeepsInv, UseKeepsInv DEF UseStep
<1>4. ASSUME NEW t \in Thread, ResetStep(t) \/ Dies(t) PROVE Inv'
  BY <1>4, ReadKeepsInv, RestKeepsInv, ResetMovesKeepInv, ResetCommitKeepsInv
     DEF ResetStep
<1>5. QED
  BY <1>1, <1>2, <1>3, <1>4, EnvironmentKeepsInv DEF Next

\* The inductive invariant holds of every reachable state.
THEOREM Invariance == Spec => []Inv
BY InitInv, NextInv, PTL DEF Spec

\* The account's rows, and what threads hold of them, are always well formed.
THEOREM TypeCorrect == Spec => []TypeOK
<1>1. Inv => TypeOK
  BY DEF Inv
<1>2. QED
  BY <1>1, Invariance, PTL

\* No rejected attempt is lost, and the one that reaches the threshold locks.
THEOREM EveryFailureCounts == Spec => []FailuresCounted
<1>1. Inv => FailuresCounted
  BY DEF Inv
<1>2. QED
  BY <1>1, Invariance, PTL

\* After a reset no session of an older password is open, whatever logins
\* overlapped it.
THEOREM ResetIsComplete == Spec => []ResetClosesSessions
<1>1. Inv => ResetClosesSessions
  BY DEF Inv
<1>2. QED
  BY <1>1, Invariance, PTL

\* What the steps do to the rows of sessions: one is opened only by a login
\* that holds the lock of an account that is not locked out.
LEMMA SessionStep ==
    ASSUME Inv, [Next]_vars, NEW s \in SessionId
    PROVE  /\ sessions[s].status = "absent" /\ sessions'[s].status # "absent" =>
                credential.lock # "live"
           /\ sessions[s].status = "revoked" => sessions'[s].status = "revoked"
<1>1. ASSUME NEW t \in Thread, LoginSucceeds(t)
      PROVE  /\ credential.lock # "live"
             /\ sessions[s].status = "revoked" => sessions'[s].status = "revoked"
  <2>1. credential.lock # "live"
    BY <1>1 DEF LoginSucceeds, Valid, Inv, LoginInv
  <2>2. PICK r \in SessionId :
          /\ \A q \in SessionId : sessions[q].status = "absent" <=> q >= r
          /\ sessions' = [sessions EXCEPT ![r] =
               [NoSession EXCEPT !.status = "open", !.password = txn[t].seen.password]]
    BY <1>1 DEF LoginSucceeds
  <2>3. sessions[r].status = "absent"
    BY <2>2, LimitsOK DEF SessionId
  <2>4. QED
    BY <2>1, <2>2, <2>3 DEF Inv, TypeOK
<1>2. ASSUME NEW t \in Thread,
             \/ LogoutCommits(t) \/ RequestExpired(t) \/ RequestDisowned(t)
             \/ RequestTouches(t)
      PROVE  /\ sessions[s].status = "absent" => sessions'[s].status = "absent"
             /\ sessions[s].status = "revoked" => sessions'[s].status = "revoked"
  <2>1. txn[t].op \in {"request", "logout"}
    BY <1>2 DEF LogoutCommits, RequestExpired, RequestDisowned, RequestTouches, InForce
  <2>2. PICK r \in SessionId : r = txn[t].session
    BY <2>1, TxnFields DEF Inv, TypeOK, Use
  <2>3. sessions[r].status # "absent"
    BY <2>1, <2>2 DEF Inv, UseInv
  <2>4. /\ sessions'[r].status \in {"revoked", sessions[r].status}
        /\ r # s => sessions'[s] = sessions[s]
    BY <1>2, <2>2 DEF LogoutCommits, RequestExpired, RequestDisowned, RequestTouches,
                      Revokes, Touched, Inv, TypeOK, Session
  <2>5. QED
    BY <2>3, <2>4
<1>3. ASSUME NEW t \in Thread, ResetCommits(t)
      PROVE  /\ sessions[s].status = "absent" => sessions'[s].status = "absent"
             /\ sessions[s].status = "revoked" => sessions'[s].status = "revoked"
  <2>1. txn[t].op = "reset"
    BY <1>3 DEF ResetCommits
  <2>2. s \in txn[t].found => sessions[s].status # "absent"
    BY <2>1 DEF Inv, UseInv
  <2>3. sessions'[s] = IF s \in txn[t].found
                         THEN [sessions[s] EXCEPT !.status = "revoked"]
                         ELSE sessions[s]
    BY <1>3 DEF ResetCommits
  <2>4. sessions[s] \in Session
    BY DEF Inv, TypeOK
  <2>5. QED
    BY <2>2, <2>3, <2>4 DEF Session
<1>4. ASSUME NEW r \in SessionId, IdleLapses(r) \/ Expires(r)
      PROVE  sessions'[s].status = sessions[s].status
  BY <1>4 DEF IdleLapses, Expires, Inv, TypeOK, Session
<1>5. CASE sessions' = sessions
  BY <1>5
<1>6. ASSUME NEW t \in Thread,
             \/ LoginLocks(t) \/ LoginLockedOut(t) \/ LoginRejected(t)
             \/ RequestReads(t) \/ LogoutReads(t) \/ RequestServed(t)
             \/ ResetReads(t) \/ ResetWrites(t) \/ ResetLists(t) \/ Dies(t)
      PROVE  sessions' = sessions
  BY <1>6 DEF LoginLocks, LoginLockedOut, LoginRejected, RequestReads, LogoutReads, Reads,
              RequestServed, ResetReads, ResetWrites, ResetLists, Dies, state
<1>7. QED
  <2>1. CASE UNCHANGED vars \/ LockLapses \/ Deactivated
    BY <2>1, <1>5 DEF vars, LockLapses, Deactivated
  <2>2. CASE \E t \in Thread : LoginStep(t) \/ UseStep(t) \/ ResetStep(t) \/ Dies(t)
    BY <2>2, <1>1, <1>2, <1>3, <1>5, <1>6 DEF LoginStep, UseStep, ResetStep
  <2>3. CASE \E r \in SessionId : IdleLapses(r) \/ Expires(r)
    BY <2>3, <1>4
  <2>4. QED
    BY <2>1, <2>2, <2>3 DEF Next

\* No session is opened while the account is locked.
THEOREM LockoutHolds == Spec => NoLoginWhileLocked
<1>1. Inv /\ [Next]_vars =>
        [\A s \in SessionId :
           sessions[s].status = "absent" /\ sessions'[s].status # "absent" =>
             credential.lock # "live"]_vars
  BY SessionStep
<1>2. QED
  BY <1>1, Invariance, PTL DEF Spec, NoLoginWhileLocked

\* A revoked session stays revoked.
THEOREM RevocationHolds == Spec => RevocationIsFinal
<1>1. Inv /\ [Next]_vars =>
        [\A s \in SessionId :
           sessions[s].status = "revoked" => sessions'[s].status = "revoked"]_vars
  BY SessionStep
<1>2. QED
  BY <1>1, Invariance, PTL DEF Spec, RevocationIsFinal
=============================================================================
