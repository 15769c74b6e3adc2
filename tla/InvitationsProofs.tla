------------------------- MODULE InvitationsProofs -------------------------
(***************************************************************************)
(* Theorems about Invitations, for any threads, addresses and bounds.       *)
(*                                                                          *)
(* The two locks carry the argument.  One thread issues at a time, so the   *)
(* count it read is the bucket when it commits (CountInv); one thread has   *)
(* the row of an address, so what it saw of it is still there (SeenInv).    *)
(* The account, which no lock covers, is settled by the unique constraint.  *)
(***************************************************************************)
EXTENDS Invitations, FiniteSetTheorems, TLAPS

Txn == {Idle} \cup Create \cup Settle

Issuing(t) == txn[t].op = "create" /\ txn[t].at # "waiting"

IssuingAlone == \A t, u \in Thread : Issuing(t) /\ Issuing(u) => t = u

RowAlone ==
    \A t, u \in Thread :
        HoldsRow(t) /\ HoldsRow(u) /\ txn[t].email = txn[u].email => t = u

\* Only time changes an invitation under the thread that has its row.
SeenInv ==
    \A t \in Thread : HoldsRow(t) =>
        /\ txn[t].seen.status = invitation[txn[t].email].status
        /\ txn[t].seen.token = invitation[txn[t].email].token

CountInv ==
    \A t \in Thread : txn[t].op = "create" /\ txn[t].at = "ready" =>
        txn[t].count = bucket[txn[t].hour]

CheckedInv ==
    \A t \in Thread : txn[t].op = "accept" /\ txn[t].at = "checked" =>
        txn[t].seen.status = "pending"

\* The token an invitation has is the last that was issued.
IssuedInv ==
    /\ IsFiniteSet(issued)
    /\ \A i \in issued : i.token <= invitation[i.email].token

Inv ==
    /\ TypeOK
    /\ IssuingAlone
    /\ RowAlone
    /\ SeenInv
    /\ CountInv
    /\ CheckedInv
    /\ IssuedInv
    /\ QuotaKept
    /\ AcceptedHasAccount

-----------------------------------------------------------------------------
\* The fields of what a thread holds.
LEMMA TxnFields ==
    ASSUME NEW next \in Txn
    PROVE  /\ next.op = "create" => next \in Create
           /\ next.op \in {"accept", "revoke"} => next \in Settle
           /\ next.at \in {"ready", "locked", "checked"} => next \in Create \cup Settle
  BY DEF Txn, Idle, Create, Settle

\* Nothing is issued, held or counted at first.
THEOREM InitInv == Init => Inv
<1> SUFFICES ASSUME Init PROVE Inv
  OBVIOUS
<1>1. TypeOK
  <2>1. Absent \in Invitation /\ None \in Account /\ 1 \in Hour /\ 0 \in 0 .. Quota
    BY QuotaOK DEF Absent, Invitation, None, Account, Hour
  <2>2. QED
    BY <2>1 DEF Init, TypeOK
<1>2. IssuingAlone /\ RowAlone /\ SeenInv /\ CountInv /\ CheckedInv
  BY DEF Init, Idle, IssuingAlone, Issuing, RowAlone, HoldsRow, SeenInv, CountInv,
         CheckedInv
<1>3. IssuedInv
  BY FS_EmptySet DEF Init, IssuedInv
<1>4. QuotaKept
  <2>1. \A h \in Hour : IssuedIn(h) = {}
    BY DEF Init, IssuedIn
  <2>2. QED
    BY <2>1, FS_EmptySet, QuotaOK DEF Init, QuotaKept
<1>5. AcceptedHasAccount
  BY DEF Init, AcceptedHasAccount, None, Absent
<1>6. QED
  BY <1>1, <1>2, <1>3, <1>4, <1>5 DEF Inv

-----------------------------------------------------------------------------
\* A step of one thread that changes no row: what it holds next is well formed,
\* it takes a lock only if that is free, and holds what it saw under it.
LEMMA MoveKeepsInv ==
    ASSUME Inv, NEW t \in Thread, NEW next \in Txn, Moves(t, next),
           next.op = "create" /\ next.at # "waiting" => IssuingFree \/ Issuing(t),
           next.at \in {"ready", "locked", "checked"} =>
             /\ RowFree(next.email) \/ (HoldsRow(t) /\ txn[t].email = next.email)
             /\ next.seen.status = invitation[next.email].status
             /\ next.seen.token = invitation[next.email].token,
           next.op = "create" /\ next.at = "ready" => next.count = bucket[next.hour],
           next.op = "accept" /\ next.at = "checked" => next.seen.status = "pending"
    PROVE  Inv'
<1>1. /\ txn' = [txn EXCEPT ![t] = next]
      /\ UNCHANGED <<invitation, account, bucket, issued, hour>>
  BY DEF Moves, Turns, rows
<1>2. txn'[t] = next /\ \A u \in Thread : u # t => txn'[u] = txn[u]
  BY <1>1 DEF Inv, TypeOK
<1>3. TypeOK'
  BY <1>1 DEF Inv, TypeOK, Txn
<1>4. IssuingAlone'
  <2>1. Issuing(t)' => IssuingFree \/ Issuing(t)
    BY <1>2 DEF Issuing
  <2>2. \A u \in Thread : u # t => (Issuing(u)' <=> Issuing(u))
    BY <1>2 DEF Issuing
  <2>3. IssuingFree => \A u \in Thread : ~Issuing(u)
    BY DEF IssuingFree, Issuing
  <2>4. QED
    BY <2>1, <2>2, <2>3 DEF Inv, IssuingAlone
<1>5. RowAlone'
  <2>1. HoldsRow(t)' =>
          RowFree(txn'[t].email) \/ (HoldsRow(t) /\ txn[t].email = txn'[t].email)
    BY <1>2 DEF HoldsRow
  <2>2. \A u \in Thread : u # t =>
          (HoldsRow(u)' <=> HoldsRow(u)) /\ txn'[u].email = txn[u].email
    BY <1>2 DEF HoldsRow
  <2>3. QED
    BY <2>1, <2>2 DEF Inv, RowAlone, RowFree
<1>6. SeenInv' /\ CountInv' /\ CheckedInv'
  BY <1>1, <1>2 DEF Inv, SeenInv, CountInv, CheckedInv, HoldsRow
<1>7. IssuedInv' /\ QuotaKept' /\ AcceptedHasAccount'
  BY <1>1 DEF Inv, IssuedInv, QuotaKept, IssuedIn, AcceptedHasAccount
<1>8. QED
  BY <1>3, <1>4, <1>5, <1>6, <1>7 DEF Inv

\* A thread that gives up, or is refused.
LEMMA QuitKeepsInv ==
    ASSUME Inv, NEW t \in Thread, Moves(t, Idle)
    PROVE  Inv'
  BY MoveKeepsInv DEF Txn, Idle

\* create_invitation takes the time and waits for the advisory lock.
LEMMA BeginKeepsInv ==
    ASSUME Inv, NEW t \in Thread, CreateBegins(t)
    PROVE  Inv'
<1>1. PICK e \in Email :
        Moves(t, [op |-> "create", at |-> "waiting", email |-> e, hour |-> hour,
                  lapsed |-> IF invitation[e].limit = "lapsed"
                               THEN invitation[e].token ELSE 0,
                  seen |-> Absent, count |-> 0])
  BY DEF CreateBegins
<1>2. PICK n \in 0 .. MaxTokens :
        n = IF invitation[e].limit = "lapsed" THEN invitation[e].token ELSE 0
  <2>1. invitation[e].token \in 0 .. MaxTokens /\ 0 \in 0 .. MaxTokens
    BY QuotaOK DEF Inv, TypeOK, Invitation
  <2>2. QED
    BY <2>1
<1> DEFINE next == [op |-> "create", at |-> "waiting", email |-> e, hour |-> hour,
                    lapsed |-> n, seen |-> Absent, count |-> 0]
<1>3. next \in Txn /\ next.op = "create" /\ next.at = "waiting"
  <2>1. hour \in Hour /\ Absent \in Invitation /\ 0 \in Nat
    BY QuotaOK DEF Inv, TypeOK, Absent, Invitation
  <2>2. QED
    BY <2>1 DEF Txn, Create
<1>4. Moves(t, next)
  BY <1>1, <1>2
<1> HIDE DEF next
<1>5. QED
  BY <1>3, <1>4, MoveKeepsInv

\* It gets the advisory lock.
LEMMA LockKeepsInv ==
    ASSUME Inv, NEW t \in Thread, CreateLocks(t)
    PROVE  Inv'
<1> DEFINE next == [txn[t] EXCEPT !.at = "issuing"]
<1>1. txn[t] \in Create /\ Moves(t, next) /\ IssuingFree
  BY TxnFields DEF CreateLocks, Waiting, Inv, TypeOK, Txn
<1>2. next \in Create /\ next.op = "create" /\ next.at = "issuing"
  BY <1>1 DEF Create
<1> HIDE DEF next
<1>3. QED
  BY <1>1, <1>2, MoveKeepsInv DEF Txn

\* It gets the row lock, and reads the row and the bucket.
LEMMA ReadKeepsInv ==
    ASSUME Inv, NEW t \in Thread, CreateReads(t)
    PROVE  Inv'
<1> DEFINE next == [txn[t] EXCEPT !.at = "ready",
                                  !.seen = invitation[txn[t].email],
                                  !.count = bucket[txn[t].hour]]
<1>1. txn[t] \in Create /\ Moves(t, next) /\ RowFree(txn[t].email) /\ Issuing(t)
  BY TxnFields DEF CreateReads, Inv, TypeOK, Txn, Issuing
<1>2. txn[t].email \in Email /\ txn[t].hour \in Hour
  BY <1>1 DEF Create
<1>3. invitation[txn[t].email] \in Invitation /\ bucket[txn[t].hour] \in Nat
  BY <1>2, QuotaOK DEF Inv, TypeOK
<1>4. next \in Create /\ next.op = "create" /\ next.at = "ready"
  BY <1>1, <1>3 DEF Create
<1>5. /\ next.email = txn[t].email /\ next.hour = txn[t].hour
      /\ next.seen = invitation[txn[t].email]
      /\ next.count = bucket[txn[t].hour]
  BY <1>1 DEF Create
<1> HIDE DEF next
<1>6. QED
  BY <1>1, <1>4, <1>5, MoveKeepsInv DEF Txn

\* Acceptance or revocation gets the row lock.
LEMMA LocksKeepsInv ==
    ASSUME Inv, NEW t \in Thread, AcceptLocks(t) \/ RevokeLocks(t)
    PROVE  Inv'
<1>1. PICK op \in {"accept", "revoke"}, e \in Email :
        /\ RowFree(e)
        /\ Moves(t, [op |-> op, at |-> "locked", email |-> e, seen |-> invitation[e]])
  BY DEF AcceptLocks, RevokeLocks, Locks
<1> DEFINE next == [op |-> op, at |-> "locked", email |-> e, seen |-> invitation[e]]
<1>2. next \in Settle
  BY DEF Inv, TypeOK, Settle
<1>3. /\ next.op \in {"accept", "revoke"} /\ next.at = "locked"
      /\ next.email = e /\ next.seen = invitation[e]
  OBVIOUS
<1>4. Moves(t, next)
  BY <1>1
<1> HIDE DEF next
<1>5. QED
  BY <1>1, <1>2, <1>3, <1>4, MoveKeepsInv DEF Txn

\* Acceptance finds its invitation pending and no account.
LEMMA CheckKeepsInv ==
    ASSUME Inv, NEW t \in Thread, AcceptChecks(t)
    PROVE  Inv'
<1> DEFINE next == [txn[t] EXCEPT !.at = "checked"]
<1>1. txn[t] \in Settle /\ Moves(t, next) /\ HoldsRow(t)
  BY TxnFields DEF AcceptChecks, Inv, TypeOK, Txn, HoldsRow
<1>2. next \in Settle /\ next.op = "accept" /\ next.at = "checked"
  BY <1>1 DEF AcceptChecks, Settle
<1>3. /\ next.email = txn[t].email
      /\ next.seen = txn[t].seen
      /\ next.seen.status = "pending"
  BY <1>1 DEF AcceptChecks, Acceptable, Settle
<1>4. /\ next.seen.status = invitation[next.email].status
      /\ next.seen.token = invitation[next.email].token
  BY <1>1, <1>3 DEF Inv, SeenInv
<1> HIDE DEF next
<1>5. QED
  BY <1>1, <1>2, <1>3, <1>4, MoveKeepsInv DEF Txn

-----------------------------------------------------------------------------
\* A commit of the thread that has the row of e: the locks stay one thread's
\* each, and the others see what they saw.
LEMMA CommitKeepsLocks ==
    ASSUME Inv, NEW t \in Thread, NEW e \in Email, Turns(t, Idle),
           HoldsRow(t), txn[t].email = e,
           \A d \in Email : d # e => invitation'[d] = invitation[d]
    PROVE  /\ txn' \in [Thread -> Txn]
           /\ IssuingAlone' /\ RowAlone' /\ SeenInv' /\ CheckedInv'
<1>1. txn'[t] = Idle /\ \A u \in Thread : u # t => txn'[u] = txn[u]
  BY DEF Inv, TypeOK, Turns
<1>2. txn' \in [Thread -> Txn]
  BY DEF Inv, TypeOK, Turns, Txn
<1>3. ~HoldsRow(t)' /\ ~Issuing(t)'
  BY <1>1 DEF Idle, HoldsRow, Issuing
<1>4. \A u \in Thread : HoldsRow(u)' => u # t /\ HoldsRow(u) /\ txn'[u] = txn[u]
  BY <1>1, <1>3 DEF HoldsRow
<1>5. \A u \in Thread : Issuing(u)' => u # t /\ Issuing(u)
  BY <1>1, <1>3 DEF Issuing
<1>6. IssuingAlone' /\ RowAlone'
  BY <1>4, <1>5 DEF Inv, IssuingAlone, RowAlone
<1>7. SeenInv'
  <2> SUFFICES ASSUME NEW u \in Thread, HoldsRow(u)'
               PROVE  /\ txn'[u].seen.status = invitation'[txn'[u].email].status
                      /\ txn'[u].seen.token = invitation'[txn'[u].email].token
    BY DEF SeenInv
  <2>1. u # t /\ HoldsRow(u) /\ txn'[u] = txn[u]
    BY <1>4
  <2>2. txn[u].email # e
    BY <2>1 DEF Inv, RowAlone
  <2>3. txn[u].email \in Email
    <3>1. txn[u] \in Create \cup Settle
      BY <2>1, TxnFields DEF Inv, TypeOK, Txn, HoldsRow
    <3>2. QED
      BY <3>1 DEF Create, Settle
  <2>4. QED
    BY <2>1, <2>2, <2>3 DEF Inv, SeenInv
<1>8. CheckedInv'
  BY <1>1 DEF Inv, CheckedInv, Idle
<1>9. QED
  BY <1>2, <1>6, <1>7, <1>8

\* Of a commit that issues nothing.
LEMMA CommitKeepsQuota ==
    ASSUME Inv, NEW t \in Thread, Turns(t, Idle), UNCHANGED <<bucket, issued>>,
           \A e \in Email : invitation'[e].token = invitation[e].token
    PROVE  CountInv' /\ IssuedInv' /\ QuotaKept'
<1>1. txn'[t] = Idle /\ \A u \in Thread : u # t => txn'[u] = txn[u]
  BY DEF Inv, TypeOK, Turns
<1>2. CountInv'
  BY <1>1 DEF Inv, CountInv, Idle
<1>3. IssuedInv' /\ QuotaKept'
  BY DEF Inv, TypeOK, IssuedInv, QuotaKept, IssuedIn
<1>4. QED
  BY <1>2, <1>3

\* The commit of create_invitation: its token is new, so the slot it takes is the
\* one its invitation counts as.
LEMMA CreateCommitsKeepsInv ==
    ASSUME Inv, NEW t \in Thread, CreateCommits(t)
    PROVE  Inv'
<1>1. PICK e \in Email, h \in Hour : e = txn[t].email /\ h = txn[t].hour
  BY TxnFields DEF CreateCommits, Inv, TypeOK, Txn, Create
<1>2. /\ txn[t] \in Create /\ HoldsRow(t) /\ Issuing(t)
      /\ txn[t].seen.status = invitation[e].status
      /\ txn[t].seen.token = invitation[e].token
      /\ txn[t].count = bucket[h]
  BY <1>1, TxnFields DEF CreateCommits, Inv, TypeOK, Txn, HoldsRow, Issuing, SeenInv,
                         CountInv
<1>3. /\ invitation[e].status # "accepted"
      /\ bucket[h] < Quota
      /\ invitation[e].token < MaxTokens
  BY <1>2 DEF CreateCommits, Issuable
<1>4. PICK token \in Token : token = invitation[e].token + 1
  <2>1. invitation[e].token \in 0 .. MaxTokens
    BY DEF Inv, TypeOK, Invitation
  <2>2. invitation[e].token + 1 \in 1 .. MaxTokens
    BY <1>3, <2>1, QuotaOK
  <2>3. QED
    BY <2>2 DEF Token
<1>5. PICK row \in Invitation :
        row = [status |-> "pending", token |-> token, limit |-> "live"]
  <2>1. token \in 0 .. MaxTokens
    BY QuotaOK DEF Token
  <2>2. QED
    BY <2>1 DEF Invitation
<1>6. PICK new \in [email : Email, token : Token, hour : Hour] :
        new = [email |-> e, token |-> token, hour |-> h]
  OBVIOUS
<1>7. /\ invitation' = [invitation EXCEPT ![e] = row]
      /\ issued' = issued \cup {new}
      /\ bucket' = [bucket EXCEPT ![h] = bucket[h] + 1]
      /\ Turns(t, Idle)
      /\ UNCHANGED <<account, hour>>
  BY <1>1, <1>2, <1>4, <1>5, <1>6 DEF CreateCommits, SlotTaken
<1>8. \A d \in Email : d # e => invitation'[d] = invitation[d]
  BY <1>7 DEF Inv, TypeOK
<1>9. invitation'[e] = row /\ row.status = "pending" /\ row.token = token
  BY <1>5, <1>7 DEF Inv, TypeOK
<1>10. /\ txn' \in [Thread -> Txn]
       /\ IssuingAlone' /\ RowAlone' /\ SeenInv' /\ CheckedInv'
  BY <1>1, <1>2, <1>7, <1>8, CommitKeepsLocks
<1>11. TypeOK'
  <2>1. bucket[h] + 1 \in 0 .. Quota
    <3>1. bucket[h] \in 0 .. Quota
      BY DEF Inv, TypeOK
    <3>2. QED
      BY <1>3, <3>1, QuotaOK
  <2>2. bucket' \in [Hour -> 0 .. Quota]
    BY <1>7, <2>1 DEF Inv, TypeOK
  <2>3. invitation' \in [Email -> Invitation]
    BY <1>7 DEF Inv, TypeOK
  <2>4. issued' \subseteq [email : Email, token : Token, hour : Hour]
    BY <1>7 DEF Inv, TypeOK
  <2>5. QED
    BY <1>7, <1>10, <2>2, <2>3, <2>4 DEF Inv, TypeOK, Txn
<1>12. CountInv'
  <2>1. txn'[t] = Idle /\ \A u \in Thread : u # t => txn'[u] = txn[u]
    BY <1>7 DEF Inv, TypeOK, Turns
  <2>2. \A u \in Thread : u # t => ~(txn[u].op = "create" /\ txn[u].at = "ready")
    BY <1>2 DEF Inv, IssuingAlone, Issuing
  <2>3. QED
    BY <2>1, <2>2 DEF CountInv, Idle
<1>13. new \notin issued
  <2>1. \A i \in issued : i.token <= invitation[i.email].token
    BY DEF Inv, IssuedInv
  <2>2. new.email = e /\ new.token = token
    BY <1>6
  <2>3. invitation[e].token \in 0 .. MaxTokens
    BY DEF Inv, TypeOK, Invitation
  <2>4. ~(token <= invitation[e].token)
    BY <1>4, <2>3
  <2>5. QED
    BY <2>1, <2>2, <2>4
<1>14. IssuedInv'
  <2>1. IsFiniteSet(issued')
    <3>1. IsFiniteSet(issued)
      BY DEF Inv, IssuedInv
    <3>2. QED
      BY <1>7, <3>1, FS_AddElement
  <2>2. ASSUME NEW i \in issued' PROVE i.token <= invitation'[i.email].token
    <3>1. CASE i = new
      <4>1. i.token = token /\ i.email = e
        BY <3>1, <1>6
      <4>2. QED
        BY <1>9, <4>1 DEF Token
    <3>2. CASE i \in issued /\ i.email = e
      <4>1. i.token <= invitation[e].token
        BY <3>2 DEF Inv, IssuedInv
      <4>2. i.token \in Token /\ invitation[e].token \in 0 .. MaxTokens
        BY <3>2 DEF Inv, TypeOK, Invitation
      <4>3. i.token <= token
        BY <1>4, <4>1, <4>2 DEF Token
      <4>4. QED
        BY <3>2, <1>9, <4>3
    <3>3. CASE i \in issued /\ i.email # e
      <4>1. i.email \in Email
        BY <3>3 DEF Inv, TypeOK
      <4>2. QED
        BY <3>3, <4>1, <1>8 DEF Inv, IssuedInv
    <3>4. QED
      BY <1>7, <3>1, <3>2, <3>3
  <2>3. QED
    BY <2>1, <2>2 DEF IssuedInv
<1>15. QuotaKept'
  <2> SUFFICES ASSUME NEW g \in Hour
               PROVE  /\ bucket'[g] = Cardinality(IssuedIn(g)')
                      /\ bucket'[g] <= Quota
    BY DEF QuotaKept
  <2>1. bucket[g] = Cardinality(IssuedIn(g)) /\ bucket[g] <= Quota
    BY DEF Inv, QuotaKept
  <2>2. CASE g # h
    <3>1. IssuedIn(g)' = IssuedIn(g)
      BY <1>6, <1>7, <2>2 DEF IssuedIn
    <3>2. bucket'[g] = bucket[g]
      BY <1>7, <2>2 DEF Inv, TypeOK
    <3>3. QED
      BY <2>1, <3>1, <3>2
  <2>3. CASE g = h
    <3>1. IssuedIn(g)' = IssuedIn(g) \cup {new}
      BY <1>6, <1>7, <2>3 DEF IssuedIn
    <3>2. IsFiniteSet(IssuedIn(g))
      <4>1. IsFiniteSet(issued) /\ IssuedIn(g) \subseteq issued
        BY DEF Inv, IssuedInv, IssuedIn
      <4>2. QED
        BY <4>1, FS_Subset
    <3>3. new \notin IssuedIn(g)
      BY <1>13 DEF IssuedIn
    <3>4. Cardinality(IssuedIn(g) \cup {new}) = Cardinality(IssuedIn(g)) + 1
      BY <3>2, <3>3, FS_AddElement
    <3>5. bucket'[g] = bucket[g] + 1
      BY <1>7, <2>3 DEF Inv, TypeOK
    <3>6. bucket[g] \in 0 .. Quota
      BY DEF Inv, TypeOK
    <3>7. QED
      BY <1>3, <2>1, <2>3, <3>1, <3>4, <3>5, <3>6, QuotaOK
  <2>4. QED
    BY <2>2, <2>3
<1>16. AcceptedHasAccount'
  BY <1>3, <1>7, <1>8, <1>9 DEF Inv, AcceptedHasAccount
<1>17. QED
  BY <1>10, <1>11, <1>12, <1>14, <1>15, <1>16 DEF Inv

\* The row and what was seen of it, when acceptance or revocation commits.
LEMMA SettlesSeen ==
    ASSUME Inv, NEW t \in Thread, AcceptCommits(t) \/ RevokeCommits(t)
    PROVE  /\ txn[t].email \in Email
           /\ HoldsRow(t)
           /\ invitation[txn[t].email].status = "pending"
           /\ invitation[txn[t].email].token = txn[t].seen.token
<1>1. txn[t] \in Settle
  BY TxnFields DEF AcceptCommits, RevokeCommits, Inv, TypeOK, Txn
<1>2. txn[t].email \in Email /\ HoldsRow(t)
  BY <1>1 DEF Settle, HoldsRow
<1>3. txn[t].seen.status = "pending"
  BY DEF AcceptCommits, RevokeCommits, Inv, CheckedInv
<1>4. QED
  BY <1>2, <1>3 DEF Inv, SeenInv

\* The commits of acceptance and revocation.
LEMMA SettleKeepsInv ==
    ASSUME Inv, NEW t \in Thread, AcceptCommits(t) \/ RevokeCommits(t)
    PROVE  Inv'
<1>1. PICK e \in Email : e = txn[t].email
  BY SettlesSeen
<1>2. /\ HoldsRow(t)
      /\ invitation[e].status = "pending"
      /\ invitation[e].token = txn[t].seen.token
  BY <1>1, SettlesSeen
<1>3. PICK status \in {"accepted", "revoked"} :
        /\ invitation' = [invitation EXCEPT ![e].status = status]
        /\ \/ /\ status = "accepted"
              /\ account[e] = None
              /\ account' = [account EXCEPT ![e] =
                   [by |-> "invitation", token |-> txn[t].seen.token]]
           \/ status = "revoked" /\ account' = account
  BY <1>1 DEF AcceptCommits, RevokeCommits
<1>4. Turns(t, Idle) /\ UNCHANGED <<bucket, hour, issued>>
  BY DEF AcceptCommits, RevokeCommits
<1>5. \A d \in Email : /\ d # e => invitation'[d] = invitation[d]
                       /\ invitation'[d].token = invitation[d].token
  BY <1>3 DEF Inv, TypeOK, Invitation
<1>6. invitation' \in [Email -> Invitation] /\ invitation'[e].status = status
  BY <1>3 DEF Inv, TypeOK, Invitation
<1>7. account' \in [Email -> Account]
  <2>1. invitation[e].token \in 0 .. MaxTokens
    BY DEF Inv, TypeOK, Invitation
  <2>2. [by |-> "invitation", token |-> txn[t].seen.token] \in Account
    BY <1>2, <2>1 DEF Account
  <2>3. QED
    BY <1>3, <2>2 DEF Inv, TypeOK
<1>8. /\ txn' \in [Thread -> Txn]
      /\ IssuingAlone' /\ RowAlone' /\ SeenInv' /\ CheckedInv'
  BY <1>1, <1>2, <1>4, <1>5, CommitKeepsLocks
<1>9. CountInv' /\ IssuedInv' /\ QuotaKept'
  BY <1>4, <1>5, CommitKeepsQuota
<1>10. TypeOK'
  BY <1>4, <1>6, <1>7, <1>8 DEF Inv, TypeOK, Txn
<1>11. AcceptedHasAccount'
  <2>1. \A d \in Email : d # e => account'[d] = account[d]
    BY <1>3 DEF Inv, TypeOK
  <2>2. status = "accepted" => account'[e].by = "invitation"
    BY <1>3 DEF Inv, TypeOK
  <2>3. account[e].by # "invitation"
    BY <1>2 DEF Inv, AcceptedHasAccount
  <2>4. QED
    BY <1>3, <1>5, <1>6, <2>1, <2>2, <2>3 DEF Inv, AcceptedHasAccount
<1>12. QED
  BY <1>8, <1>9, <1>10, <1>11 DEF Inv

-----------------------------------------------------------------------------
\* The bootstrap script writes an account where there is none.
LEMMA BootstrapKeepsInv ==
    ASSUME Inv, NEW e \in Email, Bootstrap(e)
    PROVE  Inv'
<1>1. /\ account[e] = None
      /\ account' = [account EXCEPT ![e] = [by |-> "bootstrap", token |-> 0]]
      /\ UNCHANGED <<invitation, bucket, hour, txn, issued>>
  BY DEF Bootstrap
<1>2. [by |-> "bootstrap", token |-> 0] \in Account
  BY QuotaOK DEF Account
<1>3. TypeOK'
  BY <1>1, <1>2 DEF Inv, TypeOK
<1>4. AcceptedHasAccount'
  <2>1. account[e].by # "invitation" /\ account'[e].by # "invitation"
    BY <1>1 DEF Inv, TypeOK, None
  <2>2. \A d \in Email : d # e => account'[d] = account[d]
    BY <1>1 DEF Inv, TypeOK
  <2>3. QED
    BY <1>1, <2>1, <2>2 DEF Inv, AcceptedHasAccount
<1>5. IssuingAlone' /\ RowAlone' /\ SeenInv' /\ CountInv' /\ CheckedInv'
  BY <1>1 DEF Inv, IssuingAlone, Issuing, RowAlone, HoldsRow, SeenInv, CountInv,
              CheckedInv
<1>6. IssuedInv' /\ QuotaKept'
  BY <1>1 DEF Inv, IssuedInv, QuotaKept, IssuedIn
<1>7. QED
  BY <1>3, <1>4, <1>5, <1>6 DEF Inv

\* expires_at passes, under whoever has the row.
LEMMA LapseKeepsInv ==
    ASSUME Inv, NEW e \in Email, InvitationLapses(e)
    PROVE  Inv'
<1>1. /\ invitation' = [invitation EXCEPT ![e].limit = "lapsed"]
      /\ UNCHANGED <<account, bucket, hour, txn, issued>>
  BY DEF InvitationLapses
<1>2. invitation' \in [Email -> Invitation]
  BY <1>1 DEF Inv, TypeOK, Invitation
<1>3. \A d \in Email : /\ invitation'[d].status = invitation[d].status
                       /\ invitation'[d].token = invitation[d].token
  BY <1>1 DEF Inv, TypeOK, Invitation
<1>4. TypeOK'
  BY <1>1, <1>2 DEF Inv, TypeOK
<1>5. IssuingAlone' /\ RowAlone' /\ CountInv' /\ CheckedInv'
  BY <1>1 DEF Inv, IssuingAlone, Issuing, RowAlone, HoldsRow, CountInv, CheckedInv
<1>6. SeenInv'
  <2>1. \A t \in Thread : HoldsRow(t) => txn[t].email \in Email
    BY TxnFields DEF Inv, TypeOK, Txn, HoldsRow, Create, Settle
  <2>2. QED
    BY <1>1, <1>3, <2>1 DEF Inv, SeenInv, HoldsRow
<1>7. IssuedInv' /\ QuotaKept' /\ AcceptedHasAccount'
  BY <1>1, <1>3 DEF Inv, TypeOK, IssuedInv, QuotaKept, IssuedIn, AcceptedHasAccount
<1>8. QED
  BY <1>4, <1>5, <1>6, <1>7 DEF Inv

\* The clock moves to the next hour.
LEMMA HourKeepsInv ==
    ASSUME Inv, HourTurns
    PROVE  Inv'
<1>1. hour' = hour + 1 /\ UNCHANGED <<invitation, account, bucket, txn, issued>>
  BY DEF HourTurns
<1>2. hour' \in Hour
  BY <1>1, QuotaOK DEF HourTurns, Inv, TypeOK, Hour
<1>3. TypeOK'
  BY <1>1, <1>2 DEF Inv, TypeOK
<1>4. IssuingAlone' /\ RowAlone' /\ SeenInv' /\ CountInv' /\ CheckedInv'
  BY <1>1 DEF Inv, IssuingAlone, Issuing, RowAlone, HoldsRow, SeenInv, CountInv,
              CheckedInv
<1>5. IssuedInv' /\ QuotaKept' /\ AcceptedHasAccount'
  BY <1>1 DEF Inv, IssuedInv, QuotaKept, IssuedIn, AcceptedHasAccount
<1>6. QED
  BY <1>3, <1>4, <1>5 DEF Inv

\* Every step keeps the invariant.
THEOREM NextInv == Inv /\ [Next]_vars => Inv'
<1> SUFFICES ASSUME Inv, [Next]_vars PROVE Inv'
  OBVIOUS
<1>1. CASE UNCHANGED vars
  BY <1>1 DEF vars, Inv, TypeOK, IssuingAlone, Issuing, RowAlone, HoldsRow, SeenInv,
              CountInv, CheckedInv, IssuedInv, QuotaKept, IssuedIn,
              AcceptedHasAccount
<1>2. ASSUME NEW t \in Thread, CreateStep(t) PROVE Inv'
  BY <1>2, BeginKeepsInv, LockKeepsInv, ReadKeepsInv, QuitKeepsInv,
     CreateCommitsKeepsInv DEF CreateStep, CreateKnown, CreateRefused
<1>3. ASSUME NEW t \in Thread, SettleStep(t) PROVE Inv'
  BY <1>3, LocksKeepsInv, CheckKeepsInv, QuitKeepsInv, SettleKeepsInv
     DEF SettleStep, AcceptRefused, AcceptConflicts, RevokeRefused
<1>4. ASSUME NEW t \in Thread, Aborts(t) PROVE Inv'
  BY <1>4, QuitKeepsInv DEF Aborts
<1>5. ASSUME NEW e \in Email, Bootstrap(e) \/ InvitationLapses(e) PROVE Inv'
  BY <1>5, BootstrapKeepsInv, LapseKeepsInv
<1>6. QED
  BY <1>1, <1>2, <1>3, <1>4, <1>5, HourKeepsInv DEF Next

\* The inductive invariant holds of every reachable state.
THEOREM Invariance == Spec => []Inv
  BY InitInv, NextInv, PTL DEF Spec

-----------------------------------------------------------------------------
\* Rows, bucket and threads stay well formed; in particular no bucket counts
\* beyond the quota.
THEOREM TypeCorrect == Spec => []TypeOK
<1>1. Inv => TypeOK
  BY DEF Inv
<1>2. QED
  BY <1>1, Invariance, PTL

\* create_invitation: every issue and reissue of an hour has its slot, and no
\* hour has more than the quota.
THEOREM QuotaHolds == Spec => []QuotaKept
<1>1. Inv => QuotaKept
  BY DEF Inv
<1>2. QED
  BY <1>1, Invariance, PTL

\* An invitation is accepted exactly when it made the account, whatever
\* reissues, revocations and bootstrap runs overlap the acceptance.
THEOREM AcceptanceMakesAccount == Spec => []AcceptedHasAccount
<1>1. Inv => AcceptedHasAccount
  BY DEF Inv
<1>2. QED
  BY <1>1, Invariance, PTL

\* Only the commit of an acceptance makes an account by invitation.
LEMMA AcceptStep ==
    ASSUME Inv, [Next]_vars, NEW e \in Email,
           account[e].by # "invitation", account'[e].by = "invitation"
    PROVE  /\ invitation[e].status = "pending"
           /\ account'[e].token = invitation[e].token
<1>1. PICK t \in Thread : AcceptCommits(t)
  <2>1. \A d \in Email : ~Bootstrap(d)
    BY DEF Bootstrap, Inv, TypeOK
  <2>2. account' # account
    OBVIOUS
  <2>3. QED
    BY <2>1, <2>2
       DEF Next, vars, CreateStep, CreateBegins, CreateKnown, CreateLocks,
           CreateReads, CreateRefused, CreateCommits, SettleStep, AcceptLocks,
           AcceptRefused, AcceptChecks, AcceptConflicts, RevokeLocks,
           RevokeRefused, RevokeCommits, Locks, Waiting, Aborts,
           InvitationLapses, HourTurns, Moves, rows
<1>2. /\ txn[t].email \in Email
      /\ invitation[txn[t].email].status = "pending"
      /\ invitation[txn[t].email].token = txn[t].seen.token
  BY <1>1, SettlesSeen
<1>3. account' = [account EXCEPT ![txn[t].email] =
                    [by |-> "invitation", token |-> txn[t].seen.token]]
  BY <1>1 DEF AcceptCommits
<1>4. e = txn[t].email
  BY <1>3 DEF Inv, TypeOK
<1>5. account'[e].token = txn[t].seen.token
  BY <1>2, <1>3, <1>4 DEF Inv, TypeOK
<1>6. QED
  BY <1>2, <1>4, <1>5

\* accept_invitation: an account comes from an invitation only while that is
\* pending, and with the token it has at that moment.
THEOREM AcceptancePending == Spec => OnlyPendingIsAccepted
<1>1. Inv /\ [Next]_vars =>
        [\A e \in Email :
           account[e].by # "invitation" /\ account'[e].by = "invitation" =>
             /\ invitation[e].status = "pending"
             /\ account'[e].token = invitation[e].token]_vars
  BY AcceptStep
<1>2. QED
  BY <1>1, Invariance, PTL DEF Spec, OnlyPendingIsAccepted
=============================================================================
