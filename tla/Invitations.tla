---------------------------- MODULE Invitations ----------------------------
(***************************************************************************)
(* The invitations of one tenant: issue and reissue under an hourly quota,  *)
(* revocation (admin_routes.py), acceptance with the one-time token         *)
(* (invitation_routes.py), and the accounts that acceptance and             *)
(* scripts/bootstrap_membership.py create.                                  *)
(*                                                                          *)
(* Issuing takes an advisory lock of the tenant, then the row lock of the   *)
(* invitation; revocation and acceptance take the row lock only, and see    *)
(* the row as its last holder left it.  Of the account nothing is locked:   *)
(* the unique constraint on its address decides.                            *)
(*                                                                          *)
(* Abstractions.  A token is its token_version.  The rows of the quota are  *)
(* read under the advisory lock, to which their own lock adds nothing.      *)
(* Ill-formed requests and bad passwords change nothing: a thread gives up  *)
(* (Aborts).                                                                *)
(***************************************************************************)
EXTENDS Integers, FiniteSets

CONSTANTS
    Thread,     \* request threads
    Email,      \* addresses
    Quota,      \* invitations per tenant and hour
    MaxTokens,  \* bound on the invitations of one address
    MaxHours    \* bound on the hours

ASSUME QuotaOK ==
    /\ Quota \in Nat
    /\ MaxTokens \in Nat
    /\ MaxHours \in Nat \ {0}

VARIABLES
    invitation,  \* the row of each address in user_invitations
    account,     \* its credential: who created it, and with which token
    bucket,      \* the rows of invitation_rate_limit_buckets, by hour
    hour,        \* the hour of the clock
    txn,         \* what each thread is doing, and what it has read
    issued       \* history: every invitation issued, with the hour it counts in

vars == <<invitation, account, bucket, hour, txn, issued>>

-----------------------------------------------------------------------------
Hour  == 1 .. MaxHours
Token == 1 .. MaxTokens

\* limit says whether expires_at has passed.
Invitation == [status : {"absent", "pending", "accepted", "revoked"},
               token : 0 .. MaxTokens, limit : {"live", "lapsed"}]
Absent == [status |-> "absent", token |-> 0, limit |-> "live"]

Account == [by : {"none", "bootstrap", "invitation"}, token : 0 .. MaxTokens]
None    == [by |-> "none", token |-> 0]

\* hour and lapsed are what the clock said when the request came: the hour, and
\* the token of the address if it had expired by then.  count is the bucket.
Idle   == [op |-> "none", at |-> "rest"]
Create == [op : {"create"}, at : {"waiting", "issuing", "ready"}, email : Email,
           hour : Hour, lapsed : 0 .. MaxTokens, seen : Invitation, count : Nat]
Settle == [op : {"accept", "revoke"}, at : {"locked", "checked"}, email : Email,
           seen : Invitation]

TypeOK ==
    /\ invitation \in [Email -> Invitation]
    /\ account \in [Email -> Account]
    /\ bucket \in [Hour -> 0 .. Quota]
    /\ hour \in Hour
    /\ txn \in [Thread -> {Idle} \cup Create \cup Settle]
    /\ issued \subseteq [email : Email, token : Token, hour : Hour]

Init ==
    /\ invitation = [e \in Email |-> Absent]
    /\ account = [e \in Email |-> None]
    /\ bucket = [h \in Hour |-> 0]
    /\ hour = 1
    /\ txn = [t \in Thread |-> Idle]
    /\ issued = {}

-----------------------------------------------------------------------------
rows == <<invitation, account, bucket, issued>>

Turns(t, next) == txn' = [txn EXCEPT ![t] = next]

Moves(t, next) == Turns(t, next) /\ UNCHANGED rows /\ UNCHANGED hour

\* pg_advisory_xact_lock.
IssuingFree == \A t \in Thread : txn[t].op = "create" => txn[t].at = "waiting"

\* The row lock of an invitation.
HoldsRow(t) == txn[t].at \in {"ready", "locked", "checked"}
RowFree(e)  == \A t \in Thread : HoldsRow(t) => txn[t].email # e

-----------------------------------------------------------------------------
(* create_invitation.                                                       *)

\* current is taken before the wait for the lock.
CreateBegins(t) ==
    /\ txn[t] = Idle
    /\ \E e \in Email :
         Moves(t, [op |-> "create", at |-> "waiting", email |-> e, hour |-> hour,
                   lapsed |-> IF invitation[e].limit = "lapsed"
                                THEN invitation[e].token ELSE 0,
                   seen |-> Absent, count |-> 0])

Waiting(t) == txn[t].op = "create" /\ txn[t].at = "waiting" /\ IssuingFree

CreateKnown(t) ==
    /\ Waiting(t)
    /\ account[txn[t].email] # None
    /\ Moves(t, Idle)

CreateLocks(t) ==
    /\ Waiting(t)
    /\ account[txn[t].email] = None
    /\ Moves(t, [txn[t] EXCEPT !.at = "issuing"])

CreateReads(t) ==
    /\ txn[t].op = "create" /\ txn[t].at = "issuing"
    /\ RowFree(txn[t].email)
    /\ Moves(t, [txn[t] EXCEPT !.at = "ready",
                               !.seen = invitation[txn[t].email],
                               !.count = bucket[txn[t].hour]])

\* Mutant: the quota is off by one.
IssuableOnce(t) ==
    /\ txn[t].seen.status # "accepted"
    /\ txn[t].seen.status = "pending" => txn[t].seen.token = txn[t].lapsed
    /\ txn[t].count <= Quota

Issuable(t) ==
    /\ txn[t].seen.status # "accepted"
    /\ txn[t].seen.status = "pending" => txn[t].seen.token = txn[t].lapsed
    /\ txn[t].count < Quota

CreateRefused(t) ==
    /\ txn[t].op = "create" /\ txn[t].at = "ready"
    /\ ~Issuable(t)
    /\ Moves(t, Idle)

\* Mutant: only the first invitation of an address takes a slot.
SlotForFirst(t) ==
    [bucket EXCEPT ![txn[t].hour] =
       IF txn[t].seen.status = "absent" THEN txn[t].count + 1 ELSE @]

SlotTaken(t) == [bucket EXCEPT ![txn[t].hour] = txn[t].count + 1]

CreateCommits(t) ==
    /\ txn[t].op = "create" /\ txn[t].at = "ready"
    /\ Issuable(t)
    /\ txn[t].seen.token < MaxTokens
    /\ LET e == txn[t].email
           token == txn[t].seen.token + 1
       IN  /\ invitation' = [invitation EXCEPT ![e] =
                [status |-> "pending", token |-> token, limit |-> "live"]]
           /\ issued' = issued \cup
                {[email |-> e, token |-> token, hour |-> txn[t].hour]}
    /\ bucket' = SlotTaken(t)
    /\ Turns(t, Idle)
    /\ UNCHANGED <<account, hour>>

-----------------------------------------------------------------------------
(* accept_invitation, revoke.                                               *)

Locks(t, op, e) ==
    /\ txn[t] = Idle
    /\ invitation[e].status # "absent"
    /\ Moves(t, [op |-> op, at |-> "locked", email |-> e, seen |-> invitation[e]])

\* Mutant: the row is read without FOR UPDATE.
AcceptReads(t) == \E e \in Email : Locks(t, "accept", e)

\* By the token: after a wait the row must still have it.
AcceptLocks(t) == \E e \in Email : RowFree(e) /\ Locks(t, "accept", e)

Acceptable(t) ==
    /\ txn[t].seen.status = "pending" /\ txn[t].seen.limit = "live"
    /\ account[txn[t].email] = None

AcceptRefused(t) ==
    /\ txn[t].op = "accept" /\ txn[t].at = "locked"
    /\ ~Acceptable(t)
    /\ Moves(t, Idle)

AcceptChecks(t) ==
    /\ txn[t].op = "accept" /\ txn[t].at = "locked"
    /\ Acceptable(t)
    /\ Moves(t, [txn[t] EXCEPT !.at = "checked"])

\* Membership, credential and invitation, in one transaction.
AcceptCommits(t) ==
    /\ txn[t].op = "accept" /\ txn[t].at = "checked"
    /\ account[txn[t].email] = None
    /\ account' = [account EXCEPT ![txn[t].email] =
         [by |-> "invitation", token |-> txn[t].seen.token]]
    /\ invitation' = [invitation EXCEPT ![txn[t].email].status = "accepted"]
    /\ Turns(t, Idle)
    /\ UNCHANGED <<bucket, hour, issued>>

\* Mutant: the conflict is found after the invitation is accepted.
AcceptSpends(t) ==
    /\ txn[t].op = "accept" /\ txn[t].at = "checked"
    /\ account[txn[t].email] # None
    /\ invitation' = [invitation EXCEPT ![txn[t].email].status = "accepted"]
    /\ Turns(t, Idle)
    /\ UNCHANGED <<account, bucket, hour, issued>>

\* uq_native_credential_tenant_email.
AcceptConflicts(t) ==
    /\ txn[t].op = "accept" /\ txn[t].at = "checked"
    /\ account[txn[t].email] # None
    /\ Moves(t, Idle)

RevokeLocks(t) == \E e \in Email : RowFree(e) /\ Locks(t, "revoke", e)

RevokeRefused(t) ==
    /\ txn[t].op = "revoke"
    /\ txn[t].seen.status # "pending"
    /\ Moves(t, Idle)

RevokeCommits(t) ==
    /\ txn[t].op = "revoke"
    /\ txn[t].seen.status = "pending"
    /\ invitation' = [invitation EXCEPT ![txn[t].email].status = "revoked"]
    /\ Turns(t, Idle)
    /\ UNCHANGED <<account, bucket, hour, issued>>

-----------------------------------------------------------------------------
(* The bootstrap script, and the environment.                               *)

Bootstrap(e) ==
    /\ account[e] = None
    /\ account' = [account EXCEPT ![e] = [by |-> "bootstrap", token |-> 0]]
    /\ UNCHANGED <<invitation, bucket, hour, txn, issued>>

Aborts(t) == txn[t] # Idle /\ Moves(t, Idle)

InvitationLapses(e) ==
    /\ invitation[e].status = "pending" /\ invitation[e].limit = "live"
    /\ invitation' = [invitation EXCEPT ![e].limit = "lapsed"]
    /\ UNCHANGED <<account, bucket, hour, txn, issued>>

HourTurns ==
    /\ hour < MaxHours
    /\ hour' = hour + 1
    /\ UNCHANGED <<invitation, account, bucket, txn, issued>>

-----------------------------------------------------------------------------
CreateStep(t) ==
    \/ CreateBegins(t) \/ CreateKnown(t) \/ CreateLocks(t) \/ CreateReads(t)
    \/ CreateRefused(t) \/ CreateCommits(t)

SettleStep(t) ==
    \/ AcceptLocks(t) \/ AcceptRefused(t) \/ AcceptChecks(t)
    \/ AcceptCommits(t) \/ AcceptConflicts(t)
    \/ RevokeLocks(t) \/ RevokeRefused(t) \/ RevokeCommits(t)

Next ==
    \/ \E t \in Thread : CreateStep(t) \/ SettleStep(t) \/ Aborts(t)
    \/ \E e \in Email : Bootstrap(e) \/ InvitationLapses(e)
    \/ HourTurns

Spec == Init /\ [][Next]_vars

-----------------------------------------------------------------------------
(* Properties.                                                              *)

IssuedIn(h) == {i \in issued : i.hour = h}

\* "Every successful issuance consumes one durable slot, including a reissue of
\* a revoked/expired invitation" (admin_routes.py), so that no hour has more
\* than its quota, whoever waits for the lock past the end of the hour.
QuotaKept ==
    \A h \in Hour : /\ bucket[h] = Cardinality(IssuedIn(h))
                    /\ bucket[h] <= Quota

\* An invitation is accepted exactly when it created the account, with the
\* token it has: no reissue undoes an acceptance, and no conflict spends it.
AcceptedHasAccount ==
    \A e \in Email :
        (account[e].by = "invitation")
          <=> (invitation[e].status = "accepted")

\* Only a pending invitation is accepted, with the token it then has: neither
\* revoked nor superseded while the request waited or hashed the password.
OnlyPendingIsAccepted ==
    [][\A e \in Email :
         account[e].by # "invitation" /\ account'[e].by = "invitation" =>
           /\ invitation[e].status = "pending"
           /\ account'[e].token = invitation[e].token]_vars
=============================================================================
