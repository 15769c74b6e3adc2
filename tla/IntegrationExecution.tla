------------------------ MODULE IntegrationExecution ------------------------
(***************************************************************************)
(* The draft-message capability for ONE idempotency key: services.py        *)
(* create_draft over integration_idempotency.py, called by routes.py        *)
(* cap_draft.  Request threads (Handler) share, in PostgreSQL, the          *)
(* integration_executions row elected by the key, the draft, its versions   *)
(* and the cognitive execution; each thread runs a sequence of transactions *)
(* around one call to ORKIO.                                                *)
(*                                                                          *)
(* A thread's steps are the code's transactions and the reads that decide   *)
(* its path.  A compare-and-set UPDATE and the COMMIT that follows it are   *)
(* one step.  What a thread has not committed is lost when it dies.         *)
(*                                                                          *)
(* Abstractions.  A request digest is the record of the two fields that can *)
(* differ between requests with one key: the body and the project's         *)
(* context_version.  An owner token (a fresh uuid4 per acquisition) is the  *)
(* number of the acquisition, so 0 stands for NULL.  A draft's content is   *)
(* the number of the attempt that obtained it.  A lease is live or lapsed:  *)
(* LeaseLapses is the passing of lease_expires_at.                          *)
(***************************************************************************)
EXTENDS Integers

CONSTANTS
    Handler,        \* request threads
    Body,           \* bodies clients send under the key
    MaxAttempts,    \* bound on acquisitions of the lease
    MaxContext,     \* bound on the project's context_version
    MaxVersion,     \* bound on the draft's versions
    SkewedClocks    \* may an application clock disagree with the database's

ASSUME ConstantsOK ==
    /\ MaxAttempts \in Nat
    /\ MaxContext \in Nat \ {0}
    /\ MaxVersion \in Nat \ {0}
    /\ SkewedClocks \in BOOLEAN

VARIABLES
    project,     \* the project row: context_version and archived_at
    ledger,      \* the integration_executions row of the key
    draft,       \* the draft row: status and current_version
    versions,    \* the draft_versions rows
    cognitive,   \* status of the cognitive_executions row
    pc,          \* where each thread is
    digest,      \* request_sha256 each thread computed
    token,       \* the owner token each thread acquired
    inTime,      \* was its lease live when its last transaction began
    answered,    \* 200 responses given to clients
    lapsed       \* owner tokens whose lease has run out (history)

shared  == <<project, ledger, draft, versions, cognitive>>
local   == <<pc, digest, token, inTime>>
history == <<answered, lapsed>>
vars    == <<shared, local, history>>

-----------------------------------------------------------------------------
Attempt == 1 .. MaxAttempts
Digest  == [body : Body, context : 1 .. MaxContext]
NoDigest == [body |-> "none", context |-> 0]

\* created_by of a draft version: 0 a person, otherwise the AI attempt.
Person  == 0
Version == [version : 1 .. MaxVersion, by : 0 .. MaxAttempts]

Terminal == {"completed", "failed"}
Open     == {"contextualized", "calling"}

AbsentRow ==
    [status |-> "absent", sha |-> NoDigest, owner |-> 0, lease |-> "none",
     attempts |-> 0, response |-> 0]

NewRow(d) == [AbsentRow EXCEPT !.status = "contextualized", !.sha = d]

\* Threads past the acquisition of a lease.
Holding == {"reload", "mark", "calling", "finishing", "failing"}
Step    == {"idle", "lookup", "create", "lease"} \cup Holding

Row == [status : {"absent"} \cup Open \cup Terminal,
        sha : Digest \cup {NoDigest}, owner : 0 .. MaxAttempts,
        lease : {"none", "live", "lapsed"},
        attempts : 0 .. MaxAttempts, response : 0 .. MaxAttempts]

DraftRow == [status : {"absent", "criticized"} \cup Open \cup Terminal,
             current : 0 .. MaxVersion]

TypeOK ==
    /\ project \in [context : 1 .. MaxContext, archived : BOOLEAN]
    /\ ledger \in Row
    /\ draft \in DraftRow
    /\ versions \subseteq Version
    /\ cognitive \in {"absent"} \cup Open \cup Terminal
    /\ pc \in [Handler -> Step]
    /\ digest \in [Handler -> Digest \cup {NoDigest}]
    /\ token \in [Handler -> 0 .. MaxAttempts]
    /\ inTime \in [Handler -> BOOLEAN]
    /\ answered \subseteq [body : Body, response : Attempt]
    /\ lapsed \subseteq Attempt

Init ==
    /\ project = [context |-> 1, archived |-> FALSE]
    /\ ledger = AbsentRow
    /\ draft = [status |-> "absent", current |-> 0]
    /\ versions = {}
    /\ cognitive = "absent"
    /\ pc = [h \in Handler |-> "idle"]
    /\ digest = [h \in Handler |-> NoDigest]
    /\ token = [h \in Handler |-> 0]
    /\ inTime = [h \in Handler |-> FALSE]
    /\ answered = {}
    /\ lapsed = {}

-----------------------------------------------------------------------------
(* How a thread leaves: every exit forgets the request.                     *)

Goto(h, where) == pc' = [pc EXCEPT ![h] = where]

Leave(h) ==
    /\ Goto(h, "idle")
    /\ digest' = [digest EXCEPT ![h] = NoDigest]
    /\ token' = [token EXCEPT ![h] = 0]
    /\ inTime' = [inTime EXCEPT ![h] = FALSE]

\* An HTTP error: 409, 500 or 502.
Fail(h) == Leave(h) /\ UNCHANGED <<shared, history>>

\* The stored domain response is sent again.
ReplayStored(h) ==
    /\ ledger.status = "completed"
    /\ answered' = answered \cup
         {[body |-> digest[h].body, response |-> ledger.response]}
    /\ Leave(h)
    /\ UNCHANGED <<shared, lapsed>>

-----------------------------------------------------------------------------
(* cap_draft, up to the row of the key.                                     *)

\* mutable_project_or_409, project_or_404 and the digest of the request.
Receive(h, b) ==
    /\ pc[h] = "idle"
    /\ ~project.archived
    /\ digest' = [digest EXCEPT ![h] = [body |-> b, context |-> project.context]]
    /\ Goto(h, "lookup")
    /\ UNCHANGED <<shared, token, inTime, history>>

\* 409 project_archived.
RefuseArchived(h) ==
    /\ pc[h] = "idle"
    /\ project.archived
    /\ UNCHANGED vars

\* find_execution returns nothing.
LookupMisses(h) ==
    /\ pc[h] = "lookup"
    /\ ledger.status = "absent"
    /\ Goto(h, "create")
    /\ UNCHANGED <<shared, digest, token, inTime, history>>

\* The row of the key is there: on find_execution, or reread by
\* commit_new_or_recover_winner once the unique constraint has refused ours.
SeesRow(h) ==
    /\ pc[h] \in {"lookup", "create"}
    /\ ledger.status # "absent"

\* Mutant: a digest that leaves the body out.
SameRequestNoBody(h) == ledger.sha.context = digest[h].context

SameRequest(h) == ledger.sha = digest[h]

KeyReused(h) == SeesRow(h) /\ ~SameRequest(h) /\ Fail(h)

RowCompleted(h) == SeesRow(h) /\ SameRequest(h) /\ ReplayStored(h)

RowFailed(h) ==
    /\ SeesRow(h) /\ SameRequest(h)
    /\ ledger.status = "failed"
    /\ Fail(h)

RowOpen(h) ==
    /\ SeesRow(h) /\ SameRequest(h)
    /\ ledger.status \in Open
    /\ Goto(h, "lease")
    /\ UNCHANGED <<shared, digest, token, inTime, history>>

\* One transaction inserts draft, cognitive execution and row.
Create(h) ==
    /\ pc[h] = "create"
    /\ ledger.status = "absent"
    /\ ledger' = NewRow(digest[h])
    /\ draft' = [status |-> "contextualized", current |-> 0]
    /\ cognitive' = "contextualized"
    /\ Goto(h, "lease")
    /\ UNCHANGED <<project, versions, digest, token, inTime, history>>
-----------------------------------------------------------------------------
(* acquire_execution_lease: one conditional UPDATE, committed, then a       *)
(* second transaction that reads the row again.                             *)

\* What the application clock makes of lease_expires_at.
LooksLapsed == ledger.lease = "lapsed" \/ (SkewedClocks /\ ledger.lease = "live")
LooksLive   == ledger.lease = "live" \/ (SkewedClocks /\ ledger.lease = "lapsed")

\* Mutants: the WHERE clause without the lease, with the failed rows, and
\* without the takeover.
LeaseFreeAlways == ledger.status \in Open
LeaseFreeFailed ==
    /\ ledger.status \in Open \cup {"failed"}
    /\ ledger.owner = 0 \/ ledger.lease = "none" \/ LooksLapsed
LeaseFreeNever == ledger.status \in Open /\ ledger.owner = 0

\* The WHERE clause.  (owner_token = mine never holds: the token is fresh.)
LeaseFree ==
    /\ ledger.status \in Open
    /\ ledger.owner = 0 \/ ledger.lease = "none" \/ LooksLapsed

\* A lease cut short by a clock that runs ahead has not run out.
AcquireLease(h) ==
    /\ pc[h] = "lease"
    /\ LeaseFree
    /\ ledger.attempts < MaxAttempts
    /\ LET mine == ledger.attempts + 1
       IN  /\ ledger' = [ledger EXCEPT !.status = "calling", !.owner = mine,
                                       !.lease = "live", !.attempts = mine]
           /\ token' = [token EXCEPT ![h] = mine]
    /\ Goto(h, "reload")
    /\ UNCHANGED <<project, draft, versions, cognitive, digest, inTime, history>>

\* No row matched.  The read that follows and the refused UPDATE are one
\* step, at the time of the read: the UPDATE would be refused there too.
LeaseReplay(h) == pc[h] = "lease" /\ ReplayStored(h)

LeaseRefused(h) ==
    /\ pc[h] = "lease"
    /\ \/ ledger.status = "failed"
       \/ ledger.status = "calling" /\ ledger.owner # 0 /\ LooksLive
    /\ Fail(h)

\* The row read back: still mine, or taken over since the commit.
StillMine(h) == ledger.owner = token[h]

LeaseConfirmed(h) ==
    /\ pc[h] = "reload"
    /\ StillMine(h)
    /\ Goto(h, "mark")
    /\ UNCHANGED <<shared, digest, token, inTime, history>>

LostReplay(h) == pc[h] = "reload" /\ ~StillMine(h) /\ ReplayStored(h)

LostLease(h) ==
    /\ pc[h] = "reload"
    /\ ~StillMine(h)
    /\ ledger.status # "completed"
    /\ Fail(h)

-----------------------------------------------------------------------------
(* create_draft, from the lease to the answer.                              *)

\* Mutant: a status outside the vocabulary.
MarkProcessing(h) ==
    /\ pc[h] = "mark"
    /\ draft' = [draft EXCEPT !.status = "processing"]
    /\ cognitive' = "calling"
    /\ Goto(h, "calling")
    /\ UNCHANGED <<project, ledger, versions, digest, token, inTime, history>>

\* execution.status = draft.status = "calling"; commit.  Two UPDATEs by
\* primary key: no ownership predicate.  The call to ORKIO then starts.
MarkCalling(h) ==
    /\ pc[h] = "mark"
    /\ draft' = [draft EXCEPT !.status = "calling"]
    /\ cognitive' = "calling"
    /\ Goto(h, "calling")
    /\ UNCHANGED <<project, ledger, versions, digest, token, inTime, history>>

\* ORKIO answered.  The transaction that stores the draft begins, and with it
\* the now() its compare-and-set will use.
OrkioSucceeds(h) ==
    /\ pc[h] = "calling"
    /\ inTime' = [inTime EXCEPT ![h] = (ledger.lease = "live")]
    /\ Goto(h, "finishing")
    /\ UNCHANGED <<shared, digest, token, history>>

\* OrkioAdapterError.
OrkioFails(h) ==
    /\ pc[h] = "calling"
    /\ Goto(h, "failing")
    /\ UNCHANGED <<shared, digest, token, inTime, history>>

\* Mutant: the finalizing UPDATE without its ownership predicate.
OwnsAnyRow(h) == token[h] \in Attempt

\* The WHERE clause of finalize_execution_if_owner and
\* fail_execution_if_owner, less the comparison of the lease with now().
OwnsRow(h) == ledger.status = "calling" /\ ledger.owner = token[h]

\* Mutant: no unique constraint on the versions of a draft.
VersionNeverTaken(n) == n = 0

\* uq_draft_version.
VersionTaken(n) == \E v \in versions : v.version = n

Released(status, response) ==
    [ledger EXCEPT !.status = status, !.response = response,
                   !.owner = 0, !.lease = "none"]

\* One transaction: the version, the draft, the execution, the row, the audit
\* event; then the response, unless the thread dies before it is sent.
Complete(h) ==
    /\ pc[h] = "finishing"
    /\ ~VersionTaken(1)
    /\ OwnsRow(h) /\ inTime[h]
    /\ ledger' = Released("completed", token[h])
    /\ draft' = [status |-> "criticized", current |-> 1]
    /\ versions' = versions \cup {[version |-> 1, by |-> token[h]]}
    /\ cognitive' = "completed"
    /\ answered' \in {answered, answered \cup
         {[body |-> digest[h].body, response |-> token[h]]}}
    /\ Leave(h)
    /\ UNCHANGED <<project, lapsed>>

\* Mutant: the version is committed before the compare-and-set.
CompletionRefusedKeepsVersion(h) ==
    /\ pc[h] = "finishing"
    /\ VersionTaken(1) \/ ~(OwnsRow(h) /\ inTime[h])
    /\ versions' = IF VersionTaken(1) THEN versions
                    ELSE versions \cup {[version |-> 1, by |-> token[h]]}
    /\ Leave(h)
    /\ UNCHANGED <<project, ledger, draft, cognitive, history>>

\* The version number is taken (IntegrityError), or the compare-and-set
\* matches no row: the transaction is rolled back.
CompletionRefused(h) ==
    /\ pc[h] = "finishing"
    /\ VersionTaken(1) \/ ~(OwnsRow(h) /\ inTime[h])
    /\ Fail(h)

RecordFailure(h) ==
    /\ pc[h] = "failing"
    /\ OwnsRow(h) /\ ledger.lease = "live"
    /\ ledger' = Released("failed", 0)
    /\ draft' = [draft EXCEPT !.status = "failed"]
    /\ cognitive' = "failed"
    /\ Leave(h)
    /\ UNCHANGED <<project, versions, history>>

FailureRefused(h) ==
    /\ pc[h] = "failing"
    /\ ~(OwnsRow(h) /\ ledger.lease = "live")
    /\ Fail(h)

-----------------------------------------------------------------------------
(* The environment.                                                         *)

\* The thread dies, or the database aborts its transaction.
Crash(h) == pc[h] # "idle" /\ Fail(h)

LeaseLapses ==
    /\ ledger.lease = "live"
    /\ ledger' = [ledger EXCEPT !.lease = "lapsed"]
    /\ lapsed' = lapsed \cup {ledger.owner}
    /\ UNCHANGED <<project, draft, versions, cognitive, local, answered>>

\* services.py add_version, by a person.  Nothing asks for the draft's status.
HumanEdit ==
    /\ ~project.archived
    /\ draft.status # "absent"
    /\ draft.current < MaxVersion
    /\ ~VersionTaken(draft.current + 1)
    /\ draft' = [status |-> "criticized", current |-> draft.current + 1]
    /\ versions' = versions \cup {[version |-> draft.current + 1, by |-> Person]}
    /\ UNCHANGED <<project, ledger, cognitive, local, history>>

\* Any of the project's writers, archive_project and restore_project.  They
\* write context_version as they read it, plus one: a late one moves it back
\* (ProjectLifecycle).
ContextMoves ==
    /\ \E c \in 2 .. project.context + 1, archived \in BOOLEAN :
         /\ c <= MaxContext
         /\ project' = [context |-> c, archived |-> archived]
    /\ UNCHANGED <<ledger, draft, versions, cognitive, local, history>>

-----------------------------------------------------------------------------
Capability(h) ==
    \/ LookupMisses(h) \/ KeyReused(h) \/ RowCompleted(h) \/ RowFailed(h)
    \/ RowOpen(h) \/ Create(h)
    \/ AcquireLease(h) \/ LeaseReplay(h) \/ LeaseRefused(h)
    \/ LeaseConfirmed(h) \/ LostReplay(h) \/ LostLease(h)
    \/ MarkCalling(h) \/ OrkioSucceeds(h) \/ OrkioFails(h)
    \/ Complete(h) \/ CompletionRefused(h) \/ RecordFailure(h) \/ FailureRefused(h)

Next ==
    \/ \E h \in Handler :
         \/ Capability(h) \/ Crash(h) \/ RefuseArchived(h)
         \/ \E b \in Body : Receive(h, b)
    \/ LeaseLapses \/ HumanEdit \/ ContextMoves

Spec == Init /\ [][Next]_vars

\* Threads run, time passes, clients send again what was not settled, and the
\* threads do not die every time at the same point on their way to the lease.
\* Nothing is assumed of the crashes after it, of people or of the context.
Fairness ==
    /\ \A h \in Handler : WF_vars(Capability(h))
    /\ WF_vars(LeaseLapses)
    /\ SF_vars(\E h \in Handler : RowOpen(h))
    /\ SF_vars(\E h \in Handler : Create(h))
    /\ SF_vars(\E h \in Handler : AcquireLease(h))
    /\ \A b \in Body : SF_vars(\E h \in Handler : Receive(h, b))

FairSpec == Spec /\ Fairness

-----------------------------------------------------------------------------
(* Properties.                                                              *)

\* Every 200 for the key carries the body the row was elected with and the
\* draft it was completed with: a retry, a concurrent duplicate, a takeover or
\* a lost response never yields a second draft (create_draft's three replays).
OneStableAnswer ==
    \A a \in answered :
        /\ ledger.status = "completed"
        /\ a = [body |-> ledger.sha.body, response |-> ledger.response]

\* The row is completed exactly when the AI's version exists, and it is the
\* attempt that completed the row that wrote it: finalize_execution_if_owner
\* commits or rolls back both, whoever else held a lease meanwhile.
CompletedIffVersion ==
    {v \in versions : v.by # Person} =
        IF ledger.status = "completed"
        THEN {[version |-> 1, by |-> ledger.response]} ELSE {}

\* current_version counts the versions, without a gap or a duplicate, although
\* the AI writes it blindly (current_version = 1) and a person increments it
\* without looking at the draft's status.
VersionsMatchCurrent ==
    /\ {v.version : v \in versions} = 1 .. draft.current
    /\ \A v, w \in versions : v.version = w.version => v = w

\* Of two threads inside the call to ORKIO, one at least has outlived its
\* lease ("only one live lease owner may call ORKIO").
OneLiveCaller ==
    \A g, h \in Handler :
        g # h /\ pc[g] = "calling" /\ pc[h] = "calling"
          => token[g] \in lapsed \/ token[h] \in lapsed

\* A settled row never changes again, and an elected row keeps its request.
SettledForever ==
    [][/\ ledger.status \in Terminal => ledger' = ledger
       /\ ledger.status # "absent" => ledger'.sha = ledger.sha]_vars

\* An open execution settles, unless takeovers reach the bound, the project is
\* archived or its context moves on (no request has its digest then), or a
\* person's edit holds version 1.
OpenSettles ==
    ledger.status \in Open ~>
        \/ ledger.status \in Terminal
        \/ ledger.attempts = MaxAttempts
        \/ project.archived
        \/ project.context # ledger.sha.context
        \/ VersionTaken(1)

-----------------------------------------------------------------------------
(* The abstract specification this one implements.                          *)

Outcome ==
    CASE ledger.status = "completed" -> ledger.response
      [] ledger.status = "failed"    -> -1
      [] OTHER                       -> 0

Promise == INSTANCE DraftOutcome WITH
    Response  <- Attempt,
    Undecided <- 0,
    Refused   <- -1,
    outcome   <- Outcome,
    delivered <- {a.response : a \in answered}

\* Every behaviour of the code is one of DraftOutcome.
ImplementsDraftOutcome == Promise!Spec

-----------------------------------------------------------------------------
(* What the documentation says and the code does not do.                    *)

\* ARCHITECTURE.md:108: a stale owner persists nothing.  A completed
\* execution's draft is then never "calling" again.
StaleOwnerPersistsNothing ==
    ledger.status = "completed" => draft.status # "calling"
=============================================================================
