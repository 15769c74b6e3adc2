---------------------------- MODULE DraftApproval ----------------------------
(***************************************************************************)
(* One draft after the AI answered: edits, approval requests, decisions and *)
(* the promotion of an approved communication to project memory             *)
(* (services.py add_version, request_approval, decide,                      *)
(* approve_memory_candidate, under routes.py edit, request, approve, reject *)
(* and promote_memory).                                                     *)
(*                                                                          *)
(* Nothing here locks a row.  A request thread reads, in READ COMMITTED, the *)
(* rows its decision rests on, and writes them back later in one            *)
(* transaction; only the unique constraints look at what was committed      *)
(* meanwhile.  Each SELECT is a step, and the flush with its commit is one.  *)
(*                                                                          *)
(* Abstractions.  A version is its number: (draft_id, version) is unique    *)
(* and the content of a version never changes, so sha(version.content) is   *)
(* always the request's requested_content_sha256.  The ApprovedVersion row  *)
(* stands for the outbox event written with it.                             *)
(***************************************************************************)
EXTENDS Integers, Sequences, FiniteSetsExt

CONSTANTS
    Thread,       \* request threads
    FactKey,      \* keys under which memory facts are kept
    MaxVersion,   \* bound on the draft's versions
    MaxRequests   \* bound on the approval requests

ASSUME BoundsOK == MaxVersion \in Nat \ {0} /\ MaxRequests \in Nat

ASSUME ThreadsOK == IsFiniteSet(Thread)

VARIABLES
    archived,     \* project.archived_at is set
    draft,        \* the draft row: status and current_version
    versions,     \* the numbers in draft_versions
    requests,     \* the approval_requests rows, in commit order
    decisions,    \* the approval_decisions rows, in commit order
    approved,     \* the versions in approved_versions
    candidate,    \* status of the memory candidate of each version
    facts,        \* the project_memory_facts rows
    txn           \* what each thread is doing and has read

rows == <<draft, versions, requests, decisions, approved, candidate, facts>>
vars == <<archived, rows, txn>>

-----------------------------------------------------------------------------
VersionNo == 1 .. MaxVersion
Decision  == {"approved", "rejected"}
RequestStatus == Decision \cup {"awaiting_approval", "invalidated"}
DraftStatus   == Decision \cup {"failed", "criticized", "awaiting_approval"}

Request == [version : VersionNo, status : RequestStatus]
Fact    == [key : FactKey, version : Nat \ {0}, source : VersionNo]
Draft   == [status : DraftStatus, current : 0 .. MaxVersion]

Idle == [op |-> "none"]

\* seen is the draft row as the thread read it.
Txn ==
    {Idle}
    \cup [op : {"edit"}, at : {"scan"}, seen : Draft]
    \cup [op : {"edit"}, at : {"commit"}, seen : Draft,
          found : SUBSET (1 .. MaxRequests)]
    \cup [op : {"request"}, seen : Draft, version : VersionNo]
    \cup [op : Decision, at : {"find"}, seen : Draft, version : VersionNo]
    \cup [op : Decision, at : {"commit"}, seen : Draft, version : VersionNo,
          found : 1 .. MaxRequests]
    \cup [op : {"promote"}, at : {"count"}, version : VersionNo, key : FactKey]
    \cup [op : {"promote"}, at : {"commit"}, version : VersionNo, key : FactKey,
          number : Nat \ {0}]

TypeOK ==
    /\ archived \in BOOLEAN
    /\ draft \in Draft
    /\ versions \subseteq VersionNo
    /\ requests \in Seq(Request)
    /\ Len(requests) <= MaxRequests
    /\ decisions \in Seq([request : 1 .. MaxRequests, decision : Decision])
    /\ approved \subseteq VersionNo
    /\ candidate \in [VersionNo -> {"none", "pending", "promoted"}]
    /\ facts \subseteq Fact
    /\ txn \in [Thread -> Txn]

\* create_draft has stored version 1, or has recorded a failure.
Init ==
    /\ archived = FALSE
    /\ \/ draft = [status |-> "criticized", current |-> 1]
       \/ draft = [status |-> "failed", current |-> 0]
    /\ versions = 1 .. draft.current
    /\ requests = <<>>
    /\ decisions = <<>>
    /\ approved = {}
    /\ candidate = [v \in VersionNo |-> "none"]
    /\ facts = {}
    /\ txn = [t \in Thread |-> Idle]

-----------------------------------------------------------------------------
Holds(t, next) == txn' = [txn EXCEPT ![t] = next]

\* A read: nothing is written.
Reads(t, next) == Holds(t, next) /\ UNCHANGED <<archived, rows>>

\* The end of a transaction that is rolled back, or an HTTP error.
RollsBack(t) == Reads(t, Idle)

\* mutable_project_or_409.
Starts(t) == txn[t] = Idle /\ ~archived

At(t, op, at) == txn[t].op = op /\ txn[t].at = at

\* Mutant: a status outside the vocabulary.
StatusMisspelt(seen, new) == IF new = "rejected" THEN "refused" ELSE new

\* The unit of work writes the columns that differ from what it loaded.
StatusAfter(seen, new) == IF seen.status = new THEN draft.status ELSE new

AwaitingOn(v) ==
    {i \in DOMAIN requests :
        requests[i].version = v /\ requests[i].status = "awaiting_approval"}

-----------------------------------------------------------------------------
(* edit: add_version.                                                       *)

EditReads(t) ==
    /\ Starts(t)
    /\ Reads(t, [op |-> "edit", at |-> "scan", seen |-> draft])

\* The open requests of the draft, of whatever version.
EditScans(t) ==
    /\ At(t, "edit", "scan")
    /\ Reads(t, [op |-> "edit", at |-> "commit", seen |-> txn[t].seen,
                 found |-> UNION {AwaitingOn(v) : v \in VersionNo}])

\* Mutant: no unique constraint on (draft_id, version).
NeverTaken(v) == v \notin VersionNo

\* uq_draft_version.
VersionTaken(v) == v \in versions

EditCommits(t) ==
    /\ At(t, "edit", "commit")
    /\ LET n == txn[t].seen.current + 1
       IN  /\ n <= MaxVersion
           /\ ~VersionTaken(n)
           /\ versions' = versions \cup {n}
           /\ draft' = [status  |-> StatusAfter(txn[t].seen, "criticized"),
                        current |-> n]
    /\ requests' = [i \in DOMAIN requests |->
                      IF i \in txn[t].found
                      THEN [requests[i] EXCEPT !.status = "invalidated"]
                      ELSE requests[i]]
    /\ Holds(t, Idle)
    /\ UNCHANGED <<archived, decisions, approved, candidate, facts>>

\* IntegrityError.
EditRefused(t) ==
    /\ At(t, "edit", "commit")
    /\ VersionTaken(txn[t].seen.current + 1)
    /\ RollsBack(t)

-----------------------------------------------------------------------------
(* request: request_approval.  409 unless the version is the current one.   *)

RequestReads(t, v) ==
    /\ Starts(t)
    /\ v \in versions
    /\ v = draft.current
    /\ Reads(t, [op |-> "request", seen |-> draft, version |-> v])

RequestCommits(t) ==
    /\ txn[t].op = "request"
    /\ Len(requests) < MaxRequests
    /\ requests' = Append(requests, [version |-> txn[t].version,
                                     status  |-> "awaiting_approval"])
    /\ draft' = [draft EXCEPT !.status =
                   StatusAfter(txn[t].seen, "awaiting_approval")]
    /\ Holds(t, Idle)
    /\ UNCHANGED <<archived, versions, decisions, approved, candidate, facts>>

-----------------------------------------------------------------------------
(* approve and reject: decide.                                              *)

DecideReads(t, v, d) ==
    /\ Starts(t)
    /\ v \in versions
    /\ Reads(t, [op |-> d, at |-> "find", seen |-> draft, version |-> v])

\* The newest open request on the version.  created_at is set by the
\* application before its commit, so any of them may be the newest.
DecideFinds(t) ==
    /\ txn[t].op \in Decision /\ txn[t].at = "find"
    /\ txn[t].version = txn[t].seen.current
    /\ \E i \in AwaitingOn(txn[t].version) :
         Reads(t, [op |-> txn[t].op, at |-> "commit", seen |-> txn[t].seen,
                   version |-> txn[t].version, found |-> i])

\* 404, or 409 for a version that is not current: the "invalidated" the code
\* assigns before it raises is never committed.
DecideRefused(t) ==
    /\ txn[t].op \in Decision /\ txn[t].at = "find"
    /\ AwaitingOn(txn[t].version) = {} \/ txn[t].version # txn[t].seen.current
    /\ RollsBack(t)

\* Mutant: no unique constraint on the approved version.
ApprovedNever(v) == v \notin VersionNo

\* uq_approved_draft_version.
AlreadyApproved(v) == v \in approved

\* The decision itself: the request, the draft and the decision row.
Record(t) ==
    /\ requests' = [requests EXCEPT ![txn[t].found].status = txn[t].op]
    /\ draft' = [draft EXCEPT !.status = StatusAfter(txn[t].seen, txn[t].op)]
    /\ decisions' = Append(decisions, [request  |-> txn[t].found,
                                       decision |-> txn[t].op])
    /\ Holds(t, Idle)
    /\ UNCHANGED <<archived, versions, facts>>

\* With the approved version comes its memory candidate.
ApproveCommits(t) ==
    /\ At(t, "approved", "commit")
    /\ ~AlreadyApproved(txn[t].version)
    /\ approved' = approved \cup {txn[t].version}
    /\ candidate' = [candidate EXCEPT ![txn[t].version] = "pending"]
    /\ Record(t)

ApproveRefused(t) ==
    /\ At(t, "approved", "commit")
    /\ AlreadyApproved(txn[t].version)
    /\ RollsBack(t)

RejectCommits(t) ==
    /\ At(t, "rejected", "commit")
    /\ Record(t)
    /\ UNCHANGED <<approved, candidate>>

-----------------------------------------------------------------------------
(* promote_memory: approve_memory_candidate.                                *)

\* Mutant: a promoted candidate is found too.
Found(v) == candidate[v] # "none"

\* The candidate is looked for among the pending ones.
Pending(v) == candidate[v] = "pending"

PromoteReads(t, v, k) ==
    /\ Starts(t)
    /\ Pending(v)
    /\ Reads(t, [op |-> "promote", at |-> "count", version |-> v, key |-> k])

NumbersOf(k) == {f.version : f \in {g \in facts : g.key = k}}

\* Mutant: no unique constraint on (fact_key, version).
FactNeverTaken(k, n) == k \notin FactKey

\* uq_project_memory_fact_version.
FactTaken(k, n) == n \in NumbersOf(k)

\* max(version) + 1 of the key.
PromoteCounts(t) ==
    /\ At(t, "promote", "count")
    /\ Reads(t, [op |-> "promote", at |-> "commit",
                 version |-> txn[t].version, key |-> txn[t].key,
                 number |-> Max(NumbersOf(txn[t].key) \cup {0}) + 1])

PromoteCommits(t) ==
    /\ At(t, "promote", "commit")
    /\ ~FactTaken(txn[t].key, txn[t].number)
    /\ facts' = facts \cup {[key |-> txn[t].key, version |-> txn[t].number,
                             source |-> txn[t].version]}
    /\ candidate' = [candidate EXCEPT ![txn[t].version] = "promoted"]
    /\ Holds(t, Idle)
    /\ UNCHANGED <<archived, draft, versions, requests, decisions, approved>>

PromoteRefused(t) ==
    /\ At(t, "promote", "commit")
    /\ FactTaken(txn[t].key, txn[t].number)
    /\ RollsBack(t)

-----------------------------------------------------------------------------
(* The environment.                                                         *)

\* The thread dies, or the database aborts its transaction.
Aborts(t) == txn[t] # Idle /\ RollsBack(t)

\* archive_project, restore_project.
ArchiveOrRestore == archived' = ~archived /\ UNCHANGED <<rows, txn>>

Next ==
    \/ \E t \in Thread :
         \/ EditReads(t) \/ EditScans(t) \/ EditCommits(t) \/ EditRefused(t)
         \/ RequestCommits(t)
         \/ DecideFinds(t) \/ DecideRefused(t)
         \/ ApproveCommits(t) \/ ApproveRefused(t) \/ RejectCommits(t)
         \/ PromoteCounts(t) \/ PromoteCommits(t) \/ PromoteRefused(t)
         \/ Aborts(t)
         \/ \E v \in VersionNo :
              \/ RequestReads(t, v)
              \/ \E d \in Decision : DecideReads(t, v, d)
              \/ \E k \in FactKey : PromoteReads(t, v, k)
    \/ ArchiveOrRestore

Spec == Init /\ [][Next]_vars

-----------------------------------------------------------------------------
(* Properties.                                                              *)

\* current_version counts the versions, whatever number of edits read the same
\* current_version: uq_draft_version refuses all but one of them.
VersionsCounted == versions = 1 .. draft.current

Approvals == {i \in DOMAIN decisions : decisions[i].decision = "approved"}

VersionOf(i) == requests[decisions[i].request].version

\* A version is approved by exactly one decision, on a request for that very
\* version, although several requests may be open on it and several people may
\* decide at once; no approval is recorded without its ApprovedVersion.
OneApprovalPerVersion ==
    /\ approved = {VersionOf(i) : i \in Approvals}
    /\ \A i, j \in Approvals : VersionOf(i) = VersionOf(j) => i = j

\* The facts of a key are numbered without a gap or a duplicate, although each
\* promotion computes max + 1 on its own.
FactsNumbered ==
    \A k \in FactKey :
        /\ NumbersOf(k) = 1 .. Cardinality({f \in facts : f.key = k})
        /\ \A f, g \in facts :
             f.key = k /\ g.key = k /\ f.version = g.version => f = g

\* "Candidate only. It is NOT active memory until a human explicitly promotes a
\* fact" (decide): a fact comes from an approved version, promoted.
FactsComeFromApprovals ==
    \A f \in facts : f.source \in approved /\ candidate[f.source] = "promoted"

FactsFrom(v) == {f \in facts : f.source = v}
Promoting(v) == {t \in Thread : txn[t].op = "promote" /\ txn[t].version = v}

\* Nothing checks again that a candidate is pending when its promotion commits,
\* so that promotions that overlap each leave a fact; and only they do: one
\* begun after the first had committed would be one too many.
PromotionsOverlap ==
    \A v \in VersionNo :
        Cardinality(FactsFrom(v)) + Cardinality(Promoting(v)) <= Cardinality(Thread)
=============================================================================
