-------------------------- MODULE ProjectLifecycle --------------------------
(***************************************************************************)
(* The projects of one tenant (routes.py): creation under an                *)
(* Idempotency-Key, update, archive, restore, and the handlers that write   *)
(* under a project and raise its context_version (create_stage,             *)
(* create_task, create_milestone, ...).                                     *)
(*                                                                          *)
(* A request thread reads the project row, decides on what it read, and     *)
(* writes the changed columns back by primary key in one transaction; no    *)
(* row is locked.  Only two unique constraints look at what was committed   *)
(* meanwhile: the idempotency key and the project code.                     *)
(*                                                                          *)
(* Abstractions.  One tenant and one actor.  Of a project's fields, the     *)
(* code is kept, which is unique; a creation payload is its code, and so is *)
(* its request_sha256.  The cognitive profile and the audit event of a      *)
(* creation are written with the project.  An id is a number, so that a     *)
(* new one (uuid4) is the next.                                             *)
(***************************************************************************)
EXTENDS Integers, FiniteSets

CONSTANTS
    Thread,       \* request threads
    Key,          \* idempotency keys
    Code,         \* project codes
    NoCode,       \* NULL
    MaxProjects,  \* bound on the projects
    MaxChanges    \* bound on the changes of a project

ASSUME BoundsOK ==
    /\ NoCode \notin Code
    /\ MaxProjects \in Nat
    /\ MaxChanges \in Nat

VARIABLES
    projects,   \* the project rows, by id
    idem,       \* the project_create_idempotency rows, by key
    answered,   \* 201 responses given to clients
    changes,    \* committed changes of each project (history)
    txn         \* what each thread is doing and has read

rows == <<projects, idem>>
vars == <<rows, answered, changes, txn>>

-----------------------------------------------------------------------------
ProjectId == 1 .. MaxProjects
AnyCode   == Code \cup {NoCode}

Absent  == [code |-> NoCode, context |-> 0, archived |-> FALSE]
Project == [code : AnyCode, context : 0 .. MaxChanges + 1, archived : BOOLEAN]

Exists(p) == projects[p].context > 0

\* The row of a key; 0 is no project.
NoRow == [sha |-> NoCode, project |-> 0]

Idle == [op |-> "none"]

\* seen is the project row as the thread read it.
Txn ==
    {Idle}
    \cup [op : {"lookup", "insert", "recover"}, key : Key, code : AnyCode]
    \cup [op : {"check", "update"}, project : ProjectId, seen : Project,
          code : AnyCode]
    \cup [op : {"write", "archive", "restore"}, project : ProjectId,
          seen : Project]

TypeOK ==
    /\ projects \in [ProjectId -> Project]
    /\ idem \in [Key -> [sha : AnyCode, project : 0 .. MaxProjects]]
    /\ answered \subseteq [key : Key, code : AnyCode, project : ProjectId]
    /\ changes \in [ProjectId -> 0 .. MaxChanges]
    /\ txn \in [Thread -> Txn]

Init ==
    /\ projects = [p \in ProjectId |-> Absent]
    /\ idem = [k \in Key |-> NoRow]
    /\ answered = {}
    /\ changes = [p \in ProjectId |-> 0]
    /\ txn = [t \in Thread |-> Idle]

-----------------------------------------------------------------------------
Holds(t, next) == txn' = [txn EXCEPT ![t] = next]

\* A read: nothing is written.
Reads(t, next) == Holds(t, next) /\ UNCHANGED <<rows, answered, changes>>

\* The end of a transaction that is rolled back, or an HTTP error.
RollsBack(t) == Reads(t, Idle)

\* Mutant: no unique constraint on the code.
NobodyHasCode(c, p) == c \notin AnyCode

\* Another project has the code: uq_project_code, and update_project's check.
CodeTaken(c, p) ==
    c # NoCode /\ \E q \in ProjectId \ {p} : Exists(q) /\ projects[q].code = c

-----------------------------------------------------------------------------
(* create_project.                                                          *)

CreateStarts(t, k, c) ==
    /\ txn[t] = Idle
    /\ Reads(t, [op |-> "lookup", key |-> k, code |-> c])

\* _existing_project_create, before the insertion and after a conflict.
Looks(t) == txn[t].op \in {"lookup", "recover"}

\* Mutant: the digest of the request is not compared.
SamePayloadAny(t) == txn[t].op # "none"

SamePayload(t) == idem[txn[t].key].sha = txn[t].code

Replay(t) ==
    /\ Looks(t)
    /\ idem[txn[t].key] # NoRow
    /\ SamePayload(t)
    /\ answered' = answered \cup
         {[key |-> txn[t].key, code |-> txn[t].code,
           project |-> idem[txn[t].key].project]}
    /\ Holds(t, Idle)
    /\ UNCHANGED <<rows, changes>>

\* 409 idempotency_key_reused.
KeyReused(t) ==
    /\ Looks(t)
    /\ idem[txn[t].key] # NoRow
    /\ ~SamePayload(t)
    /\ RollsBack(t)

LookupMisses(t) ==
    /\ txn[t].op = "lookup"
    /\ idem[txn[t].key] = NoRow
    /\ Reads(t, [txn[t] EXCEPT !.op = "insert"])

\* 409 project_conflict: the conflict was not on the key.
NothingToRecover(t) ==
    /\ txn[t].op = "recover"
    /\ idem[txn[t].key] = NoRow
    /\ RollsBack(t)

\* Mutant: no unique constraint on the key.
KeyNeverTaken(k) == k \notin Key

\* uq_project_create_idempotency.
KeyTaken(k) == idem[k] # NoRow

\* Project, key, profile and audit event, in one transaction; then the 201,
\* unless the thread dies before it is sent.
Insert(t) ==
    /\ txn[t].op = "insert"
    /\ ~KeyTaken(txn[t].key) /\ ~CodeTaken(txn[t].code, 0)
    /\ \E p \in ProjectId :
         /\ ~Exists(p) /\ \A q \in ProjectId : q < p => Exists(q)
         /\ projects' = [projects EXCEPT ![p] =
              [code |-> txn[t].code, context |-> 1, archived |-> FALSE]]
         /\ idem' = [idem EXCEPT ![txn[t].key] =
              [sha |-> txn[t].code, project |-> p]]
         /\ answered' \in {answered, answered \cup
              {[key |-> txn[t].key, code |-> txn[t].code, project |-> p]}}
    /\ Holds(t, Idle)
    /\ UNCHANGED changes

\* IntegrityError: rollback, then the second look.
InsertConflicts(t) ==
    /\ txn[t].op = "insert"
    /\ KeyTaken(txn[t].key) \/ CodeTaken(txn[t].code, 0)
    /\ Reads(t, [txn[t] EXCEPT !.op = "recover"])

-----------------------------------------------------------------------------
(* update_project, archive_project, restore_project, and the writers.       *)

\* mutable_project_or_409, and the same test in update_project.
ReadsMutable(t, p) ==
    /\ txn[t] = Idle
    /\ Exists(p) /\ ~projects[p].archived

\* A change of the code; one of another field is a Write.
UpdateReads(t, p, c) ==
    /\ ReadsMutable(t, p)
    /\ projects[p].code # c
    /\ Reads(t, [op |-> "check", project |-> p, seen |-> projects[p], code |-> c])

UpdateChecks(t) ==
    /\ txn[t].op = "check"
    /\ ~CodeTaken(txn[t].code, txn[t].project)
    /\ Reads(t, [txn[t] EXCEPT !.op = "update"])

\* 409 project_code_conflict.
UpdateRefused(t) ==
    /\ txn[t].op = "check"
    /\ CodeTaken(txn[t].code, txn[t].project)
    /\ RollsBack(t)

\* context_version is written as it was read, plus one.
Commit(t, row) ==
    /\ changes[txn[t].project] < MaxChanges
    /\ projects' = [projects EXCEPT ![txn[t].project] =
                      [row EXCEPT !.context = txn[t].seen.context + 1]]
    /\ changes' = [changes EXCEPT ![txn[t].project] = @ + 1]
    /\ Holds(t, Idle)
    /\ UNCHANGED <<idem, answered>>

Update(t) ==
    /\ txn[t].op = "update"
    /\ ~CodeTaken(txn[t].code, txn[t].project)
    /\ Commit(t, [projects[txn[t].project] EXCEPT !.code = txn[t].code])

\* IntegrityError on the code: 409 project_conflict.
UpdateConflicts(t) ==
    /\ txn[t].op = "update"
    /\ CodeTaken(txn[t].code, txn[t].project)
    /\ RollsBack(t)

\* Every handler that writes under the project has these two steps: of stages,
\* milestones and tasks as of documents, commitments and risks.
WriteReads(t, p) ==
    /\ ReadsMutable(t, p)
    /\ Reads(t, [op |-> "write", project |-> p, seen |-> projects[p]])

Write(t) == txn[t].op = "write" /\ Commit(t, projects[txn[t].project])

ArchiveReads(t, p) ==
    /\ ReadsMutable(t, p)
    /\ Reads(t, [op |-> "archive", project |-> p, seen |-> projects[p]])

Archive(t) ==
    /\ txn[t].op = "archive"
    /\ Commit(t, [projects[txn[t].project] EXCEPT !.archived = TRUE])

RestoreReads(t, p) ==
    /\ txn[t] = Idle
    /\ projects[p].archived
    /\ Reads(t, [op |-> "restore", project |-> p, seen |-> projects[p]])

Restore(t) ==
    /\ txn[t].op = "restore"
    /\ Commit(t, [projects[txn[t].project] EXCEPT !.archived = FALSE])

\* The thread dies, or the database aborts its transaction.
Aborts(t) == txn[t] # Idle /\ RollsBack(t)

-----------------------------------------------------------------------------
Next ==
    \E t \in Thread :
       \/ Replay(t) \/ KeyReused(t) \/ LookupMisses(t) \/ NothingToRecover(t)
       \/ Insert(t) \/ InsertConflicts(t)
       \/ UpdateChecks(t) \/ UpdateRefused(t) \/ Update(t) \/ UpdateConflicts(t)
       \/ Write(t) \/ Archive(t) \/ Restore(t) \/ Aborts(t)
       \/ \E k \in Key, c \in AnyCode : CreateStarts(t, k, c)
       \/ \E p \in ProjectId :
            \/ WriteReads(t, p) \/ ArchiveReads(t, p) \/ RestoreReads(t, p)
            \/ \E c \in AnyCode : UpdateReads(t, p, c)

Spec == Init /\ [][Next]_vars

-----------------------------------------------------------------------------
(* Properties.                                                              *)

\* One key, one project: every 201 for a key carries the payload of the key's
\* row and its project, through duplicates in flight, lost answers and the
\* recovery from a conflict.
OneProjectPerKey ==
    \A a \in answered : idem[a.key] = [sha |-> a.code, project |-> a.project]

\* No orphan and no sharing: every project was created under exactly one key.
NoOrphanProject ==
    /\ {idem[k].project : k \in Key} \ {0} = {p \in ProjectId : Exists(p)}
    /\ \A j, k \in Key :
         idem[j].project = idem[k].project /\ idem[j].project # 0 => j = k

\* No two projects of the tenant share a code, archived ones included, although
\* creations and updates check it on what they read.
CodesUnique ==
    \A p, q \in ProjectId :
        Exists(p) /\ Exists(q) /\ projects[p].code # NoCode
        /\ projects[p].code = projects[q].code => p = q

\* context_version never counts a change that was not committed.
ContextNeverAhead ==
    \A p \in ProjectId : Exists(p) => projects[p].context <= changes[p] + 1
=============================================================================
