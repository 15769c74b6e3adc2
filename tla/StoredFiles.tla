---------------------------- MODULE StoredFiles ----------------------------
(***************************************************************************)
(* Files of a project that live in two stores, the blob storage            *)
(* (artifacts/storage.py) and the database: documents rendered on request   *)
(* (artifact_routes.py, artifacts/service.py) and uploaded architectural    *)
(* sources (architecture.py).                                               *)
(*                                                                          *)
(* The bytes are put first, under a key drawn for them; the row follows.    *)
(* The local storage writes a temporary file and renames it; S3 takes an    *)
(* object whole, and may have taken one whose put failed.                   *)
(*                                                                          *)
(* Abstractions.  A key is the number of its uuid, and the content of a     *)
(* source its digest.  Rendering and validation come before any write: a    *)
(* request they refuse changes nothing.                                     *)
(***************************************************************************)
EXTENDS Integers, FiniteSets

CONSTANTS
    Request,  \* request threads
    Content,  \* contents of sources
    MaxKeys   \* bound on the keys drawn

ASSUME KeysOK == MaxKeys \in Nat

VARIABLES
    backend,    \* artifact_storage_backend
    name,       \* what the storage holds under each key
    temp,       \* and beside it, under the name with .uploading
    keysDrawn,  \* how many keys have been drawn
    row,        \* the committed rows: documents and sources
    doing,      \* what each handler is doing
    keysLost    \* history: keys whose row was committed, and answered as failed

filesVars == <<backend, name, temp, keysDrawn, row, doing, keysLost>>

-----------------------------------------------------------------------------
Key   == 1 .. MaxKeys
Bytes == {"absent", "partial", "whole"}

\* The kind of a row: a document, or a source of some content.
Kind == {"document"} \cup Content
Row  == [key : Key, kind : Kind]

Rest == [at |-> "rest"]
Busy == [at : {"putting", "writing", "put", "read", "flushed"}, key : Key,
         kind : Kind]

FilesTypeOK ==
    /\ backend \in {"local", "s3"}
    /\ name \in [Key -> Bytes]
    /\ temp \in [Key -> Bytes]
    /\ keysDrawn \in 0 .. MaxKeys
    /\ row \subseteq Row
    /\ doing \in [Request -> {Rest} \cup Busy]
    /\ keysLost \subseteq Key

FilesInit ==
    /\ backend \in {"local", "s3"}
    /\ name = [k \in Key |-> "absent"]
    /\ temp = [k \in Key |-> "absent"]
    /\ keysDrawn = 0
    /\ row = {}
    /\ doing = [h \in Request |-> Rest]
    /\ keysLost = {}

-----------------------------------------------------------------------------
\* get: download_artifact answers with the bytes as they were put, and with an
\* error if there are none or their digest is another.
Readable(k) == name[k] = "whole"

Goes(h, next) == doing' = [doing EXCEPT ![h] = next]
Stays(h, at)   == Goes(h, [doing[h] EXCEPT !.at = at])

At(h, at) == doing[h].at = at

Keyed(h) == doing[h].key

SourceKnown(kind) == kind \in Content /\ \E r \in row : r.kind = kind

\* render_artifact; ingest_architectural_source, for a content that no row has.
Begins(h) ==
    /\ doing[h] = Rest
    /\ keysDrawn < MaxKeys
    /\ keysDrawn' = keysDrawn + 1
    /\ \E kind \in Kind :
         /\ ~SourceKnown(kind)
         /\ Goes(h, [at |-> "putting", key |-> keysDrawn + 1, kind |-> kind])
    /\ UNCHANGED <<backend, name, temp, row, keysLost>>

\* The same content again: the row there is answers.
Existing(h) ==
    /\ doing[h] = Rest
    /\ \E kind \in Kind : SourceKnown(kind)
    /\ UNCHANGED filesVars

-----------------------------------------------------------------------------
(* put_if_absent, put_file_if_absent.                                       *)

\* Mutant: the file is written under its own name.
OpensName(k) == name' = [name EXCEPT ![k] = "partial"] /\ UNCHANGED temp

OpensTemp(k) == temp' = [temp EXCEPT ![k] = "partial"] /\ UNCHANGED name

PutOpens(h) ==
    /\ At(h, "putting")
    /\ backend = "local"
    /\ name[Keyed(h)] = "absent"
    /\ temp[Keyed(h)] = "absent"
    /\ OpensTemp(Keyed(h))
    /\ Stays(h, "writing")
    /\ UNCHANGED <<backend, keysDrawn, row, keysLost>>

\* The rest is written, and the file renamed.
PutReplaces(h) ==
    /\ At(h, "writing")
    /\ temp' = [temp EXCEPT ![Keyed(h)] = "absent"]
    /\ name' = [name EXCEPT ![Keyed(h)] = "whole"]
    /\ Stays(h, "put")
    /\ UNCHANGED <<backend, keysDrawn, row, keysLost>>

\* BLOB_WRITE_FAILED: the temporary file is unlinked, the request rolled back.
PutFails(h) ==
    /\ At(h, "writing")
    /\ temp' = [temp EXCEPT ![Keyed(h)] = "absent"]
    /\ Goes(h, Rest)
    /\ UNCHANGED <<backend, name, keysDrawn, row, keysLost>>

PutObject(h) ==
    /\ At(h, "putting")
    /\ backend = "s3"
    /\ name[Keyed(h)] = "absent"
    /\ name' = [name EXCEPT ![Keyed(h)] = "whole"]
    /\ Stays(h, "put")
    /\ UNCHANGED <<backend, temp, keysDrawn, row, keysLost>>

\* S3 refuses, or takes the object and does not say so.
PutObjectFails(h) ==
    /\ At(h, "putting")
    /\ backend = "s3"
    /\ name' \in {name, [name EXCEPT ![Keyed(h)] = "whole"]}
    /\ Goes(h, Rest)
    /\ UNCHANGED <<backend, temp, keysDrawn, row, keysLost>>

-----------------------------------------------------------------------------
\* persist_artifact reads a document back and compares digests; a source is
\* not read.
ReadsBack(h) ==
    /\ At(h, "put")
    /\ doing[h].kind = "document" => Readable(Keyed(h))
    /\ Stays(h, "read")
    /\ UNCHANGED <<backend, name, temp, keysDrawn, row, keysLost>>

\* Mutant: the sources of a project have no unique digest.
NoConstraint(h) == TRUE

\* uq_arch_source_project_sha: a second INSERT waits for the first to end.
SourceFree(h) ==
    doing[h].kind \in Content =>
        \A g \in Request : At(g, "flushed") => doing[g].kind # doing[h].kind

SourceNew(h) ==
    /\ SourceFree(h)
    /\ ~SourceKnown(doing[h].kind)

Flushes(h) ==
    /\ At(h, "read")
    /\ SourceNew(h)
    /\ Stays(h, "flushed")
    /\ UNCHANGED <<backend, name, temp, keysDrawn, row, keysLost>>

\* What raises before the handler has its row, a failed read or flush or the
\* conflict of two sources, leaves the bytes behind.
FailsEarly(h) ==
    /\ doing[h].at \in {"put", "read"}
    /\ Goes(h, Rest)
    /\ UNCHANGED <<backend, name, temp, keysDrawn, row, keysLost>>

AddsRow(h) == row' = row \cup {[key |-> Keyed(h), kind |-> doing[h].kind]}

\* The best-effort deletion, once the handler has its row.
CleansUp(k) == name' \in {name, [name EXCEPT ![k] = "absent"]}

Commits(h) ==
    /\ At(h, "flushed")
    /\ AddsRow(h)
    /\ Goes(h, Rest)
    /\ UNCHANGED <<backend, name, temp, keysDrawn, keysLost>>

\* Mutant: the row of a failed commit is kept.
Unrolled(h) == AddsRow(h)

RolledBack(h) == UNCHANGED row

CommitFails(h) ==
    /\ At(h, "flushed")
    /\ RolledBack(h)
    /\ CleansUp(Keyed(h))
    /\ Goes(h, Rest)
    /\ UNCHANGED <<backend, temp, keysDrawn, keysLost>>

\* The commit is applied and its answer is lost, or the refresh after it fails:
\* the handler deletes the bytes of a row that stays.
CommitUnanswered(h) ==
    /\ At(h, "flushed")
    /\ AddsRow(h)
    /\ CleansUp(Keyed(h))
    /\ keysLost' = keysLost \cup {Keyed(h)}
    /\ Goes(h, Rest)
    /\ UNCHANGED <<backend, temp, keysDrawn>>

\* The process dies: files stay as they are.
RequestDies(h) ==
    /\ doing[h] # Rest
    /\ Goes(h, Rest)
    /\ UNCHANGED <<backend, name, temp, keysDrawn, row, keysLost>>

-----------------------------------------------------------------------------
FilesNext ==
    \E h \in Request :
        \/ Begins(h) \/ Existing(h)
        \/ PutOpens(h) \/ PutReplaces(h) \/ PutFails(h)
        \/ PutObject(h) \/ PutObjectFails(h)
        \/ ReadsBack(h) \/ Flushes(h) \/ FailsEarly(h)
        \/ Commits(h) \/ CommitFails(h) \/ CommitUnanswered(h)
        \/ RequestDies(h)

FilesSpec == FilesInit /\ [][FilesNext]_filesVars

-----------------------------------------------------------------------------
(* Properties.                                                              *)

\* Every row has its bytes, whole, but for those whose commit was answered as
\* failed: a handler never commits a row before its bytes, nor deletes the bytes
\* of a row it knows to be committed.
RowsBacked == \A r \in row : Readable(r.key) \/ r.key \in keysLost

\* No reader meets a file that is half written, whatever dies.
NeverHalf == \A k \in Key : name[k] # "partial"

\* A content uploaded twice at once is one source.
OneSourcePerContent ==
    \A r, s \in row : r.kind = s.kind /\ r.kind \in Content => r = s
=============================================================================
