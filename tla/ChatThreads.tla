---------------------------- MODULE ChatThreads ----------------------------
(***************************************************************************)
(* A conversation of a project (chat_routes.py) and the files its creator   *)
(* attaches to it (chat_attachments.py): upload, deletion, and messages     *)
(* that carry files to the language model.                                  *)
(*                                                                          *)
(* Nothing is locked: a handler checks what it read, and commits later.     *)
(* Of two handlers on one file the second commit wins, but for a file that  *)
(* is gone: an UPDATE that finds no row fails.                              *)
(*                                                                          *)
(* Abstractions.  Names, formats, previews and texts are left out, and a    *)
(* request they invalidate changes nothing.  An assistant message is told   *)
(* by the message it answers.                                               *)
(***************************************************************************)
EXTENDS Integers, FiniteSets, FiniteSetsExt

CONSTANTS
    Handler,     \* request threads
    Limit,       \* attachments of a conversation, 20 in the code
    MaxFiles,    \* bound on the uploads
    MaxMessages  \* bound on the messages of users

ASSUME BoundsOK ==
    Limit \in Nat \ {0} /\ MaxFiles \in Nat /\ MaxMessages \in Nat

ASSUME HandlersOK == IsFiniteSet(Handler)

VARIABLES
    thread,   \* what the conversation is about
    file,     \* the rows of artifact_assets
    blob,     \* the files whose bytes are in the storage
    drawn,    \* how many ids have been drawn
    message,  \* the user messages: the files each one carried, and its answer
    txn,      \* what each handler is doing
    lost      \* history: files whose upload was committed, and answered as failed

vars == <<thread, file, blob, drawn, message, txn, lost>>

-----------------------------------------------------------------------------
File    == 1 .. MaxFiles
Message == 1 .. MaxMessages

\* link: linked_message_id.
FileRow == [stored : BOOLEAN, link : 0 .. MaxMessages]
NoFile  == [stored |-> FALSE, link |-> 0]

MessageRow == [by : {"nobody", "creator", "colleague"}, files : SUBSET File,
               answered : BOOLEAN]
NoMessage  == [by |-> "nobody", files |-> {}, answered |-> FALSE]

Idle     == [at |-> "rest"]
Counted  == [at : {"counted"}]
Uploaded == [at : {"uploaded"}, file : File]
Sending  == [at : {"sending"}, by : {"creator", "colleague"}, files : SUBSET File]
Asking   == [at : {"asking"}, message : Message]
Deleting == [at : {"deleting", "clearing"}, file : File]

TypeOK ==
    /\ thread \in {"absent", "general", "project"}
    /\ file \in [File -> FileRow]
    /\ blob \subseteq File
    /\ drawn \in 0 .. MaxFiles
    /\ message \in [Message -> MessageRow]
    /\ txn \in [Handler -> {Idle} \cup Counted \cup Uploaded \cup Sending
                             \cup Asking \cup Deleting]
    /\ lost \subseteq File

Init ==
    /\ thread = "absent"
    /\ file = [f \in File |-> NoFile]
    /\ blob = {}
    /\ drawn = 0
    /\ message = [m \in Message |-> NoMessage]
    /\ txn = [h \in Handler |-> Idle]
    /\ lost = {}

-----------------------------------------------------------------------------
Turns(h, next) == txn' = [txn EXCEPT ![h] = next]

Moves(h, next) ==
    Turns(h, next) /\ UNCHANGED <<thread, file, blob, drawn, message, lost>>

Attached == {f \in File : file[f].stored}

\* download_attachment: the bytes, or 503.
Downloads(f) == f \in blob

\* create_thread.
CreateThread(h) ==
    /\ txn[h] = Idle
    /\ thread = "absent"
    /\ thread' \in {"general", "project"}
    /\ UNCHANGED <<file, blob, drawn, message, txn, lost>>

-----------------------------------------------------------------------------
(* upload_attachment.                                                       *)

\* Mutant: the count is compared with > instead of >=.
RoomAbove == Cardinality(Attached) <= Limit

Room == Cardinality(Attached) < Limit

\* _thread.
TakesFiles == thread = "project"

\* The creator, in the conversation of a project.
UploadBegins(h) ==
    /\ txn[h] = Idle
    /\ TakesFiles
    /\ Room
    /\ Moves(h, [at |-> "counted"])

\* A name, a size or a content that _clean_name or _detect refuses.
UploadRefused(h) ==
    /\ txn[h].at = "counted"
    /\ Moves(h, Idle)

\* The row is flushed, and has an id; the bytes are put under a key of their own.
UploadStores(h) ==
    /\ txn[h].at = "counted"
    /\ drawn < MaxFiles
    /\ drawn' = drawn + 1
    /\ blob' = blob \cup {drawn + 1}
    /\ Turns(h, [at |-> "uploaded", file |-> drawn + 1])
    /\ UNCHANGED <<thread, file, message, lost>>

Adds(f) == file' = [file EXCEPT ![f].stored = TRUE]

\* storage.delete in the exception handler, whose own failure is ignored.
Cleanup(f) == blob' \in {blob, blob \ {f}}

UploadCommits(h) ==
    /\ txn[h].at = "uploaded"
    /\ Adds(txn[h].file)
    /\ Turns(h, Idle)
    /\ UNCHANGED <<thread, blob, drawn, message, lost>>

UploadFails(h) ==
    /\ txn[h].at = "uploaded"
    /\ Cleanup(txn[h].file)
    /\ Turns(h, Idle)
    /\ UNCHANGED <<thread, file, drawn, message, lost>>

\* The commit is applied and its answer is lost, or the refresh after it fails.
UploadUnanswered(h) ==
    /\ txn[h].at = "uploaded"
    /\ Adds(txn[h].file)
    /\ Cleanup(txn[h].file)
    /\ lost' = lost \cup {txn[h].file}
    /\ Turns(h, Idle)
    /\ UNCHANGED <<thread, drawn, message>>

-----------------------------------------------------------------------------
(* send_message.                                                            *)

\* _attachment_scope: a conversation with files is its creator's alone.
MayEnter(by) == by = "creator" \/ Attached = {}

\* resolve_for_message: three files at most, of this conversation, not used yet.
MayCarry(by, files) ==
    /\ files # {} => by = "creator" /\ TakesFiles
    /\ Cardinality(files) <= 3
    /\ \A f \in files : file[f].stored /\ file[f].link = 0

SendBegins(h) ==
    /\ txn[h] = Idle
    /\ thread # "absent"
    /\ \E by \in {"creator", "colleague"}, files \in SUBSET File :
         /\ MayEnter(by)
         /\ MayCarry(by, files)
         /\ Moves(h, [at |-> "sending", by |-> by, files |-> files])

\* Mutant: only a file that is still unlinked is linked.
LinksUnlinked(files, m) ==
    file' = [f \in File |->
               IF f \in files /\ file[f].link = 0
                 THEN [file[f] EXCEPT !.link = m] ELSE file[f]]

Links(files, m) ==
    file' = [f \in File |->
               IF f \in files THEN [file[f] EXCEPT !.link = m] ELSE file[f]]

\* The message and the links of its files, in one transaction.
SendCommits(h) ==
    /\ txn[h].at = "sending"
    /\ txn[h].files \subseteq Attached
    /\ \E m \in Message :
         /\ message[m] = NoMessage
         /\ \A n \in 1 .. m - 1 : message[n] # NoMessage
         /\ message' = [message EXCEPT ![m] =
                          [by |-> txn[h].by, files |-> txn[h].files,
                           answered |-> FALSE]]
         /\ Links(txn[h].files, m)
         /\ Turns(h, [at |-> "asking", message |-> m])
    /\ UNCHANGED <<thread, blob, drawn, lost>>

\* The UPDATE of a file finds no row.
SendStale(h) ==
    /\ txn[h].at = "sending"
    /\ ~(txn[h].files \subseteq Attached)
    /\ Moves(h, Idle)

\* generate_reply answers: the assistant's message is committed on its own.
Answers(h) ==
    /\ txn[h].at = "asking"
    /\ message' = [message EXCEPT ![txn[h].message].answered = TRUE]
    /\ Turns(h, Idle)
    /\ UNCHANGED <<thread, file, blob, drawn, lost>>

\* ChatProviderError: the user's message and the links stay.
ReplyFails(h) ==
    /\ txn[h].at = "asking"
    /\ Moves(h, Idle)

-----------------------------------------------------------------------------
(* delete_unlinked_attachment.                                              *)

DeleteBegins(h) ==
    /\ txn[h] = Idle
    /\ \E f \in File :
         /\ file[f].stored
         /\ file[f].link = 0
         /\ Moves(h, [at |-> "deleting", file |-> f])

\* Mutant: the bytes go first.
DeletesBytes(h) ==
    /\ blob' = blob \ {txn[h].file}
    /\ UNCHANGED file

\* The row first: it goes whatever has become of it since it was read.
DeletesRow(h) ==
    /\ file' = [file EXCEPT ![txn[h].file] = NoFile]
    /\ UNCHANGED blob

DeleteCommits(h) ==
    /\ txn[h].at = "deleting"
    /\ DeletesRow(h)
    /\ Turns(h, [txn[h] EXCEPT !.at = "clearing"])
    /\ UNCHANGED <<thread, drawn, message, lost>>

\* The bytes go too, or the storage refuses and they stay.
DeleteClears(h) ==
    /\ txn[h].at = "clearing"
    /\ Cleanup(txn[h].file)
    /\ Turns(h, Idle)
    /\ UNCHANGED <<thread, file, drawn, message, lost>>

\* A handler dies, or a transaction fails: what is not committed is gone.
Dies(h) ==
    /\ txn[h] # Idle
    /\ Moves(h, Idle)

-----------------------------------------------------------------------------
Next ==
    \E h \in Handler :
        \/ CreateThread(h)
        \/ UploadBegins(h) \/ UploadRefused(h) \/ UploadStores(h)
        \/ UploadCommits(h)
        \/ UploadFails(h) \/ UploadUnanswered(h)
        \/ SendBegins(h) \/ SendCommits(h) \/ SendStale(h)
        \/ Answers(h) \/ ReplyFails(h)
        \/ DeleteBegins(h) \/ DeleteCommits(h) \/ DeleteClears(h)
        \/ Dies(h)

Spec == Init /\ [][Next]_vars

-----------------------------------------------------------------------------
(* Properties.                                                              *)

\* Every attachment the database lists can be downloaded, but for those whose
\* upload was committed and answered as failed.
FilesBacked == \A f \in Attached : Downloads(f) \/ f \in lost

\* The limit is exceeded by the uploads that were in flight together, and by no
\* more.
UploadsBounded == Cardinality(Attached) < Limit + Cardinality(Handler)

Carriers(f) == {m \in Message : f \in message[m].files}

\* A file that messages have carried names the last of them, however many
\* overlapped, so that it is neither offered again nor deleted as unused; one
\* that no message carried names none.
LinkNamesLast ==
    \A f \in Attached :
        file[f].link = IF Carriers(f) = {} THEN 0 ELSE Max(Carriers(f))
=============================================================================
