----------------------------- MODULE FileProofs ------------------------------
(***************************************************************************)
(* Proofs about the two modules whose rows have bytes in the blob storage:  *)
(* ChatThreads and StoredFiles, for any handlers, contents and bounds.      *)
(*                                                                          *)
(* ChatThreads.  From its put to its end an upload is its handler's alone:  *)
(* nobody deletes the file, and no message can have carried it              *)
(* (FilesOwned).  A row that is committed thus has its bytes, and what is   *)
(* deleted has lost its row first.  UploadsBounded counts the uploads under *)
(* way with the rows (RoomForAll): each began where the rows alone left     *)
(* room, so that all of them together exceed the limit by fewer than there  *)
(* are handlers.  LinkNamesLast needs that messages are numbered as they    *)
(* commit (MessagesInOrder): a message links its files in the transaction   *)
(* that numbers it, and no later one has a smaller number.                  *)
(*                                                                          *)
(* StoredFiles.  A key is drawn for one request, and until that request     *)
(* ends nobody else holds it and no row names it (KeysOwned, RowsDrawn);    *)
(* what the request does to the bytes cannot reach those of a row.  Once    *)
(* they are put they are whole (PutWhole), so that the row it commits is    *)
(* backed.  The constraint on digests makes a flushed source the only one   *)
(* of its content (FlushedNew).                                             *)
(***************************************************************************)
EXTENDS ChatThreads, StoredFiles, FiniteSetTheorems, TLAPS

-----------------------------------------------------------------------------
(* ChatThreads.                                                             *)

\* Where a handler is.
Holds(h, step) == txn[h].at = step

\* A file that is uploaded and has no row: it is its uploader's alone, and no
\* message can have carried it.
Unlisted(f) == f <= drawn /\ f \in blob /\ file[f] = NoFile /\ Carriers(f) = {}

\* An upload, from the put to its end, is its handler's alone; ids are drawn in
\* order, and what is being cleared has lost its row.
FilesOwned ==
    /\ \A f \in File : f > drawn => file[f] = NoFile /\ Carriers(f) = {}
    /\ \A h \in Handler : Holds(h, "uploaded") =>
         /\ Unlisted(txn[h].file)
         /\ \A g \in Handler \ {h} :
              txn[g].at \in {"uploaded", "deleting", "clearing"} =>
                txn[g].file # txn[h].file
    /\ \A h \in Handler : txn[h].at \in {"deleting", "clearing"} =>
         txn[h].file <= drawn
    /\ \A h \in Handler : Holds(h, "clearing") => ~file[txn[h].file].stored

\* Messages are numbered as they come, and a question has its message.
MessagesInOrder ==
    /\ \A m, n \in Message : message[m] = NoMessage /\ m < n => message[n] = NoMessage
    /\ \A h \in Handler : Holds(h, "asking") => message[txn[h].message] # NoMessage

\* The uploads that may still add a row.
InFlight == {h \in Handler : txn[h].at \in {"counted", "uploaded"}}

\* Each upload under way has found room that the others had not taken.
RoomForAll ==
    Cardinality(Attached) + Cardinality(InFlight) < Limit + Cardinality(Handler)

\* The inductive invariant of the conversation.
IInv ==
    /\ TypeOK /\ FilesOwned /\ MessagesInOrder /\ RoomForAll
    /\ FilesBacked /\ LinkNamesLast

\* The steps of a handler.
Steps(h) ==
    \/ CreateThread(h)
    \/ UploadBegins(h) \/ UploadRefused(h) \/ UploadStores(h)
    \/ UploadCommits(h)
    \/ UploadFails(h) \/ UploadUnanswered(h)
    \/ SendBegins(h) \/ SendCommits(h) \/ SendStale(h)
    \/ Answers(h) \/ ReplyFails(h)
    \/ DeleteBegins(h) \/ DeleteCommits(h) \/ DeleteClears(h)
    \/ Dies(h)

-----------------------------------------------------------------------------
\* What a handler may have.
Doing == {Idle} \cup Counted \cup Uploaded \cup Sending \cup Asking \cup Deleting

\* What a handler has at each of its steps.
LEMMA Shape ==
    ASSUME TypeOK, NEW h \in Handler
    PROVE  /\ txn[h] \in Doing
           /\ txn[h].at = "rest" <=> txn[h] = Idle
           /\ txn[h].at = "uploaded" => txn[h].file \in File
           /\ txn[h].at \in {"deleting", "clearing"} =>
                txn[h] \in Deleting /\ txn[h].file \in File
           /\ txn[h].at = "sending" => txn[h] \in Sending /\ txn[h].files \subseteq File
           /\ txn[h].at = "asking" => txn[h].message \in Message
  BY DEF TypeOK, Doing, Idle, Counted, Uploaded, Sending, Asking, Deleting

\* A handler that turns to something, and the others.
LEMMA TurnsTo ==
    ASSUME TypeOK, NEW h \in Handler, NEW next, Turns(h, next)
    PROVE  /\ txn'[h] = next
           /\ \A g \in Handler \ {h} : txn'[g] = txn[g]
           /\ next \in Doing => txn' \in [Handler -> Doing]
  BY DEF TypeOK, Turns, Doing

\* Where each step of a handler goes.
LEMMA Onward ==
    ASSUME TypeOK, NEW h \in Handler, Steps(h), ~CreateThread(h)
    PROVE  \E next \in Doing : Turns(h, next)
<1>1. CASE UploadBegins(h)
  BY <1>1 DEF UploadBegins, Moves, Doing, Counted
<1>2. CASE UploadStores(h)
  <2>1. drawn + 1 \in File
    BY <1>2, BoundsOK DEF UploadStores, TypeOK, File
  <2> QED
    BY <1>2, <2>1 DEF UploadStores, Doing, Uploaded
<1>3. CASE SendBegins(h)
  BY <1>3 DEF SendBegins, Moves, Doing, Sending
<1>4. CASE SendCommits(h)
  BY <1>4 DEF SendCommits, Doing, Asking
<1>5. CASE DeleteBegins(h)
  BY <1>5 DEF DeleteBegins, Moves, Doing, Deleting
<1>6. CASE DeleteCommits(h)
  <2>1. [txn[h] EXCEPT !.at = "clearing"] \in Deleting
    BY <1>6, Shape DEF DeleteCommits, Deleting
  <2> QED
    BY <1>6, <2>1 DEF DeleteCommits, Doing
<1>7. CASE \/ UploadRefused(h) \/ UploadCommits(h) \/ UploadFails(h)
           \/ UploadUnanswered(h) \/ SendStale(h) \/ Answers(h) \/ ReplyFails(h)
           \/ DeleteClears(h) \/ Dies(h)
  BY <1>7 DEF UploadRefused, UploadCommits, UploadFails, UploadUnanswered,
     SendStale, Answers, ReplyFails, DeleteClears, Dies, Moves, Doing
<1> QED
  BY <1>1, <1>2, <1>3, <1>4, <1>5, <1>6, <1>7 DEF Steps

\* The steps that end a request.
Ends(h) ==
    \/ UploadRefused(h) \/ UploadCommits(h) \/ UploadFails(h) \/ UploadUnanswered(h)
    \/ SendStale(h) \/ Answers(h) \/ ReplyFails(h) \/ DeleteClears(h) \/ Dies(h)

\* What a handler does next.
LEMMA After ==
    ASSUME TypeOK, NEW h \in Handler
    PROVE  /\ CreateThread(h) => txn' = txn
           /\ UploadBegins(h) => txn'[h].at = "counted"
           /\ UploadStores(h) => txn'[h].at = "uploaded"
           /\ SendBegins(h) => txn'[h].at = "sending"
           /\ SendCommits(h) => txn'[h].at = "asking"
           /\ DeleteBegins(h) => txn'[h].at = "deleting"
           /\ DeleteCommits(h) => txn'[h].at = "clearing"
           /\ Ends(h) => txn'[h].at = "rest"
<1>1. CreateThread(h) => txn' = txn
  BY DEF CreateThread
<1>2. UploadBegins(h) => txn'[h].at = "counted"
  BY TurnsTo DEF UploadBegins, Moves
<1>3. UploadStores(h) => txn'[h].at = "uploaded"
  BY TurnsTo DEF UploadStores
<1>4. SendBegins(h) => txn'[h].at = "sending"
  BY TurnsTo DEF SendBegins, Moves
<1>5. SendCommits(h) => txn'[h].at = "asking"
  BY TurnsTo DEF SendCommits
<1>6. DeleteBegins(h) => txn'[h].at = "deleting"
  BY TurnsTo DEF DeleteBegins, Moves
<1>7. DeleteCommits(h) => txn'[h].at = "clearing"
  <2>1. SUFFICES ASSUME DeleteCommits(h)
                 PROVE  txn'[h].at = "clearing"
    OBVIOUS
  <2>2. txn'[h] = [txn[h] EXCEPT !.at = "clearing"]
    BY <2>1, TurnsTo DEF DeleteCommits
  <2>3. txn[h] \in Deleting
    BY <2>1, Shape DEF DeleteCommits
  <2> QED
    BY <2>2, <2>3 DEF Deleting
<1>8. Ends(h) => Turns(h, Idle)
  BY DEF Ends, UploadRefused, UploadCommits, UploadFails, UploadUnanswered, SendStale,
     Answers, ReplyFails, DeleteClears, Dies, Moves
<1>9. Turns(h, Idle) => txn'[h].at = "rest"
  BY TurnsTo DEF Idle
<1> QED
  BY <1>1, <1>2, <1>3, <1>4, <1>5, <1>6, <1>7, <1>8, <1>9

\* A step of one handler leaves the others where they are.
LEMMA Alone ==
    ASSUME TypeOK, NEW h \in Handler, Steps(h)
    PROVE  /\ \A g \in Handler \ {h} : txn'[g] = txn[g]
           /\ txn' \in [Handler -> Doing]
<1>1. CASE CreateThread(h)
  BY <1>1 DEF CreateThread, TypeOK, Doing
<1>2. CASE ~CreateThread(h)
  BY <1>2, Onward, TurnsTo
<1> QED
  BY <1>1, <1>2

\* The state stays well formed.
LEMMA TypeStep ==
    ASSUME TypeOK, NEW h \in Handler, Steps(h)
    PROVE  TypeOK'
<1>1. txn' \in [Handler -> {Idle} \cup Counted \cup Uploaded \cup Sending
                             \cup Asking \cup Deleting]
  BY Alone DEF Doing
<1>2. CASE CreateThread(h)
  BY <1>1, <1>2 DEF CreateThread, TypeOK
<1>3. CASE UploadStores(h)
  BY <1>1, <1>3, BoundsOK DEF UploadStores, TypeOK, File
<1>4. CASE UploadCommits(h) \/ UploadUnanswered(h)
  <2>1. txn[h].file \in File
    BY <1>4, Shape DEF UploadCommits, UploadUnanswered
  <2>2. [file[txn[h].file] EXCEPT !.stored = TRUE] \in FileRow
    BY <2>1 DEF TypeOK, FileRow
  <2>3. file' \in [File -> FileRow]
    BY <1>4, <2>1, <2>2 DEF UploadCommits, UploadUnanswered, Adds, TypeOK
  <2> QED
    BY <1>1, <1>4, <2>1, <2>3 DEF UploadCommits, UploadUnanswered, Cleanup, TypeOK
<1>5. CASE UploadFails(h) \/ DeleteClears(h)
  BY <1>1, <1>5 DEF UploadFails, DeleteClears, Cleanup, TypeOK
<1>6. CASE SendCommits(h)
  <2>1. PICK m \in Message :
          /\ message' = [message EXCEPT ![m] = [by |-> txn[h].by,
                           files |-> txn[h].files, answered |-> FALSE]]
          /\ Links(txn[h].files, m)
    BY <1>6 DEF SendCommits
  <2>2. [by |-> txn[h].by, files |-> txn[h].files, answered |-> FALSE] \in MessageRow
    BY <1>6, Shape DEF SendCommits, Sending, MessageRow
  <2>3. message' \in [Message -> MessageRow]
    BY <2>1, <2>2 DEF TypeOK
  <2>4. \A f \in File : [file[f] EXCEPT !.link = m] \in FileRow
    <3>1. m \in 0 .. MaxMessages
      BY BoundsOK DEF Message
    <3> QED
      BY <3>1 DEF TypeOK, FileRow
  <2>5. file' \in [File -> FileRow]
    BY <2>1, <2>4 DEF Links, TypeOK
  <2> QED
    BY <1>1, <1>6, <2>3, <2>5 DEF SendCommits, TypeOK
<1>7. CASE Answers(h)
  <2>1. txn[h].message \in Message
    BY <1>7, Shape DEF Answers
  <2>2. [message[txn[h].message] EXCEPT !.answered = TRUE] \in MessageRow
    BY <2>1 DEF TypeOK, MessageRow
  <2>3. message' \in [Message -> MessageRow]
    BY <1>7, <2>1, <2>2 DEF Answers, TypeOK
  <2> QED
    BY <1>1, <1>7, <2>3 DEF Answers, TypeOK
<1>8. CASE DeleteCommits(h)
  <2>1. NoFile \in FileRow
    BY BoundsOK DEF NoFile, FileRow
  <2> QED
    BY <1>1, <1>8, <2>1 DEF DeleteCommits, DeletesRow, TypeOK
<1>9. CASE \/ UploadBegins(h) \/ UploadRefused(h) \/ SendBegins(h) \/ SendStale(h)
           \/ ReplyFails(h) \/ DeleteBegins(h) \/ Dies(h)
  <2>1. UNCHANGED <<thread, file, blob, drawn, message, lost>>
    BY <1>9 DEF UploadBegins, UploadRefused, SendBegins, SendStale, ReplyFails,
       DeleteBegins, Dies, Moves
  <2> QED
    BY <1>1, <2>1 DEF TypeOK
<1> QED
  BY <1>2, <1>3, <1>4, <1>5, <1>6, <1>7, <1>8, <1>9 DEF Steps

-----------------------------------------------------------------------------
(* The messages.                                                            *)

\* Who carried a file depends on the messages alone.
LEMMA CarriersFrame ==
    ASSUME \A m \in Message : message'[m].files = message[m].files
    PROVE  \A f : Carriers(f)' = Carriers(f)
  BY DEF Carriers

\* What a message that is sent changes.
Numbers(h, m) ==
    /\ \A k \in Message : k < m => message[k] # NoMessage
    /\ \A k \in Message : k >= m => message[k] = NoMessage
    /\ message'[m] # NoMessage
    /\ \A k \in Message \ {m} : message'[k] = message[k]
    /\ txn'[h].at = "asking" /\ txn'[h].message = m
    /\ \A f \in File :
         IF f \in txn[h].files
         THEN /\ file[f].stored /\ file'[f].stored /\ file'[f].link = m
              /\ Carriers(f)' = Carriers(f) \cup {m}
         ELSE file'[f] = file[f] /\ Carriers(f)' = Carriers(f)

\* A message that is committed takes the next number and links its files to it.
LEMMA SendNumbers ==
    ASSUME IInv, NEW h \in Handler, SendCommits(h)
    PROVE  \E m \in Message : Numbers(h, m)
<1>1. TypeOK /\ MessagesInOrder
  BY DEF IInv
<1>2. PICK m \in Message :
        /\ message[m] = NoMessage
        /\ \A n \in 1 .. m - 1 : message[n] # NoMessage
        /\ message' = [message EXCEPT ![m] = [by |-> txn[h].by,
                         files |-> txn[h].files, answered |-> FALSE]]
        /\ Links(txn[h].files, m)
        /\ Turns(h, [at |-> "asking", message |-> m])
  BY DEF SendCommits
<1>3. txn[h] \in Sending /\ txn[h].files \subseteq File
  BY <1>1, Shape DEF SendCommits
<1>4. \A k \in Message : k < m => message[k] # NoMessage
  BY <1>2 DEF Message
<1>5. \A k \in Message : k >= m => message[k] = NoMessage
  BY <1>1, <1>2 DEF MessagesInOrder, Message
<1>6. /\ message'[m].by # "nobody" /\ message'[m].files = txn[h].files
      /\ \A k \in Message \ {m} : message'[k] = message[k]
  BY <1>1, <1>2, <1>3 DEF TypeOK, Sending
<1>7. message'[m] # NoMessage /\ message[m].files = {}
  BY <1>2, <1>6 DEF NoMessage
<1>8. txn'[h].at = "asking" /\ txn'[h].message = m
  BY <1>1, <1>2, TurnsTo
<1>9. ASSUME NEW f \in File, f \in txn[h].files
      PROVE  /\ file[f].stored /\ file'[f].stored /\ file'[f].link = m
             /\ Carriers(f)' = Carriers(f) \cup {m}
  <2>1. file[f].stored
    BY <1>9 DEF SendCommits, Attached
  <2>2. file'[f] = [file[f] EXCEPT !.link = m]
    BY <1>2, <1>9 DEF Links
  <2>3. file'[f].stored /\ file'[f].link = m
    BY <1>1, <2>1, <2>2 DEF TypeOK, FileRow
  <2>4. Carriers(f)' = Carriers(f) \cup {m}
    BY <1>6, <1>9 DEF Carriers
  <2> QED
    BY <2>1, <2>3, <2>4
<1>10. ASSUME NEW f \in File, f \notin txn[h].files
       PROVE  file'[f] = file[f] /\ Carriers(f)' = Carriers(f)
  <2>1. file'[f] = file[f]
    BY <1>2, <1>10 DEF Links
  <2>2. Carriers(f)' = Carriers(f)
    BY <1>6, <1>7, <1>10 DEF Carriers
  <2> QED
    BY <2>1, <2>2
<1> QED
  BY <1>4, <1>5, <1>6, <1>7, <1>8, <1>9, <1>10 DEF Numbers

\* Every step keeps the order of the messages.
LEMMA MessagesStep ==
    ASSUME IInv, NEW h \in Handler, Steps(h)
    PROVE  MessagesInOrder'
<1>1. TypeOK /\ MessagesInOrder
  BY DEF IInv
<1>2. \A g \in Handler \ {h} : txn'[g] = txn[g]
  BY <1>1, Alone
<1>3. \A g \in Handler : Holds(g, "asking") => txn[g].message \in Message
  BY <1>1, Shape DEF Holds
<1>4. CASE SendCommits(h)
  <2>1. PICK m \in Message : Numbers(h, m)
    BY <1>4, SendNumbers
  <2>2. \A k, n \in Message : message'[k] = NoMessage /\ k < n => message'[n] = NoMessage
    BY <2>1 DEF Numbers, Message
  <2>3. \A g \in Handler : Holds(g, "asking")' => message'[txn'[g].message] # NoMessage
    BY <1>1, <1>2, <1>3, <2>1 DEF Numbers, MessagesInOrder, Holds
  <2> QED
    BY <2>2, <2>3 DEF MessagesInOrder
<1>5. CASE Answers(h)
  <2>1. PICK m \in Message : m = txn[h].message /\ message[m] # NoMessage
    BY <1>1, <1>3, <1>5 DEF Answers, Holds, MessagesInOrder
  <2>2. /\ message'[m] = [message[m] EXCEPT !.answered = TRUE]
        /\ \A k \in Message \ {m} : message'[k] = message[k]
    BY <1>1, <1>5, <2>1 DEF Answers, TypeOK
  <2>3. message'[m] # NoMessage
    <3>1. message'[m].answered = TRUE
      BY <1>1, <2>2 DEF TypeOK, MessageRow
    <3> QED
      BY <3>1 DEF NoMessage
  <2>4. \A k, n \in Message : message'[k] = NoMessage /\ k < n => message'[n] = NoMessage
    BY <1>1, <2>1, <2>2, <2>3 DEF MessagesInOrder
  <2>5. \A g \in Handler : Holds(g, "asking")' => Holds(g, "asking") /\ txn'[g] = txn[g]
    BY <1>1, <1>2, <1>5, TurnsTo DEF Answers, Idle, Holds
  <2>6. \A g \in Handler : Holds(g, "asking")' => message'[txn'[g].message] # NoMessage
    BY <1>1, <1>3, <2>2, <2>3, <2>5 DEF MessagesInOrder
  <2> QED
    BY <2>4, <2>6 DEF MessagesInOrder
<1>6. CASE ~SendCommits(h) /\ ~Answers(h)
  <2>1. message' = message
    BY <1>6 DEF Steps, CreateThread, UploadBegins, UploadRefused, UploadStores,
       UploadCommits, UploadFails, UploadUnanswered, SendBegins, SendStale,
       ReplyFails, DeleteBegins, DeleteCommits, DeleteClears, Dies, Moves
  <2>2. Holds(h, "asking")' => txn'[h] = txn[h]
    BY <1>1, <1>6, After DEF Steps, Ends, Holds
  <2> QED
    BY <1>1, <1>2, <2>1, <2>2 DEF MessagesInOrder, Holds
<1> QED
  BY <1>4, <1>5, <1>6

-----------------------------------------------------------------------------
(* The files.                                                               *)

\* A step that leaves the files alone, and takes its handler to none.
LEMMA OwnedFrame ==
    ASSUME TypeOK, FilesOwned, NEW h \in Handler,
           UNCHANGED <<file, blob, drawn>>,
           \A f : Carriers(f)' = Carriers(f),
           \A g \in Handler \ {h} : txn'[g] = txn[g],
           \/ txn'[h] = txn[h]
           \/ txn'[h].at \notin {"uploaded", "deleting", "clearing"}
    PROVE  FilesOwned'
<1>1. \A f \in File : f > drawn' => file'[f] = NoFile /\ Carriers(f)' = {}
  BY DEF FilesOwned
<1>2. ASSUME NEW g \in Handler, txn'[g].at \in {"uploaded", "deleting", "clearing"}
      PROVE  txn'[g] = txn[g]
  BY <1>2
<1>3. \A f : Unlisted(f)' <=> Unlisted(f)
  BY DEF Unlisted
<1>4. ASSUME NEW g \in Handler, txn'[g].at = "uploaded"
      PROVE  /\ Unlisted(txn[g].file)' /\ txn'[g] = txn[g]
             /\ \A k \in Handler \ {g} :
                  txn'[k].at \in {"uploaded", "deleting", "clearing"} =>
                    txn'[k].file # txn'[g].file
  <2>1. txn'[g] = txn[g]
    BY <1>2, <1>4
  <2>2. Unlisted(txn[g].file)
    BY <1>4, <2>1 DEF FilesOwned, Holds
  <2>3. Unlisted(txn[g].file)'
    BY <2>1, <2>2 DEF Unlisted
  <2>4. \A k \in Handler \ {g} :
          txn'[k].at \in {"uploaded", "deleting", "clearing"} =>
            txn'[k].file # txn'[g].file
    BY <1>2, <1>4, <2>1 DEF FilesOwned, Holds
  <2> QED
    BY <2>1, <2>3, <2>4
<1>5. \A g \in Handler : txn'[g].at \in {"deleting", "clearing"} =>
         txn'[g].file <= drawn'
  BY <1>2 DEF FilesOwned
<1>6. \A g \in Handler : txn'[g].at = "clearing" => ~file'[txn'[g].file].stored
  BY <1>2 DEF FilesOwned, Holds
<1> QED
  BY <1>1, <1>4, <1>5, <1>6 DEF FilesOwned, Holds

\* A step on a file no one else is uploading.
LEMMA OwnedKept ==
    ASSUME TypeOK, FilesOwned, NEW h \in Handler, NEW i \in File,
           drawn' = drawn, i <= drawn,
           \A f : Carriers(f)' = Carriers(f),
           \A g \in Handler \ {h} : txn'[g] = txn[g],
           \A f \in File \ {i} : file'[f] = file[f] /\ (f \in blob => f \in blob'),
           \A g \in Handler \ {h} : txn[g].at = "uploaded" => txn[g].file # i,
           \A g \in Handler \ {h} :
             txn[g].at = "clearing" /\ txn[g].file = i => ~file'[i].stored,
           txn'[h].at # "uploaded",
           txn'[h].at \in {"deleting", "clearing"} => txn'[h].file = i,
           txn'[h].at = "clearing" => ~file'[i].stored
    PROVE  FilesOwned'
<1>1. \A f \in File : f > drawn' => file'[f] = NoFile /\ Carriers(f)' = {}
  BY DEF FilesOwned, File, TypeOK
<1>2. ASSUME NEW g \in Handler, txn'[g].at = "uploaded"
      PROVE  /\ Unlisted(txn[g].file)' /\ txn'[g] = txn[g]
             /\ \A k \in Handler \ {g} :
                  txn'[k].at \in {"uploaded", "deleting", "clearing"} =>
                    txn'[k].file # txn'[g].file
  <2>1. txn'[g] = txn[g] /\ g # h
    BY <1>2
  <2>2. Unlisted(txn[g].file) /\ txn[g].file \in File \ {i}
    BY <1>2, <2>1, Shape DEF FilesOwned, Holds
  <2>3. Unlisted(txn[g].file)'
    BY <2>1, <2>2 DEF Unlisted
  <2>4. \A k \in Handler \ {g} :
          txn'[k].at \in {"uploaded", "deleting", "clearing"} =>
            txn'[k].file # txn'[g].file
    BY <1>2, <2>1, <2>2 DEF FilesOwned, Holds
  <2> QED
    BY <2>1, <2>3, <2>4
<1>3. \A g \in Handler : txn'[g].at \in {"deleting", "clearing"} =>
         txn'[g].file <= drawn'
  BY DEF FilesOwned
<1>4. ASSUME NEW g \in Handler, txn'[g].at = "clearing"
      PROVE  ~file'[txn'[g].file].stored
  <2>1. CASE g = h
    BY <1>4, <2>1
  <2>2. CASE g # h
    <3>1. txn'[g] = txn[g] /\ txn[g].file \in File /\ ~file[txn[g].file].stored
      BY <1>4, <2>2, Shape DEF FilesOwned, Holds
    <3> QED
      BY <1>4, <2>2, <3>1
  <2> QED
    BY <2>1, <2>2
<1> QED
  BY <1>1, <1>2, <1>3, <1>4 DEF FilesOwned, Holds

\* Every step keeps the ownership of the files.
LEMMA OwnedStep ==
    ASSUME IInv, NEW h \in Handler, Steps(h)
    PROVE  FilesOwned'
<1>1. TypeOK /\ FilesOwned /\ MessagesInOrder
  BY DEF IInv
<1>2. \A g \in Handler \ {h} : txn'[g] = txn[g]
  BY <1>1, Alone
<1>3. CASE \/ CreateThread(h) \/ UploadBegins(h) \/ UploadRefused(h)
           \/ SendBegins(h) \/ SendStale(h) \/ ReplyFails(h) \/ Dies(h)
  <2>0. UNCHANGED <<message, file, blob, drawn>>
    BY <1>3 DEF CreateThread, UploadBegins, UploadRefused, SendBegins, SendStale,
       ReplyFails, Dies, Moves
  <2>1. \A f : Carriers(f)' = Carriers(f)
    BY <2>0, CarriersFrame
  <2>2. \/ txn'[h] = txn[h]
        \/ txn'[h].at \notin {"uploaded", "deleting", "clearing"}
    BY <1>1, <1>3, After DEF Ends
  <2> QED
    BY <1>1, <1>2, <2>0, <2>1, <2>2, OwnedFrame
<1>4. CASE Answers(h)
  <2>1. \A m \in Message : message'[m].files = message[m].files
    <3>1. txn[h].message \in Message
      BY <1>1, <1>4, Shape DEF Answers
    <3> QED
      BY <1>1, <1>4, <3>1 DEF Answers, TypeOK, MessageRow
  <2>2. \A f : Carriers(f)' = Carriers(f)
    BY <2>1, CarriersFrame
  <2>3. txn'[h].at = "rest" /\ UNCHANGED <<file, blob, drawn>>
    BY <1>1, <1>4, TurnsTo DEF Answers, Idle
  <2> QED
    BY <1>1, <1>2, <2>2, <2>3, OwnedFrame
<1>5. CASE UploadStores(h)
  <2>1. /\ drawn' = drawn + 1 /\ drawn \in 0 .. MaxFiles /\ drawn + 1 \in File
        /\ blob' = blob \cup {drawn + 1} /\ file' = file /\ message' = message
    BY <1>1, <1>5, BoundsOK DEF UploadStores, TypeOK, File
  <2>2. \A f : Carriers(f)' = Carriers(f)
    BY <2>1, CarriersFrame
  <2>3. PICK n \in File : n = drawn + 1
    BY <2>1
  <2>4. txn'[h].at = "uploaded" /\ txn'[h].file = n
    BY <1>1, <1>5, <2>3, TurnsTo DEF UploadStores
  <2>5. \A f \in File : f > drawn' => file'[f] = NoFile /\ Carriers(f)' = {}
    BY <1>1, <2>1, <2>2 DEF FilesOwned, File
  <2>6. Unlisted(n)'
    BY <1>1, <2>1, <2>2, <2>3 DEF FilesOwned, Unlisted, File
  <2>7. \A g \in Handler \ {h} : txn[g].at \in {"uploaded", "deleting", "clearing"} =>
           txn[g].file \in File /\ txn[g].file <= drawn
    BY <1>1, Shape DEF FilesOwned, Holds, Unlisted
  <2>8. ASSUME NEW g \in Handler, txn'[g].at = "uploaded"
        PROVE  /\ Unlisted(txn[g].file)'
               /\ \A k \in Handler \ {g} :
                    txn'[k].at \in {"uploaded", "deleting", "clearing"} =>
                      txn'[k].file # txn'[g].file
    <3>1. CASE g = h
      <4>1. Unlisted(txn[g].file)'
        BY <2>4, <2>6, <3>1 DEF Unlisted
      <4> QED
        BY <1>2, <2>1, <2>3, <2>4, <2>7, <3>1, <4>1 DEF File
    <3>2. CASE g # h
      <4>1. txn'[g] = txn[g] /\ Unlisted(txn[g].file)
        BY <1>1, <1>2, <2>8, <3>2 DEF FilesOwned, Holds
      <4>2. Unlisted(txn[g].file)'
        BY <2>1, <2>2, <2>7, <2>8, <3>2, <4>1 DEF Unlisted, File
      <4>3. \A k \in Handler \ {g, h} :
              txn'[k].at \in {"uploaded", "deleting", "clearing"} =>
                txn'[k].file # txn'[g].file
        BY <1>1, <1>2, <2>8, <3>2 DEF FilesOwned, Holds
      <4>4. txn'[h].file # txn'[g].file
        BY <1>2, <2>1, <2>3, <2>4, <2>7, <2>8, <3>2 DEF File
      <4> QED
        BY <4>2, <4>3, <4>4
    <3> QED
      BY <3>1, <3>2
  <2>10. \A g \in Handler : txn'[g].at \in {"deleting", "clearing"} =>
           txn'[g].file <= drawn' /\ (txn'[g].at = "clearing" => ~file'[txn'[g].file].stored)
    BY <1>1, <1>2, <2>1, <2>4, <2>7 DEF FilesOwned, Holds, File
  <2> QED
    BY <2>5, <2>8, <2>10 DEF FilesOwned, Holds
<1>6. CASE SendCommits(h)
  <2>1. PICK m \in Message : Numbers(h, m)
    BY <1>6, SendNumbers
  <2>2. blob' = blob /\ drawn' = drawn /\ txn'[h].at = "asking"
    BY <1>6, <2>1 DEF SendCommits, Numbers
  <2>3. \A f \in File : ~file[f].stored =>
           file'[f] = file[f] /\ Carriers(f)' = Carriers(f)
    BY <2>1 DEF Numbers
  <2>4. \A f \in File : f > drawn' => file'[f] = NoFile /\ Carriers(f)' = {}
    BY <1>1, <2>2, <2>3 DEF FilesOwned, NoFile
  <2>5. \A f \in File : Unlisted(f) => Unlisted(f)'
    BY <2>2, <2>3 DEF Unlisted, NoFile
  <2>6. \A g \in Handler : txn'[g].at # "asking" => txn'[g] = txn[g]
    BY <1>2, <2>2
  <2>7. ASSUME NEW g \in Handler, txn'[g].at = "uploaded"
        PROVE  /\ Unlisted(txn[g].file)' /\ txn'[g] = txn[g]
               /\ \A k \in Handler \ {g} :
                    txn'[k].at \in {"uploaded", "deleting", "clearing"} =>
                      txn'[k].file # txn'[g].file
    <3>1. txn'[g] = txn[g]
      BY <2>6, <2>7
    <3>2. PICK f \in File : f = txn[g].file /\ Unlisted(f)
      BY <1>1, <2>7, <3>1, Shape DEF FilesOwned, Holds
    <3>3. Unlisted(f)'
      BY <2>5, <3>2
    <3>4. Unlisted(txn[g].file)'
      BY <3>1, <3>2, <3>3 DEF Unlisted
    <3>5. \A k \in Handler \ {g} :
            txn'[k].at \in {"uploaded", "deleting", "clearing"} =>
              txn'[k].file # txn'[g].file
      BY <1>1, <2>6, <2>7, <3>1 DEF FilesOwned, Holds
    <3> QED
      BY <3>1, <3>4, <3>5
  <2>8. \A g \in Handler : txn'[g].at \in {"deleting", "clearing"} =>
           txn'[g].file <= drawn'
    BY <1>1, <2>2, <2>6 DEF FilesOwned
  <2>9. \A g \in Handler : txn'[g].at = "clearing" => ~file'[txn'[g].file].stored
    BY <1>1, <2>3, <2>6, Shape DEF FilesOwned, Holds
  <2> QED
    BY <2>4, <2>7, <2>8, <2>9 DEF FilesOwned, Holds
<1>7. CASE UploadCommits(h) \/ UploadFails(h) \/ UploadUnanswered(h)
  <2>1. PICK i \in File : i = txn[h].file
    BY <1>1, <1>7, Shape DEF UploadCommits, UploadFails, UploadUnanswered
  <2>2. /\ Unlisted(i)
        /\ \A g \in Handler \ {h} :
             txn[g].at \in {"uploaded", "deleting", "clearing"} => txn[g].file # i
    BY <1>1, <1>7, <2>1
       DEF UploadCommits, UploadFails, UploadUnanswered, FilesOwned, Holds
  <2>3. drawn' = drawn /\ i <= drawn /\ message' = message
    BY <1>7, <2>2 DEF UploadCommits, UploadFails, UploadUnanswered, Unlisted
  <2>4. \A f : Carriers(f)' = Carriers(f)
    BY <2>3, CarriersFrame
  <2>5. \A f \in File \ {i} : file'[f] = file[f] /\ (f \in blob => f \in blob')
    BY <1>1, <1>7, <2>1
       DEF UploadCommits, UploadFails, UploadUnanswered, Adds, Cleanup, TypeOK
  <2>6. txn'[h].at = "rest"
    <3>1. Turns(h, Idle)
      BY <1>7 DEF UploadCommits, UploadFails, UploadUnanswered
    <3> QED
      BY <1>1, <3>1, TurnsTo DEF Idle
  <2> QED
    BY <1>1, <1>2, <2>2, <2>3, <2>4, <2>5, <2>6, OwnedKept
<1>8. CASE DeleteBegins(h)
  <2>1. PICK i \in File : /\ file[i].stored
                          /\ Moves(h, [at |-> "deleting", file |-> i])
    BY <1>8 DEF DeleteBegins
  <2>2. /\ i <= drawn
        /\ \A g \in Handler : txn[g].at \in {"uploaded", "clearing"} => txn[g].file # i
    BY <1>1, <2>1 DEF FilesOwned, Holds, Unlisted, NoFile, TypeOK, File
  <2>3. UNCHANGED <<file, blob, drawn, message>>
    BY <2>1 DEF Moves
  <2>4. \A f : Carriers(f)' = Carriers(f)
    BY <2>3, CarriersFrame
  <2>5. txn'[h].at = "deleting" /\ txn'[h].file = i
    BY <1>1, <2>1, TurnsTo DEF Moves
  <2> QED
    BY <1>1, <1>2, <2>2, <2>3, <2>4, <2>5, OwnedKept
<1>9. CASE DeleteCommits(h)
  <2>1. PICK i \in File : i = txn[h].file /\ i <= drawn
    BY <1>1, <1>9, Shape DEF DeleteCommits, FilesOwned
  <2>2. \A g \in Handler \ {h} : txn[g].at = "uploaded" => txn[g].file # i
    BY <1>1, <1>9, <2>1 DEF DeleteCommits, FilesOwned, Holds
  <2>3. UNCHANGED <<blob, drawn, message>> /\ file' = [file EXCEPT ![i] = NoFile]
    BY <1>9, <2>1 DEF DeleteCommits, DeletesRow
  <2>4. \A f : Carriers(f)' = Carriers(f)
    BY <2>3, CarriersFrame
  <2>5. ~file'[i].stored /\ \A f \in File \ {i} : file'[f] = file[f]
    BY <1>1, <2>3 DEF TypeOK, NoFile
  <2>6. txn'[h].at = "clearing" /\ txn'[h].file = i
    <3>1. txn'[h] = [txn[h] EXCEPT !.at = "clearing"]
      BY <1>1, <1>9, TurnsTo DEF DeleteCommits
    <3>2. txn[h] \in Deleting
      BY <1>1, <1>9, Shape DEF DeleteCommits
    <3> QED
      BY <2>1, <3>1, <3>2 DEF Deleting
  <2> QED
    BY <1>1, <1>2, <2>1, <2>2, <2>3, <2>4, <2>5, <2>6, OwnedKept
<1>10. CASE DeleteClears(h)
  <2>1. PICK i \in File : i = txn[h].file /\ i <= drawn
    BY <1>1, <1>10, Shape DEF DeleteClears, FilesOwned
  <2>2. \A g \in Handler \ {h} : txn[g].at = "uploaded" => txn[g].file # i
    BY <1>1, <1>10, <2>1 DEF DeleteClears, FilesOwned, Holds
  <2>3. UNCHANGED <<file, drawn, message>> /\ blob' \in {blob, blob \ {i}}
    BY <1>10, <2>1 DEF DeleteClears, Cleanup
  <2>4. \A f : Carriers(f)' = Carriers(f)
    BY <2>3, CarriersFrame
  <2>5. ~file'[i].stored
    BY <1>1, <1>10, <2>1, <2>3 DEF DeleteClears, FilesOwned, Holds
  <2>6. txn'[h].at = "rest"
    BY <1>1, <1>10, TurnsTo DEF DeleteClears, Idle
  <2> QED
    BY <1>1, <1>2, <2>1, <2>2, <2>3, <2>4, <2>5, <2>6, OwnedKept
<1> QED
  BY <1>3, <1>4, <1>5, <1>6, <1>7, <1>8, <1>9, <1>10 DEF Steps

-----------------------------------------------------------------------------
(* The count of the attachments.                                            *)

\* The sets that are counted are finite.
LEMMA Counts ==
    ASSUME TypeOK
    PROVE  /\ IsFiniteSet(Attached) /\ Cardinality(Attached) \in Nat
           /\ IsFiniteSet(InFlight) /\ Cardinality(InFlight) \in Nat
           /\ Cardinality(Handler) \in Nat
           /\ Cardinality(InFlight) <= Cardinality(Handler)
<1>1. IsFiniteSet(File)
  BY BoundsOK, FS_Interval DEF File
<1>2. Attached \in SUBSET File /\ InFlight \in SUBSET Handler
  BY DEF Attached, InFlight
<1>3. IsFiniteSet(Attached)
  BY <1>1, <1>2, FS_Subset
<1>4. IsFiniteSet(InFlight) /\ Cardinality(InFlight) <= Cardinality(Handler)
  BY <1>2, HandlersOK, FS_Subset
<1> QED
  BY <1>3, <1>4, HandlersOK, FS_CardinalityType

\* A step that adds neither a row nor an upload.
LEMMA Fewer ==
    ASSUME TypeOK, TypeOK', RoomForAll, NEW h \in Handler,
           Attached' \subseteq Attached, InFlight' \subseteq InFlight
    PROVE  RoomForAll'
<1>1. Cardinality(Attached') <= Cardinality(Attached)
  BY Counts, FS_Subset
<1>2. Cardinality(InFlight') <= Cardinality(InFlight)
  BY Counts, FS_Subset
<1>3. /\ Cardinality(Attached') \in Nat /\ Cardinality(InFlight') \in Nat
  <2>1. IsFiniteSet(Attached') /\ IsFiniteSet(InFlight')
    BY Counts, FS_Subset
  <2> QED
    BY <2>1, FS_CardinalityType
<1> QED
  BY <1>1, <1>2, <1>3, Counts, BoundsOK DEF RoomForAll

\* An upload begins where the count is below the limit, and a row takes the
\* place of its upload.
LEMMA RoomStep ==
    ASSUME IInv, TypeOK', NEW h \in Handler, Steps(h)
    PROVE  RoomForAll'
<1>1. TypeOK /\ RoomForAll /\ FilesOwned
  BY DEF IInv
<1>2. \A g \in Handler \ {h} : txn'[g] = txn[g]
  BY <1>1, Alone
<1>3. CASE UploadBegins(h)
  <2>1. Attached' = Attached
    BY <1>3 DEF UploadBegins, Moves, Attached
  <2>2. Cardinality(InFlight') \in Nat /\ Cardinality(InFlight') <= Cardinality(Handler)
    <3>1. InFlight' \in SUBSET Handler
      BY DEF InFlight
    <3> QED
      BY <3>1, HandlersOK, FS_Subset, FS_CardinalityType
  <2>3. Cardinality(Attached) < Limit
    BY <1>3 DEF UploadBegins, Room
  <2> QED
    BY <1>1, <2>1, <2>2, <2>3, Counts, BoundsOK DEF RoomForAll
<1>4. CASE UploadCommits(h) \/ UploadUnanswered(h)
  <2>1. PICK i \in File : i = txn[h].file
    BY <1>1, <1>4, Shape DEF UploadCommits, UploadUnanswered
  <2>2. Attached' = Attached \cup {i}
    <3>1. file' = [file EXCEPT ![i].stored = TRUE]
      BY <1>4, <2>1 DEF UploadCommits, UploadUnanswered, Adds
    <3>2. file'[i].stored /\ \A f \in File \ {i} : file'[f] = file[f]
      BY <1>1, <3>1 DEF TypeOK, FileRow
    <3> QED
      BY <3>2 DEF Attached
  <2>3. Cardinality(Attached') <= Cardinality(Attached) + 1 /\ Cardinality(Attached') \in Nat
    <3>1. IsFiniteSet(Attached)
      BY <1>1, Counts
    <3>2. /\ IsFiniteSet(Attached \cup {i})
          /\ Cardinality(Attached \cup {i}) =
               IF i \in Attached THEN Cardinality(Attached) ELSE Cardinality(Attached) + 1
      BY <3>1, FS_AddElement
    <3> QED
      BY <1>1, <2>2, <3>2, Counts
  <2>4. h \in InFlight /\ InFlight' = InFlight \ {h}
    <3>1. txn[h].at = "uploaded"
      BY <1>4 DEF UploadCommits, UploadUnanswered
    <3>2. txn'[h].at = "rest"
      BY <1>1, <1>4, After DEF Ends
    <3> QED
      BY <1>2, <3>1, <3>2 DEF InFlight
  <2>5. Cardinality(InFlight') = Cardinality(InFlight) - 1
    <3>1. IsFiniteSet(InFlight)
      BY <1>1, Counts
    <3>2. Cardinality(InFlight \ {h}) =
            IF h \in InFlight THEN Cardinality(InFlight) - 1 ELSE Cardinality(InFlight)
      BY <3>1, FS_RemoveElement
    <3> QED
      BY <2>4, <3>2
  <2> QED
    BY <1>1, <2>3, <2>5, Counts, BoundsOK DEF RoomForAll
<1>5. CASE SendCommits(h)
  <2>1. PICK m \in Message : Numbers(h, m)
    BY <1>5, SendNumbers
  <2>2. Attached' \subseteq Attached
    BY <2>1 DEF Numbers, Attached
  <2>3. InFlight' \subseteq InFlight
    BY <1>1, <1>2, <1>5, After DEF InFlight
  <2> QED
    BY <1>1, <2>2, <2>3, Fewer
<1>6. CASE DeleteCommits(h)
  <2>1. Attached' \subseteq Attached
    <3>1. txn[h].file \in File
      BY <1>1, <1>6, Shape DEF DeleteCommits
    <3>2. ~file'[txn[h].file].stored /\ \A f \in File \ {txn[h].file} : file'[f] = file[f]
      BY <1>1, <1>6, <3>1 DEF DeleteCommits, DeletesRow, TypeOK, NoFile
    <3> QED
      BY <3>2 DEF Attached
  <2>2. InFlight' \subseteq InFlight
    BY <1>1, <1>2, <1>6, After DEF InFlight
  <2> QED
    BY <1>1, <2>1, <2>2, Fewer
<1>7. CASE UploadStores(h)
  <2>1. Attached' = Attached
    BY <1>7 DEF UploadStores, Attached
  <2>2. InFlight' \subseteq InFlight
    BY <1>1, <1>2, <1>7 DEF InFlight, UploadStores
  <2> QED
    BY <1>1, <2>1, <2>2, Fewer
<1>8. CASE \/ CreateThread(h) \/ SendBegins(h) \/ DeleteBegins(h) \/ UploadFails(h)
           \/ UploadRefused(h) \/ SendStale(h) \/ Answers(h) \/ ReplyFails(h)
           \/ DeleteClears(h) \/ Dies(h)
  <2>1. file' = file
    BY <1>8 DEF CreateThread, SendBegins, DeleteBegins, UploadFails, UploadRefused,
       SendStale, Answers, ReplyFails, DeleteClears, Dies, Moves
  <2>2. Attached' = Attached
    BY <2>1 DEF Attached
  <2>3. txn'[h] = txn[h] \/ txn'[h].at \notin {"counted", "uploaded"}
    BY <1>1, <1>8, After DEF Ends
  <2>4. InFlight' \subseteq InFlight
    BY <1>2, <2>3 DEF InFlight
  <2> QED
    BY <1>1, <2>2, <2>4, Fewer
<1> QED
  BY <1>3, <1>4, <1>5, <1>6, <1>7, <1>8 DEF Steps

-----------------------------------------------------------------------------
(* The bytes.                                                               *)

\* A row is committed after its bytes are put; they go after it is gone.
LEMMA BackedStep ==
    ASSUME IInv, NEW h \in Handler, Steps(h)
    PROVE  FilesBacked'
<1>1. TypeOK /\ FilesBacked /\ FilesOwned
  BY DEF IInv
<1>2. CASE UploadCommits(h) \/ UploadUnanswered(h) \/ UploadFails(h)
  <2>1. PICK i \in File : i = txn[h].file /\ Unlisted(i)
    BY <1>1, <1>2, Shape
       DEF UploadCommits, UploadUnanswered, UploadFails, FilesOwned, Holds
  <2>2. \A f \in File \ {i} : /\ file'[f] = file[f] /\ (f \in blob => f \in blob')
                              /\ (f \in lost => f \in lost')
    BY <1>1, <1>2, <2>1
       DEF UploadCommits, UploadUnanswered, UploadFails, Adds, Cleanup, TypeOK
  <2>3. file'[i].stored => i \in blob' \/ i \in lost'
    BY <1>2, <2>1
       DEF UploadCommits, UploadUnanswered, UploadFails, Unlisted, NoFile
  <2> QED
    BY <1>1, <2>2, <2>3 DEF FilesBacked, Attached, Downloads
<1>3. CASE DeleteClears(h)
  <2>1. PICK i \in File : i = txn[h].file /\ ~file[i].stored
    BY <1>1, <1>3, Shape DEF DeleteClears, FilesOwned, Holds
  <2>2. file' = file /\ lost' = lost /\ \A f \in File \ {i} : f \in blob => f \in blob'
    BY <1>3, <2>1 DEF DeleteClears, Cleanup
  <2> QED
    BY <1>1, <2>1, <2>2 DEF FilesBacked, Attached, Downloads
<1>4. CASE SendCommits(h)
  <2>1. PICK m \in Message : Numbers(h, m)
    BY <1>4, SendNumbers
  <2>2. Attached' \subseteq Attached /\ blob' = blob /\ lost' = lost
    BY <1>4, <2>1 DEF Numbers, Attached, SendCommits
  <2> QED
    BY <1>1, <2>2 DEF FilesBacked, Downloads
<1>5. CASE DeleteCommits(h)
  <2>1. txn[h].file \in File
    BY <1>1, <1>5, Shape DEF DeleteCommits
  <2>2. ~file'[txn[h].file].stored /\ \A f \in File \ {txn[h].file} : file'[f] = file[f]
    BY <1>1, <1>5, <2>1 DEF DeleteCommits, DeletesRow, TypeOK, NoFile
  <2>3. blob' = blob /\ lost' = lost
    BY <1>5 DEF DeleteCommits, DeletesRow
  <2> QED
    BY <1>1, <2>2, <2>3 DEF FilesBacked, Attached, Downloads
<1>6. CASE \/ CreateThread(h) \/ SendBegins(h) \/ DeleteBegins(h) \/ UploadBegins(h)
           \/ UploadRefused(h) \/ UploadStores(h) \/ SendStale(h) \/ Answers(h)
           \/ ReplyFails(h) \/ Dies(h)
  <2>1. file' = file /\ lost' = lost /\ blob \subseteq blob'
    BY <1>6 DEF CreateThread, SendBegins, DeleteBegins, UploadBegins, UploadRefused,
       UploadStores, SendStale, Answers, ReplyFails, Dies, Moves
  <2> QED
    BY <1>1, <2>1 DEF FilesBacked, Attached, Downloads
<1> QED
  BY <1>2, <1>3, <1>4, <1>5, <1>6 DEF Steps

-----------------------------------------------------------------------------
(* The links.                                                               *)

\* The greatest element of a set.
LEMMA MaxIs ==
    ASSUME NEW S \in SUBSET Int, NEW m \in S, \A k \in S : m >= k
    PROVE  Max(S) = m
<1>1. Max(S) \in S /\ \A k \in S : Max(S) >= k
  BY DEF Max
<1>2. Max(S) \in Int /\ m \in Int /\ Max(S) >= m /\ m >= Max(S)
  BY <1>1
<1> QED
  BY <1>2

\* What LinkNamesLast wants of a link.
Last(f) == IF Carriers(f) = {} THEN 0 ELSE Max(Carriers(f))

\* A message links its files as it is numbered, and is then the last of them.
LEMMA LinksStep ==
    ASSUME IInv, NEW h \in Handler, Steps(h)
    PROVE  LinkNamesLast'
<1>1. TypeOK /\ LinkNamesLast /\ FilesOwned
  BY DEF IInv
<1>2. CASE SendCommits(h)
  <2>1. PICK m \in Message : Numbers(h, m)
    BY <1>2, SendNumbers
  <2>2. ASSUME NEW f \in File, file'[f].stored
        PROVE  file'[f].link = Last(f)'
    <3>1. CASE f \in txn[h].files
      <4>1. file'[f].link = m /\ Carriers(f)' = Carriers(f) \cup {m}
        BY <2>1, <3>1 DEF Numbers
      <4>2. \A k \in Carriers(f) : k \in Message /\ message[k] # NoMessage
        BY DEF Carriers, NoMessage
      <4>3. \A k \in Carriers(f) : k \in Int /\ m >= k
        BY <2>1, <4>2 DEF Numbers, Message
      <4>4. Max(Carriers(f) \cup {m}) = m
        <5> DEFINE S == Carriers(f) \cup {m}
        <5>1. S \in SUBSET Int /\ m \in S /\ \A k \in S : m >= k
          BY <4>3 DEF Message
        <5> QED
          BY <5>1, MaxIs
      <4> QED
        BY <4>1, <4>4 DEF Last
    <3>2. CASE f \notin txn[h].files
      <4>1. file'[f] = file[f] /\ Carriers(f)' = Carriers(f)
        BY <2>1, <3>2 DEF Numbers
      <4>2. file[f].link = Last(f)
        BY <1>1, <2>2, <4>1 DEF LinkNamesLast, Attached, Last
      <4> QED
        BY <4>1, <4>2 DEF Last
    <3> QED
      BY <3>1, <3>2
  <2> QED
    BY <2>2 DEF LinkNamesLast, Attached, Last
<1>3. CASE ~SendCommits(h)
  <2>1. \A f : Carriers(f)' = Carriers(f)
    <3>1. CASE Answers(h)
      <4>1. txn[h].message \in Message
        BY <1>1, <3>1, Shape DEF Answers
      <4>2. \A m \in Message : message'[m].files = message[m].files
        BY <1>1, <3>1, <4>1 DEF Answers, TypeOK, MessageRow
      <4> QED
        BY <4>2, CarriersFrame
    <3>2. CASE ~Answers(h)
      <4>1. message' = message
        BY <1>3, <3>2 DEF Steps, CreateThread, UploadBegins, UploadRefused,
           UploadStores, UploadCommits, UploadFails, UploadUnanswered, SendBegins,
           SendStale, ReplyFails, DeleteBegins, DeleteCommits, DeleteClears, Dies, Moves
      <4> QED
        BY <4>1, CarriersFrame
    <3> QED
      BY <3>1, <3>2
  <2>2. \A f \in File : file'[f].stored =>
           \/ file'[f] = file[f]
           \/ file'[f].link = 0 /\ Carriers(f) = {}
    <3>1. CASE UploadCommits(h) \/ UploadUnanswered(h)
      <4>1. PICK i \in File : i = txn[h].file /\ Unlisted(i)
        BY <1>1, <3>1, Shape DEF UploadCommits, UploadUnanswered, FilesOwned, Holds
      <4>2. file' = [file EXCEPT ![i].stored = TRUE]
        BY <3>1, <4>1 DEF UploadCommits, UploadUnanswered, Adds
      <4>3. file'[i].link = file[i].link /\ \A f \in File \ {i} : file'[f] = file[f]
        BY <1>1, <4>2 DEF TypeOK, FileRow
      <4> QED
        BY <4>1, <4>3 DEF Unlisted, NoFile
    <3>2. CASE DeleteCommits(h)
      <4>1. txn[h].file \in File
        BY <1>1, <3>2, Shape DEF DeleteCommits
      <4> QED
        BY <1>1, <3>2, <4>1 DEF DeleteCommits, DeletesRow, TypeOK, NoFile
    <3>3. CASE ~UploadCommits(h) /\ ~UploadUnanswered(h) /\ ~DeleteCommits(h)
      <4>1. file' = file
        BY <1>3, <3>3 DEF Steps, CreateThread, UploadBegins, UploadRefused,
           UploadStores, UploadFails, SendBegins, SendStale, Answers,
           ReplyFails, DeleteBegins, DeleteClears, Dies, Moves
      <4> QED
        BY <4>1
    <3> QED
      BY <3>1, <3>2, <3>3
  <2>3. ASSUME NEW f \in File, file'[f].stored
        PROVE  file'[f].link = Last(f)'
    <3>1. Last(f)' = Last(f)
      BY <2>1 DEF Last
    <3>2. CASE file'[f] = file[f]
      BY <1>1, <2>3, <3>1, <3>2 DEF LinkNamesLast, Attached, Last
    <3>3. CASE file'[f].link = 0 /\ Carriers(f) = {}
      BY <3>1, <3>3 DEF Last
    <3> QED
      BY <2>2, <2>3, <3>2, <3>3
  <2> QED
    BY <2>3 DEF LinkNamesLast, Attached, Last
<1> QED
  BY <1>2, <1>3

-----------------------------------------------------------------------------
\* The empty conversation satisfies the invariant.
LEMMA InitInv == Init => IInv
<1>1. SUFFICES ASSUME Init
               PROVE  IInv
  OBVIOUS
<1>2. TypeOK
  <2>1. NoFile \in FileRow /\ NoMessage \in MessageRow
    BY BoundsOK DEF NoFile, FileRow, NoMessage, MessageRow
  <2> QED
    BY <1>1, <2>1, BoundsOK DEF Init, TypeOK
<1>3. \A f : Carriers(f) = {}
  BY <1>1 DEF Init, Carriers, NoMessage
<1>4. FilesOwned /\ MessagesInOrder
  BY <1>1, <1>3 DEF Init, FilesOwned, MessagesInOrder, Holds, Idle
<1>5. Attached = {} /\ InFlight = {}
  BY <1>1 DEF Init, Attached, NoFile, InFlight, Idle
<1>6. RoomForAll
  BY <1>2, <1>5, Counts, FS_EmptySet, BoundsOK DEF RoomForAll
<1>7. FilesBacked /\ LinkNamesLast
  BY <1>5 DEF FilesBacked, LinkNamesLast
<1> QED
  BY <1>2, <1>4, <1>6, <1>7 DEF IInv

\* Every step keeps it.
LEMMA NextInv == IInv /\ [Next]_vars => IInv'
<1>1. SUFFICES ASSUME IInv, [Next]_vars
               PROVE  IInv'
  OBVIOUS
<1>2. CASE Next
  <2>1. PICK h \in Handler : Steps(h)
    BY <1>2 DEF Next, Steps
  <2>2. TypeOK'
    BY <1>1, <2>1, TypeStep DEF IInv
  <2> QED
    BY <1>1, <2>1, <2>2, OwnedStep, MessagesStep, RoomStep, BackedStep, LinksStep
       DEF IInv
<1>3. CASE UNCHANGED vars
  <2>1. TypeOK' /\ MessagesInOrder' /\ FilesBacked'
    BY <1>1, <1>3 DEF vars, IInv, TypeOK, MessagesInOrder, Holds, FilesBacked, Attached,
       Downloads
  <2>2. \A f : Carriers(f)' = Carriers(f)
    BY <1>3 DEF vars, Carriers
  <2>3. FilesOwned' /\ LinkNamesLast'
    BY <1>1, <1>3, <2>2
       DEF vars, IInv, FilesOwned, Unlisted, Holds, LinkNamesLast, Attached
  <2>4. RoomForAll'
    <3>1. Attached' = Attached /\ InFlight' = InFlight
      BY <1>3 DEF vars, Attached, InFlight
    <3> QED
      BY <1>1, <3>1 DEF IInv, RoomForAll
  <2> QED
    BY <2>1, <2>3, <2>4 DEF IInv
<1> QED
  BY <1>1, <1>2, <1>3

\* The inductive invariant holds in every reachable state.
LEMMA Invariance == Spec => []IInv
<1>1. Init => IInv
  BY InitInv
<1>2. IInv /\ [Next]_vars => IInv'
  BY NextInv
<1> QED
  BY <1>1, <1>2, PTL DEF Spec

-----------------------------------------------------------------------------
\* Every state of the conversation is well formed.
THEOREM TypeCorrect == Spec => []TypeOK
<1>1. IInv => TypeOK
  BY DEF IInv
<1> QED
  BY <1>1, Invariance, PTL

\* Whatever the database lists can be downloaded, but for the uploads that were
\* committed and answered as failed: the bytes are put before the row is
\* committed, and removed only after it is gone.
THEOREM FilesAreBacked == Spec => []FilesBacked
<1>1. IInv => FilesBacked
  BY DEF IInv
<1> QED
  BY <1>1, Invariance, PTL

\* The count is read before the upload is committed, so the limit is exceeded,
\* but by fewer files than there are handlers.
THEOREM UploadsAreBounded == Spec => []UploadsBounded
<1>1. IInv => UploadsBounded
  BY Counts, BoundsOK DEF IInv, RoomForAll, UploadsBounded
<1> QED
  BY <1>1, Invariance, PTL

\* However the messages that carry a file overlap, its link is the last of them.
THEOREM LinksNameTheLast == Spec => []LinkNamesLast
<1>1. IInv => LinkNamesLast
  BY DEF IInv
<1> QED
  BY <1>1, Invariance, PTL

-----------------------------------------------------------------------------
(* StoredFiles.                                                             *)

\* A request under way.
Working(h) == doing[h] # Rest

\* The key of a request is its own, and no row has it.
KeysOwned ==
    \A h \in Request : Working(h) =>
        /\ Keyed(h) <= keysDrawn
        /\ \A r \in row : r.key # Keyed(h)
        /\ \A g \in Request : Working(g) /\ Keyed(g) = Keyed(h) => g = h

\* Rows name keys that were drawn.
RowsDrawn == \A r \in row : r.key <= keysDrawn

\* Past the put, the bytes are whole.
PutWhole ==
    \A h \in Request :
        doing[h].at \in {"put", "read", "flushed"} => Readable(Keyed(h))

\* A source that is flushed is the first of its content, and the only one.
FlushedNew ==
    \A h \in Request : At(h, "flushed") /\ doing[h].kind \in Content =>
        /\ ~SourceKnown(doing[h].kind)
        /\ \A g \in Request :
             At(g, "flushed") /\ doing[g].kind = doing[h].kind => g = h

\* The inductive invariant of the stored files.
FilesInv ==
    /\ FilesTypeOK /\ KeysOwned /\ RowsDrawn /\ PutWhole /\ FlushedNew
    /\ RowsBacked /\ NeverHalf /\ OneSourcePerContent

\* The steps of a handler.
RequestSteps(h) ==
    \/ Begins(h) \/ Existing(h)
    \/ PutOpens(h) \/ PutReplaces(h) \/ PutFails(h)
    \/ PutObject(h) \/ PutObjectFails(h)
    \/ ReadsBack(h) \/ Flushes(h) \/ FailsEarly(h)
    \/ Commits(h) \/ CommitFails(h) \/ CommitUnanswered(h)
    \/ RequestDies(h)

-----------------------------------------------------------------------------
\* What a handler at work holds.
LEMMA Work ==
    ASSUME FilesTypeOK, NEW h \in Request, Working(h)
    PROVE  /\ doing[h] \in Busy
           /\ Keyed(h) \in Key
           /\ doing[h].kind \in Kind
           /\ doing[h].at \in {"putting", "writing", "put", "read", "flushed"}
  BY DEF FilesTypeOK, Working, Busy, Keyed

\* A handler that is at some step of a request is at work.
LEMMA AtWork ==
    ASSUME FilesTypeOK, NEW h \in Request,
           doing[h].at \in {"putting", "writing", "put", "read", "flushed"}
    PROVE  Working(h)
  BY DEF Working, Rest

\* A step that moves a handler along its request, keeps its key and kind,
\* writes nothing but the bytes of its key, and leaves none of them partial.
LEMMA MoveKeeps ==
    ASSUME FilesInv, NEW h \in Request, Working(h),
           NEW at \in {"putting", "writing", "put", "read"},
           Stays(h, at), UNCHANGED <<keysDrawn, row, keysLost>>,
           NEW b \in {"absent", "whole"},
           name' = name \/ name' = [name EXCEPT ![Keyed(h)] = b],
           at \in {"put", "read"} => name'[Keyed(h)] = "whole",
           FilesTypeOK'
    PROVE  FilesInv'
<1> DEFINE k == Keyed(h)
<1>1. doing[h] \in Busy /\ k \in Key
  BY Work DEF FilesInv
<1>2. \A g \in Request \ {h} : doing'[g] = doing[g]
  BY DEF Stays, Goes, FilesInv, FilesTypeOK
<1>3. doing'[h].at = at /\ doing'[h].key = k /\ Working(h)'
  <2>1. doing'[h] = [doing[h] EXCEPT !.at = at]
    BY DEF Stays, Goes, FilesInv, FilesTypeOK
  <2> QED
    BY <2>1, <1>1 DEF Busy, Working, Rest, Keyed
<1>4. \A j \in Key \ {k} : name'[j] = name[j]
  BY DEF FilesInv, FilesTypeOK
<1>5. name'[k] = name[k] \/ name'[k] = b
  BY <1>1 DEF FilesInv, FilesTypeOK
<1>6. \A r \in row : r.key \in Key \ {k}
  BY <1>1 DEF FilesInv, FilesTypeOK, KeysOwned, Row
<1>7. KeysOwned' /\ RowsDrawn'
  BY <1>2, <1>3 DEF FilesInv, KeysOwned, RowsDrawn, Working, Keyed
<1>8. PutWhole'
  <2> SUFFICES ASSUME NEW g \in Request,
                      doing'[g].at \in {"put", "read", "flushed"}
               PROVE  name'[doing'[g].key] = "whole"
    BY DEF PutWhole, Readable, Keyed
  <2>1. CASE g = h
    BY <2>1, <1>3
  <2>2. CASE g # h
    <3>1. doing'[g] = doing[g] /\ Working(g)
      BY <2>2, <1>2, AtWork DEF FilesInv
    <3>2. doing[g].key \in Key \ {k}
      BY <3>1, <2>2, Work DEF FilesInv, KeysOwned, Keyed
    <3> QED
      BY <3>1, <3>2, <1>4 DEF FilesInv, PutWhole, Readable, Keyed
  <2> QED
    BY <2>1, <2>2
<1>9. FlushedNew'
  BY <1>2, <1>3 DEF FilesInv, FlushedNew, At, SourceKnown
<1>10. RowsBacked' /\ NeverHalf'
  BY <1>1, <1>4, <1>5, <1>6 DEF FilesInv, RowsBacked, NeverHalf, Readable
<1> QED
  BY <1>7, <1>8, <1>9, <1>10 DEF FilesInv, OneSourcePerContent

\* A request ends without a row: what it leaves of its bytes concerns nobody.
LEMMA EndKeeps ==
    ASSUME FilesInv, NEW h \in Request, Working(h),
           Goes(h, Rest), UNCHANGED <<keysDrawn, row, keysLost>>,
           NEW b \in {"absent", "whole"},
           name' = name \/ name' = [name EXCEPT ![Keyed(h)] = b],
           FilesTypeOK'
    PROVE  FilesInv'
<1> DEFINE k == Keyed(h)
<1>1. k \in Key
  BY Work DEF FilesInv
<1>2. \A g \in Request \ {h} : doing'[g] = doing[g]
  BY DEF Goes, FilesInv, FilesTypeOK
<1>3. doing'[h] = Rest
  BY DEF Goes, FilesInv, FilesTypeOK
<1>4. \A j \in Key \ {k} : name'[j] = name[j]
  BY DEF FilesInv, FilesTypeOK
<1>5. name'[k] = name[k] \/ name'[k] = b
  BY <1>1 DEF FilesInv, FilesTypeOK
<1>6. \A r \in row : r.key \in Key \ {k}
  BY <1>1 DEF FilesInv, FilesTypeOK, KeysOwned, Row
<1>7. KeysOwned' /\ RowsDrawn'
  BY <1>2, <1>3 DEF FilesInv, KeysOwned, RowsDrawn, Working, Keyed
<1>8. PutWhole'
  <2> SUFFICES ASSUME NEW g \in Request,
                      doing'[g].at \in {"put", "read", "flushed"}
               PROVE  name'[doing'[g].key] = "whole"
    BY DEF PutWhole, Readable, Keyed
  <2>1. g # h
    BY <1>3 DEF Rest
  <2>2. doing'[g] = doing[g] /\ Working(g)
    BY <2>1, <1>2, AtWork DEF FilesInv
  <2>3. doing[g].key \in Key \ {k}
    BY <2>1, <2>2, Work DEF FilesInv, KeysOwned, Keyed
  <2> QED
    BY <2>2, <2>3, <1>4 DEF FilesInv, PutWhole, Readable, Keyed
<1>9. FlushedNew'
  BY <1>2, <1>3 DEF FilesInv, FlushedNew, At, SourceKnown, Rest
<1>10. RowsBacked' /\ NeverHalf'
  BY <1>1, <1>4, <1>5, <1>6 DEF FilesInv, RowsBacked, NeverHalf, Readable
<1> QED
  BY <1>7, <1>8, <1>9, <1>10 DEF FilesInv, OneSourcePerContent

\* A commit that is applied: the row of a flushed request, whose bytes are
\* whole unless its answer was lost.
LEMMA CommitKeeps ==
    ASSUME FilesInv, NEW h \in Request, At(h, "flushed"),
           AddsRow(h), Goes(h, Rest), UNCHANGED keysDrawn,
           \/ UNCHANGED <<name, keysLost>>
           \/ CleansUp(Keyed(h)) /\ keysLost' = keysLost \cup {Keyed(h)},
           FilesTypeOK'
    PROVE  FilesInv'
<1> DEFINE k == Keyed(h)
           new == [key |-> k, kind |-> doing[h].kind]
<1>1. Working(h) /\ k \in Key /\ doing[h].kind \in Kind
  BY Work, AtWork DEF FilesInv, At
<1>2. \A g \in Request \ {h} : doing'[g] = doing[g]
  BY DEF Goes, FilesInv, FilesTypeOK
<1>3. doing'[h] = Rest
  BY DEF Goes, FilesInv, FilesTypeOK
<1>4. \A j \in Key \ {k} : name'[j] = name[j]
  BY DEF FilesInv, FilesTypeOK, CleansUp
<1>5. name'[k] # "partial"
  BY <1>1 DEF FilesInv, FilesTypeOK, NeverHalf, CleansUp
<1>6. \A r \in row : r.key \in Key \ {k}
  BY <1>1 DEF FilesInv, FilesTypeOK, KeysOwned, Row
<1>7. row' = row \cup {new} /\ new.key = k /\ new.kind = doing[h].kind
  BY DEF AddsRow
<1>8. KeysOwned'
  <2> SUFFICES ASSUME NEW g \in Request, Working(g)'
               PROVE  /\ Keyed(g)' <= keysDrawn
                      /\ \A r \in row' : r.key # Keyed(g)'
                      /\ \A f \in Request :
                           Working(f)' /\ Keyed(f)' = Keyed(g)' => f = g
    BY DEF KeysOwned
  <2>1. g # h /\ doing'[g] = doing[g] /\ Working(g)
    BY <1>2, <1>3 DEF Working
  <2>2. Keyed(g)' = Keyed(g) /\ Keyed(g) # k
    BY <2>1, <1>1 DEF FilesInv, KeysOwned, Keyed
  <2>3. \A f \in Request : Working(f)' => f # h /\ doing'[f] = doing[f] /\ Working(f)
    BY <1>2, <1>3 DEF Working
  <2> QED
    BY <2>1, <2>2, <2>3, <1>7 DEF FilesInv, KeysOwned, Keyed
<1>9. RowsDrawn'
  BY <1>1, <1>7 DEF FilesInv, RowsDrawn, KeysOwned
<1>10. PutWhole'
  <2> SUFFICES ASSUME NEW g \in Request,
                      doing'[g].at \in {"put", "read", "flushed"}
               PROVE  name'[doing'[g].key] = "whole"
    BY DEF PutWhole, Readable, Keyed
  <2>1. g # h
    BY <1>3 DEF Rest
  <2>2. doing'[g] = doing[g] /\ Working(g)
    BY <2>1, <1>2, AtWork DEF FilesInv
  <2>3. doing[g].key \in Key \ {k}
    BY <2>1, <2>2, <1>1, Work DEF FilesInv, KeysOwned, Keyed
  <2> QED
    BY <2>2, <2>3, <1>4 DEF FilesInv, PutWhole, Readable, Keyed
<1>11. FlushedNew'
  <2> SUFFICES ASSUME NEW g \in Request, doing'[g].at = "flushed",
                      doing'[g].kind \in Content
               PROVE  /\ \A r \in row' : r.kind # doing'[g].kind
                      /\ \A f \in Request :
                           doing'[f].at = "flushed" /\ doing'[f].kind = doing'[g].kind
                             => f = g
    BY DEF FlushedNew, At, SourceKnown
  <2>1. g # h /\ doing'[g] = doing[g]
    BY <1>2, <1>3 DEF Rest
  <2>2. doing[h].kind # doing[g].kind
    BY <2>1 DEF FilesInv, FlushedNew, At
  <2>3. \A f \in Request : doing'[f].at = "flushed" => f # h /\ doing'[f] = doing[f]
    BY <1>2, <1>3 DEF Rest
  <2> QED
    BY <2>1, <2>2, <2>3, <1>7 DEF FilesInv, FlushedNew, At, SourceKnown
<1>12. RowsBacked'
  <2>1. ASSUME NEW r \in row
        PROVE  name'[r.key] = "whole" \/ r.key \in keysLost'
    BY <1>4, <1>6 DEF FilesInv, RowsBacked, Readable
  <2>2. name'[k] = "whole" \/ k \in keysLost'
    BY <1>1 DEF FilesInv, FilesTypeOK, PutWhole, At, Readable
  <2> QED
    BY <2>1, <2>2, <1>7 DEF RowsBacked, Readable
<1>13. NeverHalf'
  BY <1>4, <1>5 DEF FilesInv, NeverHalf
<1>14. OneSourcePerContent'
  <2>1. doing[h].kind \in Content => \A r \in row : r.kind # doing[h].kind
    BY DEF FilesInv, FlushedNew, SourceKnown
  <2> QED
    BY <2>1, <1>7 DEF FilesInv, OneSourcePerContent
<1> QED
  BY <1>8, <1>9, <1>10, <1>11, <1>12, <1>13, <1>14 DEF FilesInv

-----------------------------------------------------------------------------
\* The state stays well formed.
LEMMA FilesTypeStep ==
    ASSUME FilesTypeOK, NEW h \in Request, RequestSteps(h)
    PROVE  FilesTypeOK'
<1>1. ASSUME NEW at \in {"putting", "writing", "put", "read", "flushed"},
             Working(h), Stays(h, at)
      PROVE  doing' \in [Request -> {Rest} \cup Busy]
  <2>1. [doing[h] EXCEPT !.at = at] \in Busy
    BY <1>1, Work DEF Busy
  <2> QED
    BY <1>1, <2>1 DEF Stays, Goes, FilesTypeOK
<1>2. ASSUME Goes(h, Rest)
      PROVE  doing' \in [Request -> {Rest} \cup Busy]
  BY <1>2 DEF Goes, FilesTypeOK
<1>3. ASSUME Working(h), AddsRow(h)
      PROVE  row' \subseteq Row
  BY <1>3, Work DEF AddsRow, Row, FilesTypeOK
<1>4. CASE Begins(h)
  <2>1. keysDrawn + 1 \in Key /\ keysDrawn' \in 0 .. MaxKeys
    BY <1>4, KeysOK DEF Begins, FilesTypeOK, Key
  <2>2. PICK kind \in Kind :
          doing' = [doing EXCEPT ![h] = [at |-> "putting", key |-> keysDrawn + 1,
                                     kind |-> kind]]
    BY <1>4 DEF Begins, Goes
  <2>3. [at |-> "putting", key |-> keysDrawn + 1, kind |-> kind] \in Busy
    BY <2>1 DEF Busy
  <2> QED
    BY <1>4, <2>1, <2>2, <2>3 DEF Begins, FilesTypeOK
<1>5. CASE Existing(h)
  BY <1>5 DEF Existing, filesVars, FilesTypeOK
<1>6. CASE PutOpens(h)
  BY <1>6, <1>1, AtWork DEF PutOpens, OpensTemp, At, FilesTypeOK, Bytes
<1>7. CASE PutReplaces(h)
  BY <1>7, <1>1, AtWork DEF PutReplaces, At, FilesTypeOK, Bytes
<1>8. CASE PutFails(h)
  BY <1>8, <1>2 DEF PutFails, FilesTypeOK, Bytes
<1>9. CASE PutObject(h)
  BY <1>9, <1>1, AtWork DEF PutObject, At, FilesTypeOK, Bytes
<1>10. CASE PutObjectFails(h)
  BY <1>10, <1>2 DEF PutObjectFails, FilesTypeOK, Bytes
<1>11. CASE ReadsBack(h)
  BY <1>11, <1>1, AtWork DEF ReadsBack, At, FilesTypeOK
<1>12. CASE Flushes(h)
  BY <1>12, <1>1, AtWork DEF Flushes, At, FilesTypeOK
<1>13. CASE FailsEarly(h)
  BY <1>13, <1>2 DEF FailsEarly, FilesTypeOK
<1>14. CASE Commits(h)
  BY <1>14, <1>2, <1>3, AtWork DEF Commits, At, FilesTypeOK
<1>15. CASE CommitFails(h)
  BY <1>15, <1>2 DEF CommitFails, RolledBack, CleansUp, FilesTypeOK, Bytes
<1>16. CASE CommitUnanswered(h)
  BY <1>16, <1>2, <1>3, AtWork, Work
     DEF CommitUnanswered, CleansUp, At, FilesTypeOK, Bytes
<1>17. CASE RequestDies(h)
  BY <1>17, <1>2 DEF RequestDies, FilesTypeOK
<1> QED
  BY <1>4, <1>5, <1>6, <1>7, <1>8, <1>9, <1>10, <1>11, <1>12, <1>13, <1>14,
     <1>15, <1>16, <1>17 DEF RequestSteps

-----------------------------------------------------------------------------
\* A new request draws a key that nobody holds and no row has.
LEMMA BeginsKeeps ==
    ASSUME FilesInv, NEW h \in Request, Begins(h), FilesTypeOK'
    PROVE  FilesInv'
<1>1. \A g \in Request \ {h} : doing'[g] = doing[g]
  BY DEF Begins, Goes, FilesInv, FilesTypeOK
<1>2. /\ doing'[h].at = "putting" /\ doing'[h].key = keysDrawn + 1
      /\ keysDrawn' = keysDrawn + 1 /\ keysDrawn \in Nat
  BY DEF Begins, Goes, FilesInv, FilesTypeOK
<1>3. \A g \in Request \ {h} : Working(g) => Keyed(g) \in Nat /\ Keyed(g) <= keysDrawn
  BY Work DEF FilesInv, KeysOwned, Key
<1>4. \A r \in row : r.key \in Nat /\ r.key <= keysDrawn
  BY DEF FilesInv, RowsDrawn, FilesTypeOK, Row, Key
<1>5. KeysOwned'
  <2> SUFFICES ASSUME NEW g \in Request, Working(g)'
               PROVE  /\ Keyed(g)' <= keysDrawn'
                      /\ \A r \in row' : r.key # Keyed(g)'
                      /\ \A f \in Request :
                           Working(f)' /\ Keyed(f)' = Keyed(g)' => f = g
    BY DEF KeysOwned
  <2>1. row' = row
    BY DEF Begins
  <2>2. CASE g = h
    BY <2>1, <2>2, <1>1, <1>2, <1>3, <1>4 DEF Working, Keyed
  <2>3. CASE g # h
    <3>1. Working(g) /\ Keyed(g)' = Keyed(g) /\ Keyed(g) # keysDrawn + 1
      BY <2>3, <1>1, <1>2, <1>3 DEF Working, Keyed
    <3>2. ASSUME NEW f \in Request, Working(f)', Keyed(f)' = Keyed(g)'
          PROVE  f = g
      <4>1. f # h
        BY <3>1, <3>2, <1>2 DEF Keyed
      <4> QED
        BY <4>1, <3>1, <3>2, <1>1 DEF FilesInv, KeysOwned, Working, Keyed
    <3> QED
      BY <3>1, <3>2, <2>1, <2>3, <1>2, <1>3 DEF FilesInv, KeysOwned
  <2> QED
    BY <2>2, <2>3
<1>6. RowsDrawn'
  BY <1>2, <1>4 DEF RowsDrawn, Begins
<1>7. PutWhole' /\ FlushedNew'
  BY <1>1, <1>2 DEF FilesInv, PutWhole, FlushedNew, Readable, Keyed, At,
     SourceKnown, Begins
<1> QED
  BY <1>5, <1>6, <1>7 DEF FilesInv, RowsBacked, NeverHalf, OneSourcePerContent,
     Readable, Begins

\* A flush passes the constraint on digests.
LEMMA FlushKeeps ==
    ASSUME FilesInv, NEW h \in Request, Flushes(h), FilesTypeOK'
    PROVE  FilesInv'
<1>1. Working(h)
  BY AtWork DEF Flushes, At, FilesInv
<1>2. \A g \in Request \ {h} : doing'[g] = doing[g]
  BY DEF Flushes, Stays, Goes, FilesInv, FilesTypeOK
<1>3. /\ doing'[h].at = "flushed" /\ doing'[h].key = doing[h].key
      /\ doing'[h].kind = doing[h].kind /\ Working(h)'
  <2>1. doing'[h] = [doing[h] EXCEPT !.at = "flushed"]
    BY DEF Flushes, Stays, Goes, FilesInv, FilesTypeOK
  <2>2. doing[h] \in Busy
    BY <1>1, Work DEF FilesInv
  <2> QED
    BY <2>1, <2>2 DEF Busy, Working, Rest
<1>4. UNCHANGED <<name, keysDrawn, row, keysLost>> /\ doing[h].at = "read"
  BY DEF Flushes, At
<1>5. KeysOwned' /\ RowsDrawn'
  BY <1>1, <1>2, <1>3, <1>4 DEF FilesInv, KeysOwned, RowsDrawn, Working, Keyed
<1>6. PutWhole'
  BY <1>2, <1>3, <1>4 DEF FilesInv, PutWhole, Readable, Keyed
<1>7. FlushedNew'
  <2> SUFFICES ASSUME NEW g \in Request, doing'[g].at = "flushed",
                      doing'[g].kind \in Content
               PROVE  /\ ~SourceKnown(doing'[g].kind)
                      /\ \A f \in Request :
                           doing'[f].at = "flushed" /\ doing'[f].kind = doing'[g].kind
                             => f = g
    BY <1>4 DEF FlushedNew, At, SourceKnown
  <2>1. doing[h].kind \in Content =>
          /\ ~SourceKnown(doing[h].kind)
          /\ \A f \in Request : doing[f].at = "flushed" => doing[f].kind # doing[h].kind
    BY DEF Flushes, SourceNew, SourceFree, At
  <2>2. CASE g = h
    BY <2>1, <2>2, <1>2, <1>3
  <2>3. CASE g # h
    <3>1. doing'[g] = doing[g] /\ ~SourceKnown(doing[g].kind)
      BY <2>3, <1>2 DEF FilesInv, FlushedNew, At
    <3>2. doing[g].kind # doing[h].kind
      BY <2>1, <3>1
    <3> QED
      BY <3>1, <3>2, <1>2, <1>3 DEF FilesInv, FlushedNew, At
  <2> QED
    BY <2>2, <2>3
<1> QED
  BY <1>4, <1>5, <1>6, <1>7 DEF FilesInv, RowsBacked, NeverHalf,
     OneSourcePerContent, Readable

-----------------------------------------------------------------------------
\* The empty stores satisfy the invariant.
LEMMA FilesInitInv == FilesInit => FilesInv
<1> SUFFICES ASSUME FilesInit PROVE FilesInv
  OBVIOUS
<1>1. FilesTypeOK
  BY KeysOK DEF FilesInit, FilesTypeOK, Bytes
<1>2. \A h \in Request : doing[h] = Rest /\ doing[h].at = "rest"
  BY DEF FilesInit, Rest
<1> QED
  BY <1>1, <1>2 DEF FilesInit, FilesInv, KeysOwned, RowsDrawn, PutWhole, FlushedNew,
     RowsBacked, NeverHalf, OneSourcePerContent, Working, At

\* Every step keeps it.
LEMMA FilesNextInv == FilesInv /\ [FilesNext]_filesVars => FilesInv'
<1> SUFFICES ASSUME FilesInv, [FilesNext]_filesVars PROVE FilesInv'
  OBVIOUS
<1>1. CASE UNCHANGED filesVars
  BY <1>1
     DEF filesVars, FilesInv, FilesTypeOK, KeysOwned, RowsDrawn, PutWhole, FlushedNew,
     RowsBacked, NeverHalf, OneSourcePerContent, Working, At, Keyed, Readable,
     SourceKnown
<1>2. ASSUME NEW h \in Request, RequestSteps(h) PROVE FilesInv'
  <2>1. FilesTypeOK /\ FilesTypeOK'
    BY <1>2, FilesTypeStep DEF FilesInv
  <2>2. CASE Begins(h)
    BY <2>1, <2>2, BeginsKeeps
  <2>3. CASE Existing(h)
    BY <2>3, <1>1 DEF Existing
  <2>4. CASE PutOpens(h)
    BY <2>1, <2>4, AtWork, MoveKeeps DEF PutOpens, OpensTemp, At
  <2>5. CASE PutReplaces(h)
    <3>1. Working(h) /\ Keyed(h) \in Key
      BY <2>1, <2>5, AtWork, Work DEF PutReplaces, At
    <3>2. name'[Keyed(h)] = "whole"
      BY <2>1, <2>5, <3>1 DEF PutReplaces, FilesTypeOK
    <3> QED
      BY <2>1, <2>5, <3>1, <3>2, MoveKeeps DEF PutReplaces
  <2>6. CASE PutFails(h)
    BY <2>1, <2>6, AtWork, EndKeeps DEF PutFails, At
  <2>7. CASE PutObject(h)
    <3>1. Working(h) /\ Keyed(h) \in Key
      BY <2>1, <2>7, AtWork, Work DEF PutObject, At
    <3>2. name'[Keyed(h)] = "whole"
      BY <2>1, <2>7, <3>1 DEF PutObject, FilesTypeOK
    <3> QED
      BY <2>1, <2>7, <3>1, <3>2, MoveKeeps DEF PutObject
  <2>8. CASE PutObjectFails(h)
    BY <2>1, <2>8, AtWork, EndKeeps DEF PutObjectFails, At
  <2>9. CASE ReadsBack(h)
    <3>1. name'[Keyed(h)] = "whole"
      BY <2>9 DEF ReadsBack, At, FilesInv, PutWhole, Readable
    <3> QED
      BY <2>1, <2>9, <3>1, AtWork, MoveKeeps DEF ReadsBack, At
  <2>10. CASE Flushes(h)
    BY <2>1, <2>10, FlushKeeps
  <2>11. CASE FailsEarly(h)
    BY <2>1, <2>11, AtWork, EndKeeps DEF FailsEarly
  <2>12. CASE Commits(h)
    BY <2>1, <2>12, CommitKeeps DEF Commits
  <2>13. CASE CommitFails(h)
    BY <2>1, <2>13, AtWork, EndKeeps DEF CommitFails, RolledBack, CleansUp, At
  <2>14. CASE CommitUnanswered(h)
    BY <2>1, <2>14, CommitKeeps DEF CommitUnanswered
  <2>15. CASE RequestDies(h)
    BY <2>1, <2>15, EndKeeps DEF RequestDies, Working
  <2> QED
    BY <1>2, <2>2, <2>3, <2>4, <2>5, <2>6, <2>7, <2>8, <2>9, <2>10, <2>11,
       <2>12, <2>13, <2>14, <2>15 DEF RequestSteps
<1> QED
  BY <1>1, <1>2 DEF FilesNext, RequestSteps

\* The inductive invariant holds in every reachable state.
LEMMA FilesInvariance == FilesSpec => []FilesInv
  BY FilesInitInv, FilesNextInv, PTL DEF FilesSpec

\* The state is well formed.
THEOREM FilesTypeCorrect == FilesSpec => []FilesTypeOK
<1>1. FilesInv => FilesTypeOK
  BY DEF FilesInv
<1> QED
  BY <1>1, FilesInvariance, PTL

\* Every committed row keeps its bytes, unless its own request was told that
\* the commit failed: no request ever deletes the bytes of another's row.
THEOREM BlobsBackRows == FilesSpec => []RowsBacked
<1>1. FilesInv => RowsBacked
  BY DEF FilesInv
<1> QED
  BY <1>1, FilesInvariance, PTL

\* No reader of either storage finds a file half written.
THEOREM NoHalfFile == FilesSpec => []NeverHalf
<1>1. FilesInv => NeverHalf
  BY DEF FilesInv
<1> QED
  BY <1>1, FilesInvariance, PTL

\* However uploads of one content overlap, one source comes of them.
THEOREM SourcesAreUnique == FilesSpec => []OneSourcePerContent
<1>1. FilesInv => OneSourcePerContent
  BY DEF FilesInv
<1> QED
  BY <1>1, FilesInvariance, PTL
==============================================================================
