-------------------------- MODULE IntegrationProofs --------------------------
(***************************************************************************)
(* Proofs about the draft capability and the client it calls ORKIO with:    *)
(* IntegrationExecution, for every set of threads and bodies and every      *)
(* bound, and OrkioClient, for any callers, any setting that Settings       *)
(* accepts and any bound.                                                   *)
(*                                                                          *)
(* IntegrationExecution.  None of its properties is inductive as it stands. *)
(* What carries them is that a thread past the row carries the row's own    *)
(* digest (ThreadInv), that its token is one of the acquisitions so far and *)
(* nobody else's, and that only a row in "calling" has an owner (RowInv).   *)
(*                                                                          *)
(* OrkioClient.  OverrunBounded needs an account of the time: at attempt a, *)
(* the ticks spent and those the phase or the pause has left never exceed   *)
(* the Budget of the timeouts and pauses up to there and one more timeout   *)
(* for each piece, and the budget exceeds the least lease by no more than   *)
(* Uncounted (BudgetCovered).  OpenAdmitsNone needs no strengthening: while *)
(* the breaker is open every late failure takes one call out of flight.     *)
(***************************************************************************)
EXTENDS IntegrationExecution, OrkioClient, FiniteSetTheorems, TLAPS

-----------------------------------------------------------------------------
(* IntegrationExecution.                                                    *)

\* The row: NULL owner and NULL lease go together and only "calling" has them
\* set; before the row is elected there is no draft and no version.
RowInv ==
    /\ ledger.owner <= ledger.attempts
    /\ ledger.status = "calling" <=> ledger.owner # 0
    /\ ledger.lease = "none" <=> ledger.owner = 0
    /\ ledger.status = "completed" <=> ledger.response # 0
    /\ ledger.status = "absent" <=> draft.status = "absent"
    /\ ledger.status = "absent" => draft.current = 0
    /\ ledger.status # "absent" => ledger.sha \in Digest

\* The threads: a request is digested before the row is looked for; past the
\* row the digest is the row's; past the acquisition the token is one of the
\* row's attempts, and no two threads hold the same.
ThreadInv ==
    \A h \in Handler :
        /\ pc[h] # "idle" => digest[h] \in Digest
        /\ pc[h] \in Holding \cup {"lease"} =>
             ledger.status # "absent" /\ digest[h] = ledger.sha
        /\ pc[h] \in Holding =>
             /\ 0 < token[h] /\ token[h] <= ledger.attempts
             /\ \A g \in Handler :
                  pc[g] \in Holding /\ token[g] = token[h] => g = h

\* The inductive invariant of the key.
IInv ==
    /\ TypeOK
    /\ RowInv
    /\ ThreadInv
    /\ CompletedIffVersion
    /\ VersionsMatchCurrent
    /\ OneStableAnswer

-----------------------------------------------------------------------------
\* A thread that leaves and changes nothing else keeps the invariant: every
\* error exit of create_draft.
LEMMA FailKeepsInv ==
    ASSUME IInv, NEW h \in Handler, Fail(h)
    PROVE  IInv'
<1>1. TypeOK'
  BY ConstantsOK DEF IInv, TypeOK, Fail, Leave, Goto, shared, history, Step, Holding
<1>2. RowInv' /\ CompletedIffVersion' /\ VersionsMatchCurrent' /\ OneStableAnswer'
  BY DEF IInv, RowInv, CompletedIffVersion, VersionsMatchCurrent, OneStableAnswer,
         Fail, shared, history
<1>3. ThreadInv'
  BY DEF IInv, TypeOK, ThreadInv, Fail, Leave, Goto, shared, history, Holding
<1>4. QED
  BY <1>1, <1>2, <1>3 DEF IInv

\* A thread that replays the stored response answers with it: its digest is
\* the row's.
LEMMA ReplayKeepsInv ==
    ASSUME IInv, NEW h \in Handler, ReplayStored(h),
           digest[h] = ledger.sha
    PROVE  IInv'
<1>1. digest[h] \in Digest /\ ledger.response \in Attempt
  BY DEF IInv, TypeOK, Row, RowInv, ReplayStored, Attempt
<1>2. TypeOK'
  BY <1>1, ConstantsOK
     DEF IInv, TypeOK, ReplayStored, Leave, Goto, shared, Step, Holding, Digest
<1>3. RowInv' /\ CompletedIffVersion' /\ VersionsMatchCurrent'
  BY DEF IInv, RowInv, CompletedIffVersion, VersionsMatchCurrent, ReplayStored, shared
<1>4. ThreadInv'
  BY DEF IInv, TypeOK, ThreadInv, ReplayStored, Leave, Goto, shared, Holding
<1>5. OneStableAnswer'
  BY DEF IInv, OneStableAnswer, ReplayStored, shared
<1>6. QED
  BY <1>2, <1>3, <1>4, <1>5 DEF IInv

\* A thread that goes on without touching a row keeps what does not speak of
\* the threads.
LEMMA SharedKept ==
    ASSUME IInv, UNCHANGED <<shared, history>>
    PROVE  RowInv' /\ CompletedIffVersion' /\ VersionsMatchCurrent' /\ OneStableAnswer'
BY DEF IInv, RowInv, CompletedIffVersion, VersionsMatchCurrent, OneStableAnswer,
       shared, history

\* No row, no thread at work.
THEOREM InitInv == Init => IInv
<1> SUFFICES ASSUME Init PROVE IInv
  OBVIOUS
<1>1. TypeOK
  BY ConstantsOK DEF Init, TypeOK, Row, DraftRow, AbsentRow, Step, Open, Terminal
<1>2. RowInv /\ ThreadInv
  BY DEF Init, RowInv, ThreadInv, AbsentRow, Holding
<1>3. CompletedIffVersion /\ VersionsMatchCurrent /\ OneStableAnswer
  BY DEF Init, CompletedIffVersion, VersionsMatchCurrent, OneStableAnswer, AbsentRow
<1>4. QED
  BY <1>1, <1>2, <1>3 DEF IInv

-----------------------------------------------------------------------------
\* A thread that takes a step towards the lease without touching a row.
LEMMA ApproachKeepsInv ==
    ASSUME IInv, NEW h \in Handler,
           \/ \E b \in Body : Receive(h, b)
           \/ LookupMisses(h) \/ RowOpen(h)
    PROVE  IInv'
<1>1. UNCHANGED <<shared, history>>
  BY DEF Receive, LookupMisses, RowOpen
<1>2. TypeOK'
  BY ConstantsOK DEF IInv, TypeOK, Receive, LookupMisses, RowOpen, Goto,
                     shared, history, Step, Holding, Digest
<1>3. ThreadInv'
  BY DEF IInv, TypeOK, ThreadInv, Receive, LookupMisses, RowOpen, SeesRow,
         SameRequest, Goto, shared, history, Holding, Digest
<1>4. QED
  BY <1>1, <1>2, <1>3, SharedKept DEF IInv

\* A thread that holds a token and goes on without touching the row of the
\* key: it may write the draft's status, which no part of the invariant reads
\* beyond its being there.
LEMMA HoldingKeepsInv ==
    ASSUME IInv, NEW h \in Handler,
           \/ LeaseConfirmed(h) \/ MarkCalling(h)
           \/ OrkioSucceeds(h) \/ OrkioFails(h)
    PROVE  IInv'
<1> USE DEF LeaseConfirmed, MarkCalling, OrkioSucceeds, OrkioFails
<1>1. pc[h] \in Holding /\ UNCHANGED <<project, ledger, versions, digest, token, history>>
  BY DEF Holding, shared
<1>2. ledger.status # "absent" /\ draft.status # "absent"
  BY <1>1 DEF IInv, ThreadInv, RowInv
<1>3. /\ draft' \in DraftRow
      /\ draft'.current = draft.current
      /\ draft'.status # "absent"
  BY <1>2 DEF IInv, TypeOK, DraftRow, shared, Open
<1>4. TypeOK'
  BY <1>1, <1>3 DEF IInv, TypeOK, Goto, shared, history, Step, Holding, Open
<1>5. RowInv'
  BY <1>1, <1>2, <1>3 DEF IInv, RowInv
<1>6. ThreadInv'
  BY <1>1 DEF IInv, TypeOK, ThreadInv, Goto, Holding
<1>7. CompletedIffVersion' /\ VersionsMatchCurrent' /\ OneStableAnswer'
  BY <1>1, <1>3 DEF IInv, CompletedIffVersion, VersionsMatchCurrent, OneStableAnswer,
                    history
<1>8. QED
  BY <1>4, <1>5, <1>6, <1>7 DEF IInv

\* The row is elected: no other thread can be past it.
LEMMA CreateKeepsInv ==
    ASSUME IInv, NEW h \in Handler, Create(h)
    PROVE  IInv'
<1> USE DEF Create, NewRow, AbsentRow
<1>1. digest[h] \in Digest
  BY DEF IInv, ThreadInv
<1>2. ledger' = [status |-> "contextualized", sha |-> digest[h], owner |-> 0,
                 lease |-> "none", attempts |-> 0, response |-> 0]
  OBVIOUS
<1>3. TypeOK'
  <2>1. ledger' \in Row /\ draft' \in DraftRow
    <3>1. 0 \in 0 .. MaxAttempts /\ 0 \in 0 .. MaxVersion
      BY ConstantsOK
    <3>2. QED
      BY <1>1, <1>2, <3>1 DEF Row, DraftRow, Open
  <2>2. QED
    BY <2>1 DEF IInv, TypeOK, Goto, history, Step, Holding, Open
<1>4. RowInv'
  BY <1>1, <1>2 DEF IInv, RowInv
<1>5. ThreadInv'
  BY <1>2 DEF IInv, TypeOK, ThreadInv, Goto, Holding
<1>6. CompletedIffVersion' /\ OneStableAnswer'
  BY <1>2 DEF IInv, CompletedIffVersion, OneStableAnswer, history
<1>7. VersionsMatchCurrent'
  BY DEF IInv, RowInv, VersionsMatchCurrent
<1>8. QED
  BY <1>3, <1>4, <1>5, <1>6, <1>7 DEF IInv

\* An acquisition takes the next token: nobody holds it.
LEMMA AcquireKeepsInv ==
    ASSUME IInv, NEW h \in Handler, AcquireLease(h)
    PROVE  IInv'
<1> DEFINE mine == ledger.attempts + 1
<1>1. /\ mine \in 1 .. MaxAttempts /\ mine \in 0 .. MaxAttempts
      /\ ledger.attempts \in Nat
      /\ ledger \in Row
  BY ConstantsOK DEF IInv, TypeOK, Row, AcquireLease
<1>2. /\ ledger' = [ledger EXCEPT !.status = "calling", !.owner = mine,
                                  !.lease = "live", !.attempts = mine]
      /\ token' = [token EXCEPT ![h] = mine]
      /\ pc' = [pc EXCEPT ![h] = "reload"]
      /\ ledger.status \in Open
      /\ pc[h] = "lease"
      /\ UNCHANGED <<project, draft, versions, cognitive, digest, inTime,
                     answered, lapsed>>
  BY DEF AcquireLease, LeaseFree, Goto, history
<1>3. ledger.attempts < mine
  BY <1>1
<1> HIDE DEF mine
<1>4. /\ ledger'.status = "calling" /\ ledger'.owner = mine
      /\ ledger'.attempts = mine /\ ledger'.lease = "live"
      /\ ledger'.response = ledger.response /\ ledger'.sha = ledger.sha
      /\ ledger' \in Row
  BY <1>1, <1>2 DEF Row, Open
<1>5. TypeOK'
  <2>1. token' \in [Handler -> 0 .. MaxAttempts]
    BY <1>1, <1>2 DEF IInv, TypeOK
  <2>2. QED
    BY <1>2, <1>4, <2>1 DEF IInv, TypeOK, Step, Holding
<1>6. RowInv'
  <2>1. ledger.response = 0 /\ ledger.sha \in Digest /\ draft.status # "absent"
    BY <1>2 DEF IInv, RowInv, Open
  <2>2. QED
    BY <1>1, <1>2, <1>4, <2>1 DEF RowInv
<1>7. ThreadInv'
  <2>1. \A f \in Handler : pc[f] \in Holding => token[f] < mine /\ token[f] \in Nat
    BY <1>1, <1>3 DEF IInv, TypeOK, ThreadInv
  <2>2. \A f \in Handler : pc'[f] \in Holding => f = h \/ pc[f] \in Holding
    BY <1>2 DEF IInv, TypeOK
  <2>3. \A f \in Handler : token'[f] = IF f = h THEN mine ELSE token[f]
    BY <1>2 DEF IInv, TypeOK
  <2>4. ASSUME NEW g \in Handler
        PROVE  /\ pc'[g] # "idle" => digest'[g] \in Digest
               /\ pc'[g] \in Holding \cup {"lease"} =>
                    ledger'.status # "absent" /\ digest'[g] = ledger'.sha
    BY <1>2, <1>4 DEF IInv, TypeOK, ThreadInv, Holding
  <2>5. ASSUME NEW g \in Handler, pc'[g] \in Holding
        PROVE  0 < token'[g] /\ token'[g] <= ledger'.attempts
    BY <1>1, <1>3, <1>4, <2>1, <2>2, <2>3, <2>5 DEF IInv, ThreadInv
  <2>6. ASSUME NEW g \in Handler, pc'[g] \in Holding,
               NEW f \in Handler, pc'[f] \in Holding, token'[f] = token'[g]
        PROVE  f = g
    BY <1>1, <2>1, <2>2, <2>3, <2>6 DEF IInv, ThreadInv
  <2>7. QED
    BY <2>4, <2>5, <2>6 DEF ThreadInv
<1>8. CompletedIffVersion' /\ VersionsMatchCurrent' /\ OneStableAnswer'
  BY <1>2, <1>4 DEF IInv, CompletedIffVersion, VersionsMatchCurrent,
                    OneStableAnswer, Open
<1>9. QED
  BY <1>5, <1>6, <1>7, <1>8 DEF IInv

\* A row released by its owner, whatever the outcome, leaves the other threads
\* with their tokens and the leaving one with none.
LEMMA ReleaseKeepsThreads ==
    ASSUME IInv, NEW h \in Handler, Leave(h),
           ledger'.attempts = ledger.attempts, ledger'.sha = ledger.sha,
           ledger'.status # "absent"
    PROVE  ThreadInv'
<1>1. \A f \in Handler : f # h => /\ pc'[f] = pc[f] /\ digest'[f] = digest[f]
                                  /\ token'[f] = token[f]
  BY DEF IInv, TypeOK, Leave, Goto
<1>2. pc'[h] = "idle"
  BY DEF IInv, TypeOK, Leave, Goto
<1>3. QED
  BY <1>1, <1>2 DEF IInv, ThreadInv, Holding

\* fail_execution_if_owner: the row is its owner's.
LEMMA RecordFailureKeepsInv ==
    ASSUME IInv, NEW h \in Handler, RecordFailure(h)
    PROVE  IInv'
<1>1. /\ Leave(h) /\ ledger.status = "calling"
      /\ draft' = [draft EXCEPT !.status = "failed"]
      /\ cognitive' = "failed"
      /\ UNCHANGED <<project, versions, answered, lapsed>>
  BY DEF RecordFailure, OwnsRow, history
<1>2. ledger \in Row /\ draft \in DraftRow /\ ledger.response = 0 /\ 0 \in 0 .. MaxAttempts
  BY <1>1, ConstantsOK DEF IInv, TypeOK, RowInv
<1>3. /\ ledger' = [ledger EXCEPT !.status = "failed", !.response = 0,
                                  !.owner = 0, !.lease = "none"]
      /\ ledger' \in Row
  BY <1>2 DEF RecordFailure, Released, Row, Terminal
<1>4. /\ ledger'.status = "failed" /\ ledger'.response = 0 /\ ledger'.owner = 0
      /\ ledger'.lease = "none" /\ ledger'.attempts = ledger.attempts
      /\ ledger'.sha = ledger.sha
  BY <1>2, <1>3 DEF Row
<1>5. /\ draft' \in DraftRow /\ draft'.status = "failed" /\ draft'.current = draft.current
  BY <1>1, <1>2 DEF DraftRow, Terminal
<1>6. TypeOK'
  BY <1>1, <1>3, <1>5, ConstantsOK DEF IInv, TypeOK, Leave, Goto, Step, Terminal
<1>7. RowInv'
  BY <1>1, <1>2, <1>4, <1>5 DEF IInv, RowInv, Row
<1>8. ThreadInv'
  BY <1>1, <1>4, ReleaseKeepsThreads
<1>9. CompletedIffVersion' /\ VersionsMatchCurrent' /\ OneStableAnswer'
  BY <1>1, <1>4, <1>5
     DEF IInv, CompletedIffVersion, VersionsMatchCurrent, OneStableAnswer
<1>10. QED
  BY <1>6, <1>7, <1>8, <1>9 DEF IInv

\* The first version of a draft can only be added to a draft without versions.
LEMMA FirstVersion ==
    ASSUME TypeOK, VersionsMatchCurrent, ~VersionTaken(1)
    PROVE  draft.current = 0 /\ versions = {}
<1>1. draft.current \in Nat
  BY DEF TypeOK, DraftRow
<1>2. 1 \notin 1 .. draft.current
  BY DEF VersionsMatchCurrent, VersionTaken
<1>3. draft.current = 0
  BY <1>1, <1>2
<1>4. QED
  BY <1>3 DEF VersionsMatchCurrent

\* The commit of version, draft and row.
LEMMA CompleteKeepsInv ==
    ASSUME IInv, NEW h \in Handler, Complete(h)
    PROVE  IInv'
<1> DEFINE t == token[h]
<1>1. /\ Leave(h) /\ ledger.status = "calling" /\ pc[h] = "finishing"
      /\ draft' = [status |-> "criticized", current |-> 1]
      /\ versions' = versions \cup {[version |-> 1, by |-> t]}
      /\ cognitive' = "completed"
      /\ answered' \subseteq answered \cup {[body |-> digest[h].body, response |-> t]}
      /\ UNCHANGED <<project, lapsed>>
  BY DEF Complete, OwnsRow
<1>2. draft.current = 0 /\ versions = {}
  BY FirstVersion DEF Complete, IInv
<1>3. /\ ledger \in Row /\ 0 \in 0 .. MaxAttempts
      /\ t \in Attempt /\ t \in 0 .. MaxAttempts /\ t # 0
      /\ digest[h] = ledger.sha /\ digest[h] \in Digest
      /\ ledger.attempts \in Nat
  BY <1>1, ConstantsOK DEF IInv, TypeOK, Row, ThreadInv, Holding, Attempt
<1> HIDE DEF t
<1>4. /\ ledger' = [ledger EXCEPT !.status = "completed", !.response = t,
                                  !.owner = 0, !.lease = "none"]
      /\ ledger' \in Row
  BY <1>3 DEF Complete, Released, Row, Terminal, t
<1>5. /\ ledger'.status = "completed" /\ ledger'.response = t /\ ledger'.owner = 0
      /\ ledger'.lease = "none" /\ ledger'.attempts = ledger.attempts
      /\ ledger'.sha = ledger.sha
  BY <1>3, <1>4 DEF Row
<1>6. versions' = {[version |-> 1, by |-> t]}
  BY <1>1, <1>2
<1>7. answered' \subseteq {[body |-> ledger.sha.body, response |-> t]}
  BY <1>1, <1>3 DEF IInv, OneStableAnswer
<1>8. TypeOK'
  <2>1. /\ draft' \in DraftRow
        /\ versions' \subseteq Version
        /\ answered' \subseteq [body : Body, response : Attempt]
    BY <1>1, <1>3, <1>6, <1>7, ConstantsOK DEF DraftRow, Version, Digest
  <2>2. QED
    BY <1>1, <1>4, <2>1, ConstantsOK DEF IInv, TypeOK, Leave, Goto, Step, Terminal
<1>9. RowInv'
  BY <1>1, <1>3, <1>5 DEF IInv, RowInv
<1>10. ThreadInv'
  BY <1>1, <1>5, ReleaseKeepsThreads
<1>11. CompletedIffVersion'
  BY <1>3, <1>5, <1>6 DEF CompletedIffVersion, Person
<1>12. VersionsMatchCurrent'
  <2>1. {v.version : v \in versions'} = {1}
    BY <1>6
  <2>2. draft'.current = 1 /\ 1 .. 1 = {1}
    BY <1>1
  <2>3. \A v, w \in versions' : v = w
    BY <1>6
  <2>4. QED
    BY <2>1, <2>2, <2>3 DEF VersionsMatchCurrent
<1>13. OneStableAnswer'
  BY <1>5, <1>7 DEF OneStableAnswer
<1>14. QED
  BY <1>8, <1>9, <1>10, <1>11, <1>12, <1>13 DEF IInv

\* lease_expires_at passes.
LEMMA LapseKeepsInv ==
    ASSUME IInv, LeaseLapses
    PROVE  IInv'
<1>1. /\ ledger' = [ledger EXCEPT !.lease = "lapsed"]
      /\ lapsed' = lapsed \cup {ledger.owner}
      /\ UNCHANGED <<project, draft, versions, cognitive, pc, digest, token,
                     inTime, answered>>
  BY DEF LeaseLapses, local
<1>2. ledger \in Row /\ ledger.owner \in Attempt
  BY DEF IInv, TypeOK, Row, RowInv, LeaseLapses, Attempt
<1>3. /\ ledger' \in Row /\ ledger'.lease = "lapsed"
      /\ ledger'.status = ledger.status /\ ledger'.sha = ledger.sha
      /\ ledger'.owner = ledger.owner /\ ledger'.attempts = ledger.attempts
      /\ ledger'.response = ledger.response
  BY <1>1, <1>2 DEF Row
<1>4. TypeOK'
  BY <1>1, <1>2, <1>3 DEF IInv, TypeOK
<1>5. RowInv'
  BY <1>1, <1>3 DEF IInv, RowInv, LeaseLapses
<1>6. ThreadInv'
  BY <1>1, <1>3 DEF IInv, ThreadInv
<1>7. CompletedIffVersion' /\ VersionsMatchCurrent' /\ OneStableAnswer'
  BY <1>1, <1>3 DEF IInv, CompletedIffVersion, VersionsMatchCurrent, OneStableAnswer
<1>8. QED
  BY <1>4, <1>5, <1>6, <1>7 DEF IInv

\* add_version inserts the next version.
LEMMA EditKeepsInv ==
    ASSUME IInv, HumanEdit
    PROVE  IInv'
<1> DEFINE n == draft.current + 1
           new == [version |-> n, by |-> Person]
<1>1. /\ draft.status # "absent" /\ ~VersionTaken(n)
      /\ draft' = [status |-> "criticized", current |-> n]
      /\ versions' = versions \cup {new}
      /\ UNCHANGED <<project, ledger, cognitive, pc, digest, token, inTime,
                     answered, lapsed>>
  BY DEF HumanEdit, local, history
<1>2. /\ draft.current \in Nat /\ n = draft.current + 1
      /\ n \in 1 .. MaxVersion /\ n \in 0 .. MaxVersion /\ 0 \in 0 .. MaxAttempts
  BY ConstantsOK DEF IInv, TypeOK, DraftRow, HumanEdit
<1> HIDE DEF n
<1>3. TypeOK'
  <2>1. draft' \in DraftRow /\ versions' \subseteq Version
    BY <1>1, <1>2 DEF IInv, TypeOK, DraftRow, Version, Person
  <2>2. QED
    BY <1>1, <2>1 DEF IInv, TypeOK
<1>4. RowInv' /\ ThreadInv'
  BY <1>1 DEF IInv, RowInv, ThreadInv
<1>5. CompletedIffVersion' /\ OneStableAnswer'
  BY <1>1 DEF IInv, CompletedIffVersion, OneStableAnswer, Person
<1>6. VersionsMatchCurrent'
  <2>1. {v.version : v \in versions'} = {v.version : v \in versions} \cup {n}
    <3>1. new.version = n
      OBVIOUS
    <3>2. versions' = versions \cup {new}
      BY <1>1
    <3> HIDE DEF new
    <3>3. QED
      BY <3>1, <3>2
  <2>2. {v.version : v \in versions} = 1 .. draft.current
    BY DEF IInv, VersionsMatchCurrent
  <2>3. (1 .. draft.current) \cup {n} = 1 .. n
    BY <1>2
  <2>4. \A v \in versions : v.version # n
    BY <1>1 DEF VersionTaken
  <2>5. \A v, w \in versions' : v.version = w.version => v = w
    BY <1>1, <2>4 DEF IInv, VersionsMatchCurrent
  <2>6. QED
    BY <1>1, <2>1, <2>2, <2>3, <2>5 DEF VersionsMatchCurrent
<1>7. QED
  BY <1>3, <1>4, <1>5, <1>6 DEF IInv

\* Another writer raises context_version, or archives.
LEMMA ContextKeepsInv ==
    ASSUME IInv, ContextMoves
    PROVE  IInv'
<1>1. project' \in [context : 1 .. MaxContext, archived : BOOLEAN]
  <2>1. PICK c \in 2 .. project.context + 1, archived \in BOOLEAN :
          c <= MaxContext /\ project' = [context |-> c, archived |-> archived]
    BY DEF ContextMoves
  <2>2. c \in 1 .. MaxContext
    BY <2>1, ConstantsOK DEF IInv, TypeOK
  <2>3. QED
    BY <2>1, <2>2, Zenon
<1>2. UNCHANGED <<ledger, draft, versions, cognitive, pc, digest, token,
                  inTime, answered, lapsed>>
  BY DEF ContextMoves, local, history
<1>3. QED
  BY <1>1, <1>2 DEF IInv, TypeOK, RowInv, ThreadInv, CompletedIffVersion,
                    VersionsMatchCurrent, OneStableAnswer

-----------------------------------------------------------------------------
\* Every step keeps the invariant: one case per action of Next.
THEOREM NextInv == IInv /\ [Next]_vars => IInv'
<1> SUFFICES ASSUME IInv, [Next]_vars PROVE IInv'
  OBVIOUS
<1>1. ASSUME NEW h \in Handler, Capability(h) PROVE IInv'
  <2>1. ASSUME SeesRow(h), SameRequest(h), ReplayStored(h) PROVE IInv'
    BY <2>1, ReplayKeepsInv DEF SameRequest
  <2>2. ASSUME pc[h] \in Holding \cup {"lease"}, ReplayStored(h) PROVE IInv'
    BY <2>2, ReplayKeepsInv DEF IInv, ThreadInv
  <2>3. ASSUME Fail(h) PROVE IInv'
    BY <2>3, FailKeepsInv
  <2>4. CASE KeyReused(h) \/ RowFailed(h) \/ LeaseRefused(h) \/ LostLease(h)
              \/ CompletionRefused(h) \/ FailureRefused(h)
    BY <2>3, <2>4 DEF KeyReused, RowFailed, LeaseRefused, LostLease,
                      CompletionRefused, FailureRefused
  <2>5. CASE RowCompleted(h)
    BY <2>1, <2>5 DEF RowCompleted
  <2>6. CASE LeaseReplay(h) \/ LostReplay(h)
    BY <2>2, <2>6 DEF LeaseReplay, LostReplay, Holding
  <2>7. CASE LookupMisses(h) \/ RowOpen(h)
    BY <2>7, ApproachKeepsInv
  <2>8. CASE Create(h)
    BY <2>8, CreateKeepsInv
  <2>9. CASE AcquireLease(h)
    BY <2>9, AcquireKeepsInv
  <2>10. CASE LeaseConfirmed(h) \/ MarkCalling(h) \/ OrkioSucceeds(h) \/ OrkioFails(h)
    BY <2>10, HoldingKeepsInv
  <2>11. CASE Complete(h)
    BY <2>11, CompleteKeepsInv
  <2>12. CASE RecordFailure(h)
    BY <2>12, RecordFailureKeepsInv
  <2>13. QED
    BY <1>1, <2>4, <2>5, <2>6, <2>7, <2>8, <2>9, <2>10, <2>11, <2>12 DEF Capability
<1>2. ASSUME NEW h \in Handler, Crash(h) PROVE IInv'
  BY <1>2, FailKeepsInv DEF Crash
<1>3. ASSUME NEW h \in Handler, NEW b \in Body, Receive(h, b) PROVE IInv'
  BY <1>3, ApproachKeepsInv
<1>4. ASSUME UNCHANGED vars PROVE IInv'
  BY <1>4 DEF vars, shared, local, history, IInv, TypeOK, RowInv, ThreadInv,
              CompletedIffVersion, VersionsMatchCurrent, OneStableAnswer
<1>5. QED
  BY <1>1, <1>2, <1>3, <1>4, LapseKeepsInv, EditKeepsInv, ContextKeepsInv
     DEF Next, RefuseArchived

\* The inductive invariant holds in every reachable state.
THEOREM Invariance == Spec => []IInv
BY InitInv, NextInv, PTL DEF Spec

\* The state of the draft-message capability is always well formed.
THEOREM TypeCorrect == Spec => []TypeOK
<1>1. IInv => TypeOK
  BY DEF IInv
<1>2. QED
  BY <1>1, Invariance, PTL

\* One key, one draft: every 200 for the key carries the body the row was
\* elected with and the draft it was completed with.
THEOREM StableAnswer == Spec => []OneStableAnswer
<1>1. IInv => OneStableAnswer
  BY DEF IInv
<1>2. QED
  BY <1>1, Invariance, PTL

\* The row is completed exactly when the AI's version exists, and it is the
\* attempt that completed the row that wrote it.
THEOREM CompletionIsAtomic == Spec => []CompletedIffVersion
<1>1. IInv => CompletedIffVersion
  BY DEF IInv
<1>2. QED
  BY <1>1, Invariance, PTL

\* current_version counts the draft's versions, without a gap or a duplicate.
THEOREM VersionsCounted == Spec => []VersionsMatchCurrent
<1>1. IInv => VersionsMatchCurrent
  BY DEF IInv
<1>2. QED
  BY <1>1, Invariance, PTL

-----------------------------------------------------------------------------
(* One live caller.  It holds when the clocks agree: a takeover then finds  *)
(* a lease that has run out, so the token it replaces is in lapsed.         *)

\* A token in hand is the row's, or its lease has run out.
LeaseInv ==
    /\ ledger.lease = "lapsed" => ledger.owner \in lapsed
    /\ \A h \in Handler :
         pc[h] \in Holding => token[h] = ledger.owner \/ token[h] \in lapsed

\* With one clock, whom a takeover displaces has outlived its lease.
LEMMA AcquireKeepsLeases ==
    ASSUME SkewedClocks = FALSE, IInv, LeaseInv,
           NEW h \in Handler, AcquireLease(h)
    PROVE  LeaseInv'
<1>1. /\ ledger.owner = 0 \/ ledger.lease = "lapsed"
      /\ ledger'.owner = ledger.attempts + 1 /\ ledger'.lease = "live"
      /\ token' = [token EXCEPT ![h] = ledger.attempts + 1]
      /\ pc' = [pc EXCEPT ![h] = "reload"]
      /\ lapsed' = lapsed
  BY DEF AcquireLease, LeaseFree, LooksLapsed, Goto, history, IInv, TypeOK, Row, RowInv
<1>2. ASSUME NEW f \in Handler, pc'[f] \in Holding
      PROVE  token'[f] = ledger'.owner \/ token'[f] \in lapsed'
  <2>1. CASE f = h
    BY <1>1, <2>1 DEF IInv, TypeOK
  <2>2. CASE f # h
    <3>1. pc[f] \in Holding /\ token'[f] = token[f] /\ 0 < token[f]
      BY <1>1, <1>2, <2>2 DEF IInv, TypeOK, ThreadInv
    <3>2. QED
      BY <1>1, <3>1 DEF LeaseInv
  <2>3. QED
    BY <2>1, <2>2
<1>3. QED
  BY <1>1, <1>2 DEF LeaseInv

\* The owner that settles the row is the only thread with its token: the
\* others' tokens have run out.
LEMMA ReleaseKeepsLeases ==
    ASSUME IInv, LeaseInv, NEW h \in Handler, pc[h] \in Holding,
           ledger.owner = token[h], Leave(h),
           ledger'.lease = "none", lapsed' = lapsed
    PROVE  LeaseInv'
<1>1. ASSUME NEW f \in Handler, pc'[f] \in Holding
      PROVE  token'[f] \in lapsed'
  <2>1. f # h /\ pc[f] \in Holding /\ token'[f] = token[f]
    BY <1>1 DEF IInv, TypeOK, Leave, Goto, Holding
  <2>2. token[f] # ledger.owner
    BY <2>1 DEF IInv, ThreadInv
  <2>3. QED
    BY <2>1, <2>2 DEF LeaseInv
<1>2. QED
  BY <1>1 DEF LeaseInv

\* With one clock, every step keeps LeaseInv.
LEMMA LeaseInvNext ==
    ASSUME SkewedClocks = FALSE, IInv, LeaseInv, [Next]_vars
    PROVE  LeaseInv'
<1>1. ASSUME NEW h \in Handler, Leave(h), UNCHANGED <<ledger, lapsed>>
      PROVE  LeaseInv'
    BY <1>1 DEF LeaseInv, IInv, TypeOK, Leave, Goto, Holding
<1>2. ASSUME NEW h \in Handler, Fail(h) PROVE LeaseInv'
  BY <1>1, <1>2 DEF Fail, shared, history
<1>3. ASSUME NEW h \in Handler, ReplayStored(h) PROVE LeaseInv'
  BY <1>1, <1>3 DEF ReplayStored, shared
<1>4. ASSUME NEW h \in Handler, Capability(h) PROVE LeaseInv'
  <2>1. CASE KeyReused(h) \/ RowFailed(h) \/ LeaseRefused(h) \/ LostLease(h)
              \/ CompletionRefused(h) \/ FailureRefused(h)
    BY <1>2, <2>1 DEF KeyReused, RowFailed, LeaseRefused, LostLease,
                      CompletionRefused, FailureRefused
  <2>2. CASE RowCompleted(h) \/ LeaseReplay(h) \/ LostReplay(h)
    BY <1>3, <2>2 DEF RowCompleted, LeaseReplay, LostReplay
  <2>3. CASE LookupMisses(h) \/ RowOpen(h)
    BY <2>3 DEF LookupMisses, RowOpen, Goto, shared, history, Holding,
                LeaseInv, IInv, TypeOK
  <2>4. CASE Create(h)
    <3>1. ledger'.lease = "none" /\ lapsed' = lapsed
      BY <2>4 DEF Create, NewRow, AbsentRow, history
    <3>2. \A f \in Handler : pc'[f] \notin Holding
      BY <2>4 DEF Create, Goto, Holding, IInv, TypeOK, ThreadInv
    <3>3. QED
      BY <3>1, <3>2 DEF LeaseInv
  <2>5. CASE AcquireLease(h)
    BY <2>5, AcquireKeepsLeases
  <2>6. CASE LeaseConfirmed(h) \/ MarkCalling(h) \/ OrkioSucceeds(h) \/ OrkioFails(h)
    <3>1. /\ pc[h] \in Holding
          /\ \A f \in Handler \ {h} : pc'[f] = pc[f]
          /\ UNCHANGED <<ledger, token, lapsed>>
      BY <2>6 DEF LeaseConfirmed, MarkCalling, OrkioSucceeds, OrkioFails, Goto,
                  shared, history, Holding, IInv, TypeOK
    <3>2. QED
      BY <3>1 DEF LeaseInv
  <2>7. CASE Complete(h)
    <3>1. /\ pc[h] \in Holding /\ ledger.owner = token[h] /\ Leave(h)
          /\ ledger'.lease = "none" /\ lapsed' = lapsed
      BY <2>7 DEF Complete, OwnsRow, Released, Holding, IInv, TypeOK, Row
    <3>2. QED
      BY <3>1, ReleaseKeepsLeases
  <2>8. CASE RecordFailure(h)
    <3>1. /\ pc[h] \in Holding /\ ledger.owner = token[h] /\ Leave(h)
          /\ ledger'.lease = "none" /\ lapsed' = lapsed
      BY <2>8 DEF RecordFailure, OwnsRow, Released, Holding, IInv, TypeOK, Row, history
    <3>2. QED
      BY <3>1, ReleaseKeepsLeases
  <2>9. QED
    BY <1>4, <2>1, <2>2, <2>3, <2>4, <2>5, <2>6, <2>7, <2>8 DEF Capability
<1>5. ASSUME NEW h \in Handler, Crash(h) PROVE LeaseInv'
  BY <1>2, <1>5 DEF Crash
<1>6. ASSUME NEW h \in Handler, NEW b \in Body, Receive(h, b) PROVE LeaseInv'
  BY <1>6 DEF Receive, Goto, shared, history, Holding, LeaseInv, IInv, TypeOK
<1>7. ASSUME LeaseLapses PROVE LeaseInv'
  <2>1. /\ ledger'.owner = ledger.owner
        /\ lapsed' = lapsed \cup {ledger.owner}
        /\ UNCHANGED <<pc, token>>
    BY <1>7 DEF LeaseLapses, local, IInv, TypeOK, Row
  <2>2. QED
    BY <2>1 DEF LeaseInv
<1>8. ASSUME HumanEdit \/ ContextMoves \/ UNCHANGED vars PROVE LeaseInv'
  BY <1>8 DEF HumanEdit, ContextMoves, vars, shared, local, history, LeaseInv
<1>9. QED
  BY <1>4, <1>5, <1>6, <1>7, <1>8 DEF Next, RefuseArchived

\* ARCHITECTURE.md:83, "only one live lease owner may call ORKIO": of two
\* threads inside the call, one at least has outlived its lease, provided the
\* application's clock agrees with the database's.
THEOREM LiveCallerUnique ==
    ASSUME SkewedClocks = FALSE
    PROVE  Spec => []OneLiveCaller
<1>1. Init => LeaseInv
  BY DEF Init, LeaseInv, AbsentRow, Holding
<1>2. IInv /\ LeaseInv /\ [Next]_vars => LeaseInv'
  BY LeaseInvNext
<1>3. IInv /\ LeaseInv => OneLiveCaller
  BY DEF IInv, ThreadInv, LeaseInv, OneLiveCaller, Holding
<1>4. QED
  BY <1>1, <1>2, <1>3, Invariance, PTL DEF Spec

-----------------------------------------------------------------------------
(* What a step may do to the row, and the implementation of DraftOutcome.   *)

\* What SettledForever asks of a step.
SettledStep ==
    /\ ledger.status \in Terminal => ledger' = ledger
    /\ ledger.status # "absent" => ledger'.sha = ledger.sha

\* What a step does to the row of the key: nothing; or it elects it; or it
\* moves an open row on, keeping its request and settling nothing; or its owner
\* settles it, once, and answers no one else.
Elects ==
    /\ ledger.status = "absent"
    /\ ledger'.status = "contextualized" /\ ledger'.response = ledger.response
    /\ UNCHANGED answered

MovesOn ==
    /\ ledger.status \in Open /\ ledger'.status = "calling"
    /\ ledger'.sha = ledger.sha /\ ledger'.response = ledger.response
    /\ UNCHANGED answered

SettlesDraft ==
    /\ ledger.status = "calling" /\ ledger'.status = "completed"
    /\ ledger'.sha = ledger.sha /\ ledger'.response \in Attempt
    /\ answered = {}
    /\ answered' \subseteq {[body |-> ledger.sha.body, response |-> ledger'.response]}

SettlesFailure ==
    /\ ledger.status = "calling" /\ ledger'.status = "failed"
    /\ ledger'.sha = ledger.sha
    /\ UNCHANGED answered

Replays ==
    /\ ledger.status = "completed" /\ UNCHANGED ledger
    /\ \E b \in Body : answered' = answered \cup
                           {[body |-> b, response |-> ledger.response]}

\* Every step elects, moves on, settles, replays, or leaves row and answers alone.
LEMMA RowSteps ==
    ASSUME IInv, [Next]_vars
    PROVE  \/ UNCHANGED <<ledger, answered>>
           \/ Elects \/ MovesOn \/ SettlesDraft \/ SettlesFailure \/ Replays
<1> DEFINE Goal == \/ UNCHANGED <<ledger, answered>>
                   \/ Elects \/ MovesOn \/ SettlesDraft \/ SettlesFailure \/ Replays
<1>1. ASSUME NEW h \in Handler, Fail(h) PROVE Goal
  BY <1>1 DEF Fail, shared, history
<1>2. ASSUME NEW h \in Handler, Capability(h) PROVE Goal
  <2>1. CASE KeyReused(h) \/ RowFailed(h) \/ LeaseRefused(h) \/ LostLease(h)
              \/ CompletionRefused(h) \/ FailureRefused(h)
    BY <1>1, <2>1 DEF KeyReused, RowFailed, LeaseRefused, LostLease,
                      CompletionRefused, FailureRefused
  <2>2. CASE RowCompleted(h) \/ LeaseReplay(h) \/ LostReplay(h)
    <3>1. ReplayStored(h) /\ pc[h] # "idle"
      BY <2>2 DEF RowCompleted, SeesRow, LeaseReplay, LostReplay
    <3>2. digest[h].body \in Body
      BY <3>1 DEF IInv, ThreadInv, Digest
    <3>3. Replays
      BY <3>1, <3>2 DEF ReplayStored, Replays, shared
    <3>4. QED
      BY <3>3
  <2>3. CASE \/ LookupMisses(h) \/ RowOpen(h) \/ LeaseConfirmed(h)
             \/ MarkCalling(h) \/ OrkioSucceeds(h) \/ OrkioFails(h)
    BY <2>3 DEF LookupMisses, RowOpen, LeaseConfirmed, MarkCalling,
                OrkioSucceeds, OrkioFails, shared, history
  <2>4. CASE Create(h)
    <3>1. ledger.response = 0
      BY <2>4 DEF Create, IInv, TypeOK, Row, RowInv
    <3>2. Elects
      BY <2>4, <3>1 DEF Create, NewRow, AbsentRow, Elects, history
    <3>3. QED
      BY <3>2
  <2>5. CASE AcquireLease(h)
    <3>1. MovesOn
      BY <2>5 DEF AcquireLease, LeaseFree, MovesOn, history, IInv, TypeOK, Row
    <3>2. QED
      BY <3>1
  <2>6. CASE Complete(h)
    <3>1. /\ ledger.status = "calling" /\ pc[h] = "finishing"
          /\ token[h] \in Attempt /\ digest[h] = ledger.sha
      BY <2>6, ConstantsOK DEF Complete, OwnsRow, IInv, TypeOK, Row, ThreadInv,
                               Holding, Attempt
    <3>2. answered = {}
      BY <3>1 DEF IInv, OneStableAnswer
    <3>3. /\ ledger'.status = "completed" /\ ledger'.response = token[h]
          /\ ledger'.sha = ledger.sha
      BY <2>6 DEF Complete, Released, IInv, TypeOK, Row
    <3>4. SettlesDraft
      BY <2>6, <3>1, <3>2, <3>3 DEF Complete, SettlesDraft
    <3>5. QED
      BY <3>4
  <2>7. CASE RecordFailure(h)
    <3>1. SettlesFailure
      BY <2>7 DEF RecordFailure, OwnsRow, Released, SettlesFailure, IInv, TypeOK,
                  Row, history
    <3>2. QED
      BY <3>1
  <2>8. QED
    BY <1>2, <2>1, <2>2, <2>3, <2>4, <2>5, <2>6, <2>7 DEF Capability
<1>3. ASSUME NEW h \in Handler, Crash(h) PROVE Goal
  BY <1>1, <1>3 DEF Crash
<1>4. ASSUME NEW h \in Handler, NEW b \in Body, Receive(h, b) PROVE Goal
  BY <1>4 DEF Receive, shared, history
<1>5. ASSUME LeaseLapses PROVE Goal
  <2>1. MovesOn
    BY <1>5 DEF LeaseLapses, MovesOn, Open, IInv, TypeOK, Row, RowInv
  <2>2. QED
    BY <2>1
<1>6. ASSUME HumanEdit \/ ContextMoves \/ UNCHANGED vars PROVE Goal
  BY <1>6 DEF HumanEdit, ContextMoves, vars, shared, history
<1>7. QED
  BY <1>2, <1>3, <1>4, <1>5, <1>6 DEF Next, RefuseArchived

\* A settled row never changes again, and an elected row keeps its request:
\* no retry, takeover or late owner touches a terminal execution.
THEOREM SettledIsFinal == Spec => SettledForever
<1>1. IInv /\ [Next]_vars => SettledStep
  <2> SUFFICES ASSUME IInv, [Next]_vars PROVE SettledStep
    OBVIOUS
  <2>1. QED
    BY RowSteps DEF SettledStep, Elects, MovesOn, SettlesDraft, SettlesFailure,
                    Replays, Open, Terminal
<1>2. SettledStep => [SettledStep]_vars
  OBVIOUS
<1>3. [][SettledStep]_vars <=> SettledForever
  BY PTL DEF SettledForever, SettledStep
<1>4. QED
  BY <1>1, <1>3, Invariance, PTL DEF Spec

\* The code's model implements DraftOutcome: the outcome of a key is decided
\* at most once and every 200 delivers the one draft that was decided.
THEOREM Implementation == Spec => ImplementsDraftOutcome
<1>1. Init => Promise!Init
  BY DEF Init, AbsentRow, Promise!Init, Outcome
<1>2. IInv /\ [Next]_vars => [Promise!Next]_(Promise!vars)
  <2> SUFFICES ASSUME IInv, [Next]_vars PROVE [Promise!Next]_(Promise!vars)
    OBVIOUS
  <2>1. CASE UNCHANGED <<ledger, answered>> \/ Elects \/ MovesOn
    BY <2>1 DEF Promise!vars, Outcome, Elects, MovesOn, Open
  <2>2. CASE SettlesDraft
    <3>1. Outcome = 0 /\ Outcome' = ledger'.response
      BY <2>2 DEF SettlesDraft, Outcome
    <3>2. {a.response : a \in answered'} \in {{}, {ledger'.response}}
      BY <2>2 DEF SettlesDraft
    <3>3. ledger'.response \in Attempt
      BY <2>2 DEF SettlesDraft
    <3>4. QED
      BY <3>1, <3>2, <3>3 DEF Promise!Decide, Promise!Next
  <2>3. CASE SettlesFailure
    BY <2>3 DEF SettlesFailure, Outcome, Promise!Next, Promise!Refuse
  <2>4. CASE Replays
    <3>1. Outcome = ledger.response /\ Outcome' = Outcome /\ Outcome \in Attempt
      BY <2>4 DEF Replays, Outcome, IInv, TypeOK, Row, RowInv, Attempt
    <3>2. {a.response : a \in answered'} = {a.response : a \in answered} \cup {Outcome}
      <4>1. PICK b \in Body : answered' = answered \cup
                               {[body |-> b, response |-> ledger.response]}
        BY <2>4 DEF Replays
      <4> DEFINE again == [body |-> b, response |-> ledger.response]
      <4>2. again.response = Outcome
        BY <3>1
      <4>3. answered' = answered \cup {again}
        BY <4>1
      <4> HIDE DEF again
      <4>4. QED
        BY <4>2, <4>3
    <3>3. Promise!Replay
      BY <3>1, <3>2 DEF Promise!Replay
    <3>4. QED
      BY <3>3 DEF Promise!Next
  <2>5. QED
    BY <2>1, <2>2, <2>3, <2>4, RowSteps
<1>3. QED
  BY <1>1, <1>2, Invariance, PTL DEF Spec, ImplementsDraftOutcome, Promise!Spec

-----------------------------------------------------------------------------
(* OrkioClient.                                                             *)

\* The pauses before attempt a.
Pauses(a) == IF a = 0 THEN 0 ELSE IF a = 1 THEN Backoff ELSE 3 * Backoff

\* All the ticks that a call whose requests are of one piece may have used when
\* attempt a is over.
Budget(a) == (IF a = 0 THEN Timeout ELSE IF a = 1 THEN 2 * Timeout
              ELSE 3 * Timeout) + Pauses(a)

\* Posting attempt a, or in the pause before it.
Ahead(c) == IF call[c].at = "posting" THEN call[c].attempt ELSE call[c].attempt + 1

\* The ticks that attempt has still to come.
Due(c)   == IF call[c].at = "posting" THEN call[c].left ELSE call[c].left + Timeout

\* What the pieces of a call may have added.
Extra(c) == Timeout * call[c].pieces

\* No attempt is beyond the last, and the time spent and still due is within
\* the budget and what the pieces added.
InBudget ==
    \A c \in Caller : call[c] # Rest =>
        /\ Ahead(c) < Attempts
        /\ call[c].spent + Due(c) <= Budget(Ahead(c)) + Extra(c)

\* The inductive invariant of the calls.
CallInv == CallTypeOK /\ InBudget /\ OpenAdmitsNone

-----------------------------------------------------------------------------
\* Truncation to whole seconds loses less than a second.
LEMMA Truncation ==
    ASSUME NEW x \in Nat, NEW u \in Nat \ {0}
    PROVE  /\ x \div u \in Nat
           /\ u * (x \div u) \in Nat
           /\ x < u * (x \div u) + u
<1> DEFINE q == x \div u
<1>1. q \in Int /\ x = u * q + (x % u) /\ x % u \in 0 .. (u - 1)
  BY SMT
<1> HIDE DEF q
<1>2. q >= 0
  <2> SUFFICES ASSUME q <= -1 PROVE FALSE
    BY <1>1
  <2>1. u * q <= -u
    BY <1>1, SMT
  <2> QED
    BY <1>1, <2>1
<1>3. u * q \in Nat
  BY <1>1, <1>2, SMT
<1>4. x < u * q + u
  BY <1>1, <1>3
<1> QED
  BY <1>1, <1>2, <1>3, <1>4 DEF q

\* The settings the proofs compute with are natural numbers.
LEMMA Settings ==
    /\ Unit \in Nat \ {0} /\ Timeout \in Nat /\ Backoff \in Nat
    /\ Attempts \in {1, 2, 3} /\ Threshold \in Nat \ {0}
    /\ Cooldown \in Nat /\ Lease \in Int /\ MinimumLease <= Lease
    /\ MaxPieces \in Nat
<1>1. 60 * Unit \in Int /\ 600 * Unit \in Int
  BY SettingsOK
<1>2. Attempts \in {1, 2, 3}
  BY SettingsOK
<1>3. Timeout \in Nat
  BY <1>1, SettingsOK
<1>4. Timeout * Attempts + Backoff * (Attempts - 1) + 10 * Unit \in Nat
  BY <1>2, <1>3, SettingsOK
<1>5. MinimumLease \in Nat
  BY <1>4, Truncation, SettingsOK DEF MinimumLease
<1> QED
  BY <1>1, <1>2, <1>3, <1>5, SettingsOK, BoundOK

\* One timeout more for one piece more.
LEMMA ExtraPiece ==
    ASSUME NEW n \in Nat
    PROVE  /\ Timeout * n \in Nat
           /\ Timeout * (n + 1) = Timeout * n + Timeout
  BY Settings, SMT

\* The lease covers the budget of the last attempt but for what Settings leaves
\* out.
LEMMA BudgetCovered ==
    ASSUME NEW a \in 0 .. 2, a < Attempts
    PROVE  Budget(a) <= Lease + Uncounted
<1> DEFINE window == Timeout * Attempts + Backoff * (Attempts - 1)
           x == window + 10 * Unit
<1>1. x \in Nat
  BY Settings
<1>2. x < MinimumLease + Unit /\ MinimumLease \in Nat
  BY <1>1, Truncation, Settings DEF MinimumLease
<1>3. window + 9 * Unit < Lease
  <2> HIDE DEF window
  <2>1. window \in Nat
    BY Settings DEF window
  <2> QED
    BY <1>2, <2>1, Settings
<1>4. CASE Attempts = 1
  BY <1>3, <1>4, Settings DEF Budget, Pauses, Uncounted
<1>5. CASE Attempts = 2
  BY <1>3, <1>5, Settings DEF Budget, Pauses, Uncounted
<1>6. CASE Attempts = 3
  BY <1>3, <1>6, Settings DEF Budget, Pauses, Uncounted
<1> QED
  BY <1>4, <1>5, <1>6, Settings

-----------------------------------------------------------------------------
\* What the steps of a call come to: it begins, gets on, ends, pauses
\* or resumes.
Enters(c) ==
    /\ call[c] = Rest
    /\ Goes(c, [at |-> "posting", attempt |-> 0, left |-> Timeout,
                spent |-> 0, pieces |-> 0])

\* A request that gets on.
Proceeds(c) ==
    /\ call[c].at = "posting"
    /\ call[c].pieces < MaxPieces
    /\ Goes(c, [call[c] EXCEPT !.left = Timeout, !.pieces = @ + 1])

\* A call that ends, with whatever answer.
Leaves(c) == call[c].at = "posting" /\ Goes(c, Rest)

\* A pause before the next attempt.
Halts(c) ==
    /\ call[c].at = "posting"
    /\ TriesAgain(c)
    /\ Goes(c, [call[c] EXCEPT !.at = "pausing",
                               !.left = Pause(call[c].attempt)])

\* The pause is over.
Resumes(c) ==
    /\ call[c].at = "pausing"
    /\ call[c].left = 0
    /\ Goes(c, [call[c] EXCEPT !.at = "posting", !.attempt = @ + 1,
                               !.left = Timeout])

\* And what becomes of the breaker meanwhile.
Kept    == UNCHANGED <<failures, cooling>>
Counted == CircuitFailure
Cleared == CircuitSuccess

\* Every step of a call is one of these.
LEMMA StepShapes ==
    ASSUME NEW c \in Caller, Steps(c)
    PROVE  \/ Enters(c) /\ ((Kept /\ ~Shut) \/ Cleared)
           \/ Kept /\ UNCHANGED call
           \/ Leaves(c) /\ (Kept \/ Counted \/ Cleared)
           \/ (Proceeds(c) \/ Halts(c) \/ Resumes(c)) /\ Kept
  BY DEF Steps, Begins, Refused, Progresses, Proceeds, Completed, Rejected, TerminalReply, Transient,
     GivesUp, Wakes, Replied, Enters, Leaves, Halts, Resumes, Kept, Counted,
     Cleared, CircuitPasses, CircuitRefuses

-----------------------------------------------------------------------------
\* A call that is not at rest.
LEMMA InCall ==
    ASSUME CallTypeOK, NEW c \in Caller
    PROVE  /\ call[c] # Rest => call[c] \in Busy
           /\ call[c].at \in {"posting", "pausing"} => call[c] # Rest
           /\ call[c] # Rest => call[c].at \in {"posting", "pausing"}
  BY DEF CallTypeOK, Rest, Busy

\* What its pieces may have added, before and after one more.
LEMMA ExtraOfCall ==
    ASSUME NEW c \in Caller, call[c] \in Busy
    PROVE  /\ Extra(c) \in Nat
           /\ Timeout * (call[c].pieces + 1) = Extra(c) + Timeout
<1> DEFINE n == call[c].pieces
<1>1. n \in Nat
  BY Settings DEF Busy
<1> HIDE DEF n
<1>2. Timeout * n \in Nat /\ Timeout * (n + 1) = Timeout * n + Timeout
  BY <1>1, ExtraPiece
<1> QED
  BY <1>2 DEF n, Extra

\* The state stays well formed: a call resumes only while an attempt is left.
LEMMA CallTypeStep ==
    ASSUME CallTypeOK, InBudget, CallNext
    PROVE  CallTypeOK'
<1> USE Settings
<1>1. CASE Tick
  <2>1. cooling' \in 0 .. Cooldown /\ failures' \in Nat
    <3>1. cooling' = IF cooling > 0 THEN cooling - 1 ELSE 0
      BY <1>1 DEF Tick
    <3>2. cooling \in 0 .. Cooldown /\ failures' \in Nat
      BY <1>1 DEF Tick, CallTypeOK
    <3> QED
      BY <3>1, <3>2
  <2>2. ASSUME NEW c \in Caller, call[c] # Rest
        PROVE  [call[c] EXCEPT !.left = @ - 1, !.spent = @ + 1] \in Busy
    <3>1. call[c] \in Busy /\ call[c].left > 0
      BY <2>2, <1>1, InCall DEF Tick
    <3>2. call[c].left - 1 \in Nat /\ call[c].spent + 1 \in Nat
      BY <3>1 DEF Busy
    <3> QED
      BY <3>1, <3>2 DEF Busy
  <2> QED
    BY <1>1, <2>1, <2>2 DEF Tick, CallTypeOK
<1>2. ASSUME NEW c \in Caller, Steps(c)
      PROVE  CallTypeOK'
  <2>1. failures' \in Nat /\ cooling' \in 0 .. Cooldown
    BY <1>2, StepShapes DEF Kept, Counted, Cleared, CircuitSuccess,
       CircuitFailure, CallTypeOK
  <2>2. ASSUME NEW next \in {Rest} \cup Busy, Goes(c, next)
        PROVE  CallTypeOK'
    BY <2>1, <2>2 DEF Goes, CallTypeOK
  <2>3. CASE Enters(c)
    <3>1. [at |-> "posting", attempt |-> 0, left |-> Timeout, spent |-> 0,
           pieces |-> 0] \in Busy
      BY DEF Busy
    <3> QED
      BY <2>2, <2>3, <3>1 DEF Enters
  <2>4. CASE Leaves(c)
    BY <2>2, <2>4 DEF Leaves
  <2>5. CASE Halts(c)
    <3>1. call[c] \in Busy
      BY <2>5, InCall DEF Halts
    <3>2. Pause(call[c].attempt) \in Nat
      BY DEF Pause
    <3>3. [call[c] EXCEPT !.at = "pausing", !.left = Pause(call[c].attempt)] \in Busy
      BY <3>1, <3>2 DEF Busy
    <3> QED
      BY <2>2, <2>5, <3>3 DEF Halts
  <2>6. CASE Resumes(c)
    <3>1. call[c] \in Busy /\ call[c].at = "pausing" /\ call[c] # Rest
      BY <2>6, InCall DEF Resumes
    <3>2. call[c].attempt + 1 \in 0 .. 2
      BY <3>1 DEF InBudget, Ahead, Busy
    <3>3. [call[c] EXCEPT !.at = "posting", !.attempt = @ + 1, !.left = Timeout]
            \in Busy
      BY <3>1, <3>2 DEF Busy
    <3> QED
      BY <2>2, <2>6, <3>3 DEF Resumes
  <2>7. CASE UNCHANGED call
    BY <2>1, <2>7 DEF CallTypeOK
  <2>8. CASE Proceeds(c)
    <3>1. call[c] \in Busy
      BY <2>8, InCall DEF Proceeds
    <3>2. call[c].pieces + 1 \in 0 .. MaxPieces
      BY <2>8, <3>1 DEF Proceeds, Busy
    <3>3. [call[c] EXCEPT !.left = Timeout, !.pieces = @ + 1] \in Busy
      BY <3>1, <3>2 DEF Busy
    <3> QED
      BY <2>2, <2>8, <3>3 DEF Proceeds
  <2> QED
    BY <1>2, <2>3, <2>4, <2>5, <2>6, <2>7, <2>8, StepShapes
<1> QED
  BY <1>1, <1>2 DEF CallNext

-----------------------------------------------------------------------------
\* The account of the time balances.
LEMMA BudgetStep ==
    ASSUME CallTypeOK, InBudget, CallNext
    PROVE  InBudget'
<1> USE Settings
<1>1. CASE Tick
  <2> SUFFICES ASSUME NEW c \in Caller, call'[c] # Rest
               PROVE  /\ Ahead(c)' < Attempts
                      /\ (call[c].spent)' + Due(c)'
                           <= Budget(Ahead(c)') + Extra(c)'
    BY DEF InBudget, Budget, Pauses
  <2>1. call[c] # Rest /\ call[c] \in Busy
    BY <1>1, InCall DEF Tick
  <2>2. call'[c] = [call[c] EXCEPT !.left = @ - 1, !.spent = @ + 1]
    BY <1>1, <2>1 DEF Tick
  <2>3. /\ Ahead(c)' = Ahead(c)
        /\ (call[c].spent)' = call[c].spent + 1
        /\ Due(c)' = Due(c) - 1
        /\ Extra(c)' = Extra(c)
    BY <2>1, <2>2 DEF Ahead, Due, Busy, Extra
  <2>4. call[c].spent \in Nat /\ Due(c) \in Int
    BY <2>1 DEF Busy, Due
  <2> QED
    BY <2>1, <2>3, <2>4 DEF InBudget
<1>2. ASSUME NEW c \in Caller, Steps(c)
      PROVE  InBudget'
  <2>1. SUFFICES ASSUME \/ Enters(c) \/ Proceeds(c) \/ Leaves(c)
                        \/ Halts(c) \/ Resumes(c)
                 PROVE  InBudget'
    BY <1>2, StepShapes DEF InBudget, Ahead, Due, Extra
  <2>2. \A b \in Caller \ {c} : call'[b] = call[b]
    BY <2>1 DEF Enters, Proceeds, Leaves, Halts, Resumes, Goes, CallTypeOK
  <2>3. call'[c] # Rest =>
          /\ Ahead(c)' < Attempts
          /\ (call[c].spent)' + Due(c)' <= Budget(Ahead(c)') + Extra(c)'
    <3>1. CASE Enters(c)
      <4>1. call'[c] = [at |-> "posting", attempt |-> 0, left |-> Timeout,
                        spent |-> 0, pieces |-> 0]
        BY <3>1 DEF Enters, Goes, CallTypeOK
      <4>2. /\ Ahead(c)' = 0 /\ Due(c)' = Timeout
            /\ (call[c].spent)' = 0 /\ Extra(c)' = 0
        BY <4>1 DEF Ahead, Due, Extra
      <4> QED
        BY <4>2 DEF Budget, Pauses
    <3>2. CASE Leaves(c)
      BY <3>2 DEF Leaves, Goes, CallTypeOK
    <3>3. CASE Halts(c)
      <4>1. call[c] \in Busy /\ call[c] # Rest
        BY <3>3, InCall DEF Halts
      <4>2. call'[c] = [call[c] EXCEPT !.at = "pausing",
                                       !.left = Pause(call[c].attempt)]
        BY <3>3 DEF Halts, Goes, CallTypeOK
      <4> DEFINE a == call[c].attempt
                 spent == call[c].spent
                 extra == Extra(c)
      <4>3. /\ Ahead(c)' = a + 1 /\ Due(c)' = Pause(a) + Timeout
            /\ (call[c].spent)' = spent /\ Extra(c)' = extra
        BY <4>1, <4>2 DEF Ahead, Due, Busy, Extra
      <4>4. /\ a \in 0 .. 2 /\ spent \in Nat /\ call[c].left \in Nat
            /\ extra \in Nat
        BY <4>1, ExtraOfCall DEF Busy
      <4>5. a + 1 < Attempts
        BY <3>3 DEF Halts, TriesAgain
      <4>6. spent + call[c].left <= Budget(a) + extra
        BY <3>3, <4>1 DEF InBudget, Ahead, Due, Halts
      <4> HIDE DEF a, spent, extra
      <4>7. a \in {0, 1}
        BY <4>4, <4>5
      <4>8. spent <= Budget(a) + extra
        BY <4>4, <4>6, <4>7 DEF Budget, Pauses
      <4>9. spent + (Pause(a) + Timeout) <= Budget(a + 1) + extra
        BY <4>4, <4>7, <4>8 DEF Budget, Pauses, Pause
      <4> QED
        BY <4>3, <4>5, <4>9
    <3>4. CASE Resumes(c)
      <4>1. call[c] \in Busy /\ call[c] # Rest
        BY <3>4, InCall DEF Resumes
      <4>2. call'[c] = [call[c] EXCEPT !.at = "posting", !.attempt = @ + 1,
                                       !.left = Timeout]
        BY <3>4 DEF Resumes, Goes, CallTypeOK
      <4>3. /\ Ahead(c)' = Ahead(c) /\ Due(c)' = Due(c)
            /\ (call[c].spent)' = call[c].spent
            /\ Extra(c)' = Extra(c)
        BY <3>4, <4>1, <4>2 DEF Resumes, Ahead, Due, Busy, Extra
      <4> QED
        BY <4>1, <4>3 DEF InBudget
    <3>5. CASE Proceeds(c)
      <4>1. call[c] \in Busy /\ call[c] # Rest
        BY <3>5, InCall DEF Proceeds
      <4>2. call'[c] = [call[c] EXCEPT !.left = Timeout, !.pieces = @ + 1]
        BY <3>5 DEF Proceeds, Goes, CallTypeOK
      <4> DEFINE spent == call[c].spent
                 extra == Extra(c)
                 budget == Budget(Ahead(c))
      <4>3. /\ Ahead(c)' = Ahead(c) /\ Due(c)' = Timeout
            /\ (call[c].spent)' = spent
        BY <3>5, <4>1, <4>2 DEF Proceeds, Ahead, Due, Busy
      <4>4. Extra(c)' = extra + Timeout /\ extra \in Nat
        <5>1. Extra(c)' = Timeout * (call[c].pieces + 1)
          BY <4>1, <4>2 DEF Busy, Extra
        <5> QED
          BY <4>1, <5>1, ExtraOfCall
      <4>5. /\ Ahead(c) < Attempts
            /\ spent + call[c].left <= budget + extra
        BY <3>5, <4>1 DEF InBudget, Due, Proceeds
      <4>6. spent \in Nat /\ call[c].left \in Nat /\ budget \in Nat
        BY <4>1 DEF Busy, Budget, Pauses
      <4> HIDE DEF spent, extra, budget
      <4>7. spent + Timeout <= budget + (extra + Timeout)
        BY <4>4, <4>5, <4>6
      <4> QED
        BY <4>3, <4>4, <4>5, <4>7 DEF budget
    <3> QED
      BY <2>1, <3>1, <3>2, <3>3, <3>4, <3>5
  <2> QED
    BY <2>2, <2>3 DEF InBudget, Ahead, Due, Budget, Pauses, Extra
<1> QED
  BY <1>1, <1>2 DEF CallNext

-----------------------------------------------------------------------------
\* While the breaker is open nobody enters, and a failure that is counted is of
\* a call that leaves.
LEMMA OpenStep ==
    ASSUME CallTypeOK, OpenAdmitsNone, CallNext
    PROVE  OpenAdmitsNone'
<1> USE Settings, CallersOK
<1>1. ASSUME NEW S \in SUBSET Caller
      PROVE  IsFiniteSet(S) /\ Cardinality(S) \in Nat
                /\ Cardinality(S) <= Cardinality(Caller)
  BY FS_Subset, FS_CardinalityType
<1>2. Cardinality(InFlight) \in Nat /\ Cardinality(Caller) \in Nat
  BY <1>1, FS_CardinalityType DEF InFlight
<1>3. CASE Tick
  <2>1. failures' = failures
    BY <1>3 DEF Tick
  <2>2. \A c \in Caller : call[c] # Rest => call'[c] # Rest
    BY <1>3, InCall DEF Tick, Rest, Busy
  <2>3. InFlight' = InFlight
    BY <1>3, <2>2 DEF InFlight, Tick
  <2> QED
    BY <2>1, <2>3 DEF OpenAdmitsNone
<1>4. ASSUME NEW c \in Caller, Steps(c)
      PROVE  OpenAdmitsNone'
  <2>1. CASE Cleared
    BY <2>1 DEF Cleared, CircuitSuccess, OpenAdmitsNone
  <2>2. CASE Kept /\ UNCHANGED call
    BY <2>2 DEF Kept, OpenAdmitsNone, InFlight
  <2>3. CASE Kept /\ ~Shut
    BY <2>3 DEF Kept, Shut, OpenAdmitsNone, CallTypeOK
  <2>4. CASE (Proceeds(c) \/ Halts(c) \/ Resumes(c)) /\ Kept
    <3>1. call[c] # Rest /\ call[c] \in Busy
      BY <2>4, InCall DEF Proceeds, Halts, Resumes
    <3>2. call'[c] # Rest
      <4>1. CASE Halts(c)
        BY <3>1, <4>1 DEF Halts, Goes, CallTypeOK, Busy, Rest
      <4>2. CASE Resumes(c)
        BY <3>1, <4>2 DEF Resumes, Goes, CallTypeOK, Busy, Rest
      <4>3. CASE Proceeds(c)
        BY <3>1, <4>3 DEF Proceeds, Goes, CallTypeOK, Busy, Rest
      <4> QED
        BY <2>4, <4>1, <4>2, <4>3
    <3>3. \A b \in Caller \ {c} : call'[b] = call[b]
      BY <2>4 DEF Proceeds, Halts, Resumes, Goes, CallTypeOK
    <3>4. InFlight' = InFlight
      BY <3>1, <3>2, <3>3 DEF InFlight
    <3> QED
      BY <2>4, <3>4 DEF Kept, OpenAdmitsNone
  <2>5. CASE Leaves(c) /\ (Kept \/ Counted)
    <3>1. call[c] # Rest
      BY <2>5, InCall DEF Leaves
    <3>2. InFlight' = InFlight \ {c} /\ c \in InFlight
      BY <2>5, <3>1 DEF Leaves, Goes, CallTypeOK, InFlight
    <3>3. IsFiniteSet(InFlight)
      BY <1>1 DEF InFlight
    <3>4. Cardinality(InFlight') = Cardinality(InFlight) - 1
      BY <3>2, <3>3, FS_RemoveElement
    <3>5. Cardinality(InFlight) <= Cardinality(Caller)
      BY <1>1 DEF InFlight
    <3>6. failures \in Nat /\ failures' \in {failures, failures + 1}
      BY <2>5 DEF Kept, Counted, CircuitFailure, CallTypeOK
    <3> QED
      BY <1>2, <3>4, <3>5, <3>6 DEF OpenAdmitsNone
  <2> QED
    BY <1>4, <2>1, <2>2, <2>3, <2>4, <2>5, StepShapes
<1> QED
  BY <1>3, <1>4 DEF CallNext

-----------------------------------------------------------------------------
\* A process that has made no call satisfies the invariant.
LEMMA CallInitInv == CallInit => CallInv
<1> SUFFICES ASSUME CallInit PROVE CallInv
  OBVIOUS
<1>1. CallTypeOK
  BY Settings DEF CallInit, CallTypeOK
<1>2. InBudget
  BY DEF CallInit, InBudget
<1>3. OpenAdmitsNone
  BY Settings DEF CallInit, OpenAdmitsNone
<1> QED
  BY <1>1, <1>2, <1>3 DEF CallInv

\* Every step keeps it.
LEMMA CallNextInv == CallInv /\ [CallNext]_callVars => CallInv'
<1>1. CASE UNCHANGED callVars
  BY <1>1
     DEF callVars, CallInv, CallTypeOK, InBudget, OpenAdmitsNone, InFlight, Ahead, Due,
         Extra
<1> QED
  BY <1>1, CallTypeStep, BudgetStep, OpenStep DEF CallInv

\* The inductive invariant holds in every reachable state.
LEMMA CallInvariance == CallSpec => []CallInv
  BY CallInitInv, CallNextInv, PTL DEF CallSpec

\* Breaker, clock and calls are well formed: no call makes an attempt beyond the
\* last, and no clock runs below zero.
THEOREM CallTypeCorrect == CallSpec => []CallTypeOK
<1>1. CallInv => CallTypeOK
  BY DEF CallInv
<1> QED
  BY <1>1, CallInvariance, PTL

\* For every setting of SettingsOK and requests of any number of pieces, a call
\* outlives a lease that began with it by no more than what Settings
\* leaves out.
THEOREM OverrunIsBounded == CallSpec => []OverrunBounded
<1>1. CallInv => OverrunBounded
  <2> SUFFICES ASSUME CallInv, NEW c \in Caller, call[c] # Rest
               PROVE  call[c].spent <= Lease + Uncounted + Timeout * call[c].pieces
    BY DEF OverrunBounded
  <2>1. call[c] \in Busy /\ CallTypeOK
    BY InCall DEF CallInv
  <2>2. /\ call[c].spent \in Nat /\ Due(c) \in Nat /\ Ahead(c) \in 0 .. 2
        /\ Ahead(c) < Attempts
    BY <2>1, Settings DEF CallInv, InBudget, Due, Ahead, Busy
  <2>3. Budget(Ahead(c)) <= Lease + Uncounted /\ Budget(Ahead(c)) \in Nat
    BY <2>2, BudgetCovered, Settings DEF Budget, Pauses
  <2>4. call[c].spent + Due(c) <= Budget(Ahead(c)) + Extra(c)
    BY DEF CallInv, InBudget
  <2>5. Extra(c) \in Nat /\ Uncounted \in Nat
    BY <2>1, ExtraOfCall, Settings DEF Uncounted
  <2>6. call[c].spent <= Lease + Uncounted + Extra(c)
    BY <2>2, <2>3, <2>4, <2>5, Settings
  <2> QED
    BY <2>6 DEF Extra
<1> QED
  BY <1>1, CallInvariance, PTL

\* An open breaker admits nobody, for any number of callers: its count exceeds
\* the threshold by less than the calls that were in flight when it opened.
THEOREM OpenBreakerHolds == CallSpec => []OpenAdmitsNone
<1>1. CallInv => OpenAdmitsNone
  BY DEF CallInv
<1> QED
  BY <1>1, CallInvariance, PTL
==============================================================================
