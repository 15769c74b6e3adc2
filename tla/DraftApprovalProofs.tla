-------------------------- MODULE DraftApprovalProofs --------------------------
(***************************************************************************)
(* Theorems about DraftApproval, for any threads, fact keys and bounds.     *)
(*                                                                          *)
(* A thread commits on rows it read some time ago.  The invariant says what *)
(* those rows still mean then (TxnInv): versions and facts have only grown, *)
(* a request keeps its version and an approved version stays approved.  The *)
(* unique constraints do the rest.                                          *)
(***************************************************************************)
EXTENDS DraftApproval, FiniteSetTheorems, SequenceTheorems, TLAPS

FactsOf(k) == {f \in facts : f.key = k}

\* An approved version, and only that, has a memory candidate.
RowInv ==
    /\ \A v \in VersionNo : candidate[v] # "none" <=> v \in approved
    /\ \A i \in DOMAIN decisions : decisions[i].request \in DOMAIN requests
    /\ IsFiniteSet(facts)

TxnInv ==
    \A t \in Thread :
        /\ txn[t].op = "edit" => txn[t].seen.current <= draft.current
        /\ txn[t].op \in Decision /\ txn[t].at = "commit" =>
             /\ txn[t].found \in DOMAIN requests
             /\ requests[txn[t].found].version = txn[t].version
        /\ txn[t].op = "promote" => txn[t].version \in approved
        /\ txn[t].op = "promote" /\ txn[t].at = "commit" =>
             txn[t].number <= Cardinality(FactsOf(txn[t].key)) + 1

Inv ==
    /\ TypeOK
    /\ RowInv
    /\ TxnInv
    /\ VersionsCounted
    /\ OneApprovalPerVersion
    /\ FactsNumbered
    /\ FactsComeFromApprovals

-----------------------------------------------------------------------------
\* The fields a thread holds, by what it is doing.
LEMMA TxnFields ==
    ASSUME TypeOK, NEW t \in Thread
    PROVE  /\ txn[t].op = "edit" => txn[t].seen \in Draft
           /\ txn[t].op = "edit" /\ txn[t].at = "commit" =>
                txn[t].found \subseteq 1 .. MaxRequests
           /\ txn[t].op = "request" =>
                txn[t].seen \in Draft /\ txn[t].version \in VersionNo
           /\ txn[t].op \in Decision =>
                txn[t].seen \in Draft /\ txn[t].version \in VersionNo
           /\ txn[t].op \in Decision /\ txn[t].at = "commit" =>
                txn[t].found \in 1 .. MaxRequests
           /\ txn[t].op = "promote" =>
                txn[t].version \in VersionNo /\ txn[t].key \in FactKey
           /\ txn[t].op = "promote" /\ txn[t].at = "commit" =>
                txn[t].number \in Nat \ {0}
<1>1. txn[t] \in Txn
  BY DEF TypeOK
<1>2. QED
  BY <1>1 DEF Txn, Idle, Decision

\* A draft as create_draft leaves it.
THEOREM InitInv == Init => Inv
<1> SUFFICES ASSUME Init PROVE Inv
  OBVIOUS
<1>1. draft \in Draft /\ versions \subseteq VersionNo
  BY BoundsOK DEF Init, Draft, DraftStatus, VersionNo
<1>2. TypeOK
  <2>1. requests = <<>> /\ Len(<<>>) = 0 /\ decisions = <<>>
    BY DEF Init
  <2>2. requests \in Seq(Request) /\ Len(requests) <= MaxRequests
        /\ decisions \in Seq([request : 1 .. MaxRequests, decision : Decision])
    BY <2>1, BoundsOK
  <2>3. txn \in [Thread -> Txn]
    BY DEF Init, Txn
  <2>4. candidate \in [VersionNo -> {"none", "pending", "promoted"}]
    BY DEF Init
  <2>5. QED
    BY <1>1, <2>2, <2>3, <2>4 DEF Init, TypeOK
<1>3. RowInv
  BY FS_EmptySet DEF Init, RowInv
<1>4. TxnInv
  BY DEF Init, TxnInv, Idle, Decision
<1>5. VersionsCounted /\ OneApprovalPerVersion /\ FactsComeFromApprovals
  BY DEF Init, VersionsCounted, OneApprovalPerVersion, FactsComeFromApprovals,
         Approvals, VersionOf
<1>6. FactsNumbered
  <2> SUFFICES ASSUME NEW k \in FactKey
               PROVE  NumbersOf(k) = 1 .. Cardinality({f \in facts : f.key = k})
    BY DEF Init, FactsNumbered
  <2>1. {f \in facts : f.key = k} = {} /\ NumbersOf(k) = {}
    BY DEF Init, NumbersOf
  <2>2. QED
    BY <2>1, FS_EmptySet
<1>7. QED
  BY <1>2, <1>3, <1>4, <1>5, <1>6 DEF Inv

-----------------------------------------------------------------------------
\* A read keeps the invariant when what it leaves with the thread does.
LEMMA ReadKeepsInv ==
    ASSUME Inv, NEW t \in Thread, NEW next \in Txn, Reads(t, next),
           next.op = "edit" => next.seen.current <= draft.current,
           next.op \in Decision /\ next.at = "commit" =>
             /\ next.found \in DOMAIN requests
             /\ requests[next.found].version = next.version,
           next.op = "promote" => next.version \in approved,
           next.op = "promote" /\ next.at = "commit" =>
             next.number <= Cardinality(FactsOf(next.key)) + 1
    PROVE  Inv'
<1>1. /\ UNCHANGED <<archived, draft, versions, requests, decisions, approved,
                     candidate, facts>>
      /\ txn' = [txn EXCEPT ![t] = next]
  BY DEF Reads, Holds, rows
<1>2. TypeOK'
  BY <1>1 DEF Inv, TypeOK
<1>3. RowInv' /\ VersionsCounted' /\ OneApprovalPerVersion' /\ FactsNumbered'
      /\ FactsComeFromApprovals'
  BY <1>1 DEF Inv, RowInv, VersionsCounted, OneApprovalPerVersion, FactsNumbered,
              FactsComeFromApprovals, Approvals, VersionOf, NumbersOf
<1>4. TxnInv'
  <2> SUFFICES ASSUME NEW u \in Thread
               PROVE  /\ txn'[u].op = "edit" => txn'[u].seen.current <= draft.current
                      /\ txn'[u].op \in Decision /\ txn'[u].at = "commit" =>
                           /\ txn'[u].found \in DOMAIN requests
                           /\ requests[txn'[u].found].version = txn'[u].version
                      /\ txn'[u].op = "promote" => txn'[u].version \in approved
                      /\ txn'[u].op = "promote" /\ txn'[u].at = "commit" =>
                           txn'[u].number <= Cardinality(FactsOf(txn'[u].key)) + 1
    BY <1>1 DEF TxnInv, FactsOf
  <2>1. CASE u = t
    <3>1. txn'[u] = next
      BY <2>1, <1>1 DEF Inv, TypeOK
    <3>2. QED
      BY <3>1
  <2>2. CASE u # t
    <3>1. txn'[u] = txn[u]
      BY <2>2, <1>1 DEF Inv, TypeOK
    <3>2. QED
      BY <3>1 DEF Inv, TxnInv
  <2>3. QED
    BY <2>1, <2>2
<1>5. QED
  BY <1>2, <1>3, <1>4 DEF Inv

\* Every refusal and every death of a thread.
LEMMA RollBackKeepsInv ==
    ASSUME Inv, NEW t \in Thread, RollsBack(t)
    PROVE  Inv'
<1>1. Idle \in Txn /\ Idle.op = "none"
  BY DEF Txn, Idle
<1>2. QED
  BY <1>1, ReadKeepsInv DEF RollsBack, Decision

\* The open requests on a version are rows of the table.
LEMMA AwaitingRows ==
    ASSUME TypeOK, NEW v, NEW i \in AwaitingOn(v)
    PROVE  i \in DOMAIN requests /\ i \in 1 .. MaxRequests
           /\ requests[i].version = v
<1>1. i \in DOMAIN requests /\ requests[i].version = v
  BY DEF AwaitingOn
<1>2. /\ DOMAIN requests = 1 .. Len(requests)
      /\ Len(requests) \in Nat /\ Len(requests) <= MaxRequests
  BY DEF TypeOK
<1>3. QED
  BY <1>1, <1>2, BoundsOK

\* The numbers of a key's facts are 1 .. n, so max + 1 is n + 1.
LEMMA NextNumber ==
    ASSUME Inv, NEW k \in FactKey
    PROVE  /\ Cardinality(FactsOf(k)) \in Nat
           /\ Max(NumbersOf(k) \cup {0}) = Cardinality(FactsOf(k))
<1> DEFINE n == Cardinality(FactsOf(k))
<1>1. n \in Nat
  <2>1. IsFiniteSet(facts) /\ FactsOf(k) \in SUBSET facts
    BY DEF Inv, RowInv, FactsOf
  <2>2. QED
    BY <2>1, FS_Subset, FS_CardinalityType
<1>2. NumbersOf(k) \cup {0} = 0 .. n
  <2>1. NumbersOf(k) = 1 .. n
    BY DEF Inv, FactsNumbered, FactsOf
  <2> HIDE DEF n
  <2>2. QED
    BY <2>1, <1>1
<1> HIDE DEF n
<1>3. n \in 0 .. n /\ \A y \in 0 .. n : n >= y
  BY <1>1
<1>4. \A x \in 0 .. n : (\A y \in 0 .. n : x >= y) => x = n
  BY <1>1
<1>5. Max(0 .. n) = n
  BY <1>3, <1>4 DEF Max
<1>6. QED
  BY <1>1, <1>2, <1>5 DEF n

-----------------------------------------------------------------------------
\* The threads' reads of the draft, its versions and its candidates.
LEMMA StartKeepsInv ==
    ASSUME Inv, NEW t \in Thread,
           \/ EditReads(t)
           \/ \E v \in VersionNo :
                \/ RequestReads(t, v)
                \/ \E d \in Decision : DecideReads(t, v, d)
                \/ \E k \in FactKey : PromoteReads(t, v, k)
    PROVE  Inv'
<1>1. draft \in Draft /\ draft.current \in Nat
  BY BoundsOK DEF Inv, TypeOK, Draft
<1>2. CASE EditReads(t)
  <2> DEFINE next == [op |-> "edit", at |-> "scan", seen |-> draft]
  <2>1. next \in Txn /\ next.op = "edit" /\ next.seen = draft
    BY <1>1 DEF Txn
  <2>2. Reads(t, next)
    BY <1>2 DEF EditReads
  <2> HIDE DEF next
  <2>3. QED
    BY <1>1, <2>1, <2>2, ReadKeepsInv DEF Decision
<1>3. ASSUME NEW v \in VersionNo, RequestReads(t, v) PROVE Inv'
  <2> DEFINE next == [op |-> "request", seen |-> draft, version |-> v]
  <2>1. next \in Txn /\ next.op = "request"
    BY <1>1 DEF Txn
  <2>2. Reads(t, next)
    BY <1>3 DEF RequestReads
  <2> HIDE DEF next
  <2>3. QED
    BY <2>1, <2>2, ReadKeepsInv DEF Decision
<1>4. ASSUME NEW v \in VersionNo, NEW d \in Decision, DecideReads(t, v, d) PROVE Inv'
  <2> DEFINE next == [op |-> d, at |-> "find", seen |-> draft, version |-> v]
  <2>1. next \in Txn /\ next.op = d /\ next.at = "find"
    BY <1>1 DEF Txn
  <2>2. Reads(t, next)
    BY <1>4 DEF DecideReads
  <2> HIDE DEF next
  <2>3. QED
    BY <2>1, <2>2, ReadKeepsInv DEF Decision
<1>5. ASSUME NEW v \in VersionNo, NEW k \in FactKey, PromoteReads(t, v, k) PROVE Inv'
  <2> DEFINE next == [op |-> "promote", at |-> "count", version |-> v, key |-> k]
  <2>1. next \in Txn /\ next.op = "promote" /\ next.at = "count" /\ next.version = v
    BY DEF Txn
  <2>2. Reads(t, next) /\ v \in approved
    BY <1>5 DEF PromoteReads, Pending, Inv, RowInv
  <2> HIDE DEF next
  <2>3. QED
    BY <2>1, <2>2, ReadKeepsInv DEF Decision
<1>6. QED
  BY <1>2, <1>3, <1>4, <1>5

\* The second reads: the open requests, the newest request, the next number.
LEMMA ScanKeepsInv ==
    ASSUME Inv, NEW t \in Thread,
           EditScans(t) \/ DecideFinds(t) \/ PromoteCounts(t)
    PROVE  Inv'
<1>1. CASE EditScans(t)
  <2> DEFINE rows1 == UNION {AwaitingOn(v) : v \in VersionNo}
             next == [op |-> "edit", at |-> "commit", seen |-> txn[t].seen,
                      found |-> rows1]
  <2>1. txn[t].seen \in Draft /\ txn[t].seen.current <= draft.current
    BY <1>1, TxnFields DEF EditScans, At, Inv, TxnInv
  <2>2. rows1 \subseteq 1 .. MaxRequests
    BY AwaitingRows DEF Inv
  <2> HIDE DEF rows1
  <2>3. next \in Txn /\ next.op = "edit" /\ next.seen = txn[t].seen
    BY <2>1, <2>2 DEF Txn
  <2>4. Reads(t, next)
    BY <1>1 DEF EditScans, rows1
  <2> HIDE DEF next
  <2>5. QED
    BY <2>1, <2>3, <2>4, ReadKeepsInv DEF Decision
<1>2. CASE DecideFinds(t)
  <2>1. txn[t].op \in Decision /\ txn[t].seen \in Draft /\ txn[t].version \in VersionNo
    BY <1>2, TxnFields DEF DecideFinds, Inv
  <2>2. PICK i \in AwaitingOn(txn[t].version) :
          Reads(t, [op |-> txn[t].op, at |-> "commit", seen |-> txn[t].seen,
                    version |-> txn[t].version, found |-> i])
    BY <1>2 DEF DecideFinds
  <2> DEFINE next == [op |-> txn[t].op, at |-> "commit", seen |-> txn[t].seen,
                      version |-> txn[t].version, found |-> i]
  <2>3. /\ i \in DOMAIN requests /\ i \in 1 .. MaxRequests
        /\ requests[i].version = txn[t].version
    BY AwaitingRows DEF Inv
  <2>4. /\ next \in Txn /\ next.op \in Decision
        /\ next.found = i /\ next.version = txn[t].version
    BY <2>1, <2>3 DEF Txn
  <2>5. Reads(t, next)
    BY <2>2
  <2> HIDE DEF next
  <2>6. QED
    BY <2>3, <2>4, <2>5, ReadKeepsInv DEF Decision
<1>3. CASE PromoteCounts(t)
  <2> DEFINE k == txn[t].key
             n == Max(NumbersOf(k) \cup {0}) + 1
             next == [op |-> "promote", at |-> "commit",
                      version |-> txn[t].version, key |-> k, number |-> n]
  <2>1. /\ k \in FactKey /\ txn[t].version \in VersionNo
        /\ txn[t].version \in approved
    BY <1>3, TxnFields DEF PromoteCounts, At, Inv, TxnInv
  <2>2. n = Cardinality(FactsOf(k)) + 1 /\ Cardinality(FactsOf(k)) \in Nat
    BY <2>1, NextNumber
  <2>3. Reads(t, next)
    BY <1>3 DEF PromoteCounts
  <2> HIDE DEF n
  <2>4. n \in Nat \ {0} /\ n <= Cardinality(FactsOf(k)) + 1
    BY <2>2
  <2>5. /\ next \in Txn /\ next.op = "promote" /\ next.key = k
        /\ next.version = txn[t].version /\ next.number = n
    BY <2>1, <2>4 DEF Txn
  <2> HIDE DEF next, k
  <2>6. QED
    BY <2>1, <2>3, <2>4, <2>5, ReadKeepsInv DEF Decision
<1>4. QED
  BY <1>1, <1>2, <1>3

-----------------------------------------------------------------------------
\* The other threads keep what they hold while the rows grow.
LEMMA CommitKeepsTxns ==
    ASSUME Inv, NEW t \in Thread, txn' = [txn EXCEPT ![t] = Idle],
           draft'.current \in Nat, draft.current <= draft'.current,
           DOMAIN requests \subseteq DOMAIN requests',
           \A i \in DOMAIN requests : requests'[i].version = requests[i].version,
           approved \subseteq approved',
           \A k \in FactKey :
             /\ Cardinality(FactsOf(k)) \in Nat
             /\ Cardinality(FactsOf(k))' \in Nat
             /\ Cardinality(FactsOf(k)) <= Cardinality(FactsOf(k))'
    PROVE  TxnInv'
<1> SUFFICES ASSUME NEW u \in Thread
             PROVE  (/\ txn[u].op = "edit" => txn[u].seen.current <= draft.current
                     /\ txn[u].op \in Decision /\ txn[u].at = "commit" =>
                          /\ txn[u].found \in DOMAIN requests
                          /\ requests[txn[u].found].version = txn[u].version
                     /\ txn[u].op = "promote" => txn[u].version \in approved
                     /\ txn[u].op = "promote" /\ txn[u].at = "commit" =>
                          txn[u].number <= Cardinality(FactsOf(txn[u].key)) + 1)'
  BY DEF TxnInv
<1>1. CASE u = t
  <2>1. txn'[u] = Idle
    BY <1>1 DEF Inv, TypeOK
  <2>2. QED
    BY <2>1 DEF Idle, Decision
<1>2. CASE u # t
  <2>1. txn'[u] = txn[u]
    BY <1>2 DEF Inv, TypeOK
  <2>2. txn[u].op = "edit" => txn[u].seen.current <= draft'.current
    <3> HAVE txn[u].op = "edit"
    <3>1. txn[u].seen \in Draft /\ txn[u].seen.current <= draft.current
      BY TxnFields DEF Inv, TxnInv
    <3>2. txn[u].seen.current \in Nat /\ draft.current \in Nat
      BY <3>1, BoundsOK DEF Draft, Inv, TypeOK
    <3>3. QED
      BY <3>1, <3>2
  <2>3. txn[u].op \in Decision /\ txn[u].at = "commit" =>
          /\ txn[u].found \in DOMAIN requests'
          /\ requests'[txn[u].found].version = txn[u].version
    BY DEF Inv, TxnInv
  <2>4. txn[u].op = "promote" => txn[u].version \in approved'
    BY DEF Inv, TxnInv
  <2>5. txn[u].op = "promote" /\ txn[u].at = "commit" =>
          txn[u].number <= Cardinality(FactsOf(txn[u].key))' + 1
    <3> HAVE txn[u].op = "promote" /\ txn[u].at = "commit"
    <3> DEFINE c == Cardinality(FactsOf(txn[u].key))
    <3>1. txn[u].key \in FactKey /\ txn[u].number \in Nat /\ txn[u].number <= c + 1
      BY TxnFields DEF Inv, TxnInv
    <3>2. c \in Nat /\ Cardinality(FactsOf(txn[u].key))' \in Nat
          /\ c <= Cardinality(FactsOf(txn[u].key))'
      BY <3>1, <2>1, <1>2 DEF FactsOf
    <3> HIDE DEF c
    <3>3. QED
      BY <3>1, <3>2
  <2>6. QED
    BY <2>1, <2>2, <2>3, <2>4, <2>5
<1>3. QED
  BY <1>1, <1>2

\* A commit that leaves the facts alone.
LEMMA SameFacts ==
    ASSUME Inv, facts' = facts
    PROVE  /\ \A k \in FactKey :
                /\ Cardinality(FactsOf(k)) \in Nat
                /\ Cardinality(FactsOf(k))' \in Nat
                /\ Cardinality(FactsOf(k)) <= Cardinality(FactsOf(k))'
           /\ FactsNumbered'
<1>1. \A k \in FactKey : Cardinality(FactsOf(k)) \in Nat
  BY NextNumber
<1>2. \A k \in FactKey : Cardinality(FactsOf(k))' = Cardinality(FactsOf(k))
  BY DEF FactsOf
<1>3. FactsNumbered'
  BY DEF Inv, FactsNumbered, NumbersOf
<1>4. QED
  BY <1>1, <1>2, <1>3

\* What the draft's status becomes is in the vocabulary.
LEMMA StatusType ==
    ASSUME TypeOK, NEW seen, NEW new \in DraftStatus
    PROVE  StatusAfter(seen, new) \in DraftStatus
BY DEF TypeOK, Draft, StatusAfter

\* edit: the next version, the draft, the requests found open.
LEMMA EditKeepsInv ==
    ASSUME Inv, NEW t \in Thread, EditCommits(t)
    PROVE  Inv'
<1> DEFINE n == txn[t].seen.current + 1
           s == StatusAfter(txn[t].seen, "criticized")
<1>1. /\ n <= MaxVersion /\ ~VersionTaken(n)
      /\ versions' = versions \cup {n}
      /\ draft' = [status |-> s, current |-> n]
      /\ requests' = [i \in DOMAIN requests |->
                        IF i \in txn[t].found
                        THEN [requests[i] EXCEPT !.status = "invalidated"]
                        ELSE requests[i]]
      /\ txn' = [txn EXCEPT ![t] = Idle]
      /\ UNCHANGED <<archived, decisions, approved, candidate, facts>>
  BY DEF EditCommits, Holds
<1>2. txn[t].op = "edit"
  BY DEF EditCommits, At
<1>3. /\ txn[t].seen \in Draft /\ txn[t].seen.current \in Nat
      /\ draft.current \in Nat /\ txn[t].seen.current <= draft.current
  BY <1>2, TxnFields, BoundsOK DEF Draft, Inv, TypeOK, TxnInv
<1>4. n = draft.current + 1
  <2>1. n \notin 1 .. draft.current
    BY <1>1 DEF VersionTaken, Inv, VersionsCounted
  <2>2. QED
    BY <2>1, <1>3
<1>5. n \in VersionNo /\ n \in 0 .. MaxVersion
  BY <1>1, <1>3, BoundsOK DEF VersionNo
<1>6. s \in DraftStatus
  BY StatusType DEF Inv, DraftStatus
<1> HIDE DEF n, s
<1>7. draft' \in Draft /\ draft'.current = n
  BY <1>1, <1>5, <1>6 DEF Draft
<1>8. /\ requests \in Seq(Request) /\ Len(requests) \in Nat
      /\ DOMAIN requests = 1 .. Len(requests)
      /\ \A i \in DOMAIN requests : requests[i] \in Request
  BY DEF Inv, TypeOK
<1>9. /\ DOMAIN requests' = DOMAIN requests
      /\ \A i \in DOMAIN requests :
           requests'[i] \in Request /\ requests'[i].version = requests[i].version
  BY <1>1, <1>8 DEF Request, RequestStatus
<1>10. requests' \in Seq(Request) /\ Len(requests') = Len(requests)
  <2>1. requests' \in [1 .. Len(requests) -> Request]
    BY <1>1, <1>8, <1>9
  <2>2. QED
    BY <2>1, <1>8
<1>11. TypeOK'
  <2>1. Idle \in Txn
    BY DEF Txn
  <2>2. QED
    BY <1>1, <1>5, <1>7, <1>10, <2>1 DEF Inv, TypeOK
<1>12. VersionsCounted'
  BY <1>1, <1>3, <1>4, <1>7 DEF Inv, VersionsCounted
<1>13. RowInv' /\ FactsComeFromApprovals'
  BY <1>1, <1>9 DEF Inv, RowInv, FactsComeFromApprovals
<1>14. OneApprovalPerVersion'
  <2>1. \A i \in DOMAIN decisions : VersionOf(i)' = VersionOf(i)
    BY <1>1, <1>9 DEF Inv, RowInv, VersionOf
  <2>2. Approvals' = Approvals /\ Approvals \subseteq DOMAIN decisions
    BY <1>1 DEF Approvals
  <2>3. {VersionOf(i) : i \in Approvals}' = {VersionOf(i) : i \in Approvals}
    BY <2>1, <2>2
  <2>4. QED
    BY <1>1, <2>1, <2>2, <2>3 DEF Inv, OneApprovalPerVersion
<1>15. TxnInv'
  <2>1. draft'.current \in Nat /\ draft.current <= draft'.current
    BY <1>3, <1>4, <1>7
  <2>2. /\ approved \subseteq approved' /\ DOMAIN requests \subseteq DOMAIN requests'
        /\ facts' = facts /\ txn' = [txn EXCEPT ![t] = Idle]
    BY <1>1, <1>9
  <2>3. QED
    BY <2>1, <2>2, <1>9, SameFacts, CommitKeepsTxns
<1>16. QED
  BY <1>1, <1>11, <1>12, <1>13, <1>14, <1>15, SameFacts DEF Inv

\* request: one more row.
LEMMA RequestKeepsInv ==
    ASSUME Inv, NEW t \in Thread, RequestCommits(t)
    PROVE  Inv'
<1> DEFINE s   == StatusAfter(txn[t].seen, "awaiting_approval")
           new == [version |-> txn[t].version, status |-> "awaiting_approval"]
<1>1. /\ Len(requests) < MaxRequests
      /\ requests' = Append(requests, new)
      /\ draft' = [draft EXCEPT !.status = s]
      /\ txn' = [txn EXCEPT ![t] = Idle]
      /\ UNCHANGED <<archived, versions, decisions, approved, candidate, facts>>
  BY DEF RequestCommits, Holds
<1>2. new \in Request
  BY TxnFields DEF RequestCommits, Inv, Request, RequestStatus
<1>3. s \in DraftStatus
  BY StatusType DEF Inv, DraftStatus
<1> HIDE DEF s, new
<1>4. draft' \in Draft /\ draft'.current = draft.current /\ draft.current \in Nat
  <2>1. draft \in Draft
    BY DEF Inv, TypeOK
  <2>2. draft' = [draft EXCEPT !.status = s]
    BY <1>1
  <2>3. QED
    BY <2>1, <2>2, <1>3, BoundsOK DEF Draft
<1>5. requests \in Seq(Request) /\ Len(requests) \in Nat
  BY DEF Inv, TypeOK
<1>6. /\ requests' \in Seq(Request) /\ Len(requests') = Len(requests) + 1
      /\ DOMAIN requests \subseteq DOMAIN requests'
      /\ \A i \in DOMAIN requests : requests'[i] = requests[i]
  BY <1>1, <1>2, <1>5
<1>7. TypeOK'
  <2>1. Idle \in Txn
    BY DEF Txn
  <2>2. Len(requests') <= MaxRequests
    BY <1>1, <1>5, <1>6, BoundsOK
  <2>3. QED
    BY <1>1, <1>4, <1>6, <2>1, <2>2 DEF Inv, TypeOK
<1>8. VersionsCounted'
  BY <1>1, <1>4 DEF Inv, VersionsCounted
<1>9. RowInv' /\ FactsComeFromApprovals'
  BY <1>1, <1>6 DEF Inv, RowInv, FactsComeFromApprovals
<1>10. OneApprovalPerVersion'
  <2>1. \A i \in DOMAIN decisions : VersionOf(i)' = VersionOf(i)
    BY <1>1, <1>6 DEF Inv, RowInv, VersionOf
  <2>2. Approvals' = Approvals /\ Approvals \subseteq DOMAIN decisions
    BY <1>1 DEF Approvals
  <2>3. {VersionOf(i) : i \in Approvals}' = {VersionOf(i) : i \in Approvals}
    BY <2>1, <2>2
  <2>4. QED
    BY <1>1, <2>1, <2>2, <2>3 DEF Inv, OneApprovalPerVersion
<1>11. TxnInv'
  <2>1. draft'.current \in Nat /\ draft.current <= draft'.current
    BY <1>4
  <2>2. /\ approved \subseteq approved' /\ DOMAIN requests \subseteq DOMAIN requests'
        /\ facts' = facts /\ txn' = [txn EXCEPT ![t] = Idle]
    BY <1>1, <1>6
  <2>3. QED
    BY <2>1, <2>2, <1>6, SameFacts, CommitKeepsTxns
<1>12. QED
  BY <1>1, <1>7, <1>8, <1>9, <1>10, <1>11, SameFacts DEF Inv

\* What an approval and a rejection have in common: the rows of Record, and
\* the threads.
LEMMA RecordFacts ==
    ASSUME Inv, NEW t \in Thread, Record(t),
           txn[t].op \in Decision, txn[t].at = "commit",
           approved \subseteq approved'
    PROVE  /\ txn[t].version \in VersionNo
           /\ draft' \in Draft
           /\ requests' \in Seq(Request) /\ Len(requests') = Len(requests)
           /\ decisions' = Append(decisions, [request  |-> txn[t].found,
                                              decision |-> txn[t].op])
           /\ decisions' \in Seq([request : 1 .. MaxRequests, decision : Decision])
           /\ \A i \in DOMAIN decisions' : decisions'[i].request \in DOMAIN requests'
           /\ \A i \in DOMAIN decisions :
                decisions'[i] = decisions[i] /\ VersionOf(i)' = VersionOf(i)
           /\ DOMAIN decisions' = DOMAIN decisions \cup {Len(decisions) + 1}
           /\ Len(decisions) + 1 \notin DOMAIN decisions
           /\ \A i : i = Len(decisions) + 1 => VersionOf(i)' = txn[t].version
           /\ decisions'[Len(decisions) + 1].decision = txn[t].op
           /\ txn' \in [Thread -> Txn]
           /\ VersionsCounted' /\ FactsNumbered' /\ TxnInv'
           /\ UNCHANGED <<archived, versions, facts>>
<1> DEFINE f == txn[t].found
           s == StatusAfter(txn[t].seen, txn[t].op)
           n == Len(decisions) + 1
           d == [request |-> f, decision |-> txn[t].op]
<1>1. /\ requests' = [requests EXCEPT ![f].status = txn[t].op]
      /\ draft' = [draft EXCEPT !.status = s]
      /\ decisions' = Append(decisions, d)
      /\ txn' = [txn EXCEPT ![t] = Idle]
      /\ UNCHANGED <<archived, versions, facts>>
  BY DEF Record, Holds
<1>2. /\ f \in DOMAIN requests /\ f \in 1 .. MaxRequests
      /\ requests[f].version = txn[t].version
      /\ txn[t].version \in VersionNo
  BY TxnFields DEF Inv, TxnInv
<1>3. s \in DraftStatus
  BY StatusType DEF Inv, DraftStatus
<1> HIDE DEF f, s
<1>4. draft' \in Draft /\ draft'.current = draft.current /\ draft.current \in Nat
  <2>1. draft \in Draft
    BY DEF Inv, TypeOK
  <2>2. draft' = [draft EXCEPT !.status = s]
    BY <1>1
  <2>3. QED
    BY <2>1, <2>2, <1>3, BoundsOK DEF Draft
<1>5. /\ requests \in Seq(Request) /\ Len(requests) \in Nat
      /\ DOMAIN requests = 1 .. Len(requests)
      /\ \A i \in DOMAIN requests : requests[i] \in Request
      /\ decisions \in Seq([request : 1 .. MaxRequests, decision : Decision])
      /\ Len(decisions) \in Nat
  BY DEF Inv, TypeOK
<1>6. /\ DOMAIN requests' = DOMAIN requests
      /\ \A i \in DOMAIN requests :
           requests'[i] \in Request /\ requests'[i].version = requests[i].version
  BY <1>1, <1>2, <1>5 DEF Request, RequestStatus
<1>7. requests' \in Seq(Request) /\ Len(requests') = Len(requests)
  <2>1. requests' \in [1 .. Len(requests) -> Request]
    BY <1>1, <1>5, <1>6
  <2>2. QED
    BY <2>1, <1>5
<1>8. d \in [request : 1 .. MaxRequests, decision : Decision]
  BY <1>2
<1> HIDE DEF d
<1>9. /\ decisions' \in Seq([request : 1 .. MaxRequests, decision : Decision])
      /\ DOMAIN decisions' = DOMAIN decisions \cup {n} /\ n \notin DOMAIN decisions
      /\ \A i \in DOMAIN decisions : decisions'[i] = decisions[i]
      /\ decisions'[n] = d
  BY <1>1, <1>5, <1>8
<1>10. d.request = f /\ d.decision = txn[t].op
  BY DEF d
<1>11. \A i \in DOMAIN decisions' : decisions'[i].request \in DOMAIN requests'
  BY <1>2, <1>6, <1>9, <1>10 DEF Inv, RowInv
<1>12. /\ \A i \in DOMAIN decisions : VersionOf(i)' = VersionOf(i)
       /\ \A i : i = n => VersionOf(i)' = txn[t].version
  <2>1. \A i \in DOMAIN decisions : decisions[i].request \in DOMAIN requests
    BY DEF Inv, RowInv
  <2>2. requests'[f].version = txn[t].version
    BY <1>2, <1>6
  <2> HIDE DEF n
  <2>3. \A i \in DOMAIN decisions : VersionOf(i)' = VersionOf(i)
    BY <2>1, <1>6, <1>9 DEF VersionOf
  <2>4. decisions'[n].request = f
    BY <1>9, <1>10
  <2>5. ASSUME NEW i, i = n PROVE VersionOf(i)' = txn[t].version
    BY <2>2, <2>4, <2>5 DEF VersionOf
  <2>6. QED
    BY <2>3, <2>5
<1>13. txn' \in [Thread -> Txn]
  BY <1>1 DEF Inv, TypeOK, Txn
<1>14. VersionsCounted'
  BY <1>1, <1>4 DEF Inv, VersionsCounted
<1>15. TxnInv'
  <2>1. draft'.current \in Nat /\ draft.current <= draft'.current
    BY <1>4
  <2>2. /\ approved \subseteq approved' /\ DOMAIN requests \subseteq DOMAIN requests'
        /\ facts' = facts /\ txn' = [txn EXCEPT ![t] = Idle]
    BY <1>1, <1>6
  <2>3. QED
    BY <2>1, <2>2, <1>6, SameFacts, CommitKeepsTxns
<1>16. QED
  BY <1>1, <1>2, <1>4, <1>7, <1>9, <1>10, <1>11, <1>12, <1>13, <1>14, <1>15,
     SameFacts DEF d, f

\* approve: the decision, the approved version and its candidate.
LEMMA ApproveKeepsInv ==
    ASSUME Inv, NEW t \in Thread, ApproveCommits(t)
    PROVE  Inv'
<1> DEFINE v == txn[t].version
           n == Len(decisions) + 1
<1>1. /\ txn[t].op = "approved" /\ txn[t].at = "commit"
      /\ v \notin approved /\ approved' = approved \cup {v}
      /\ candidate' = [candidate EXCEPT ![v] = "pending"]
      /\ Record(t)
  BY DEF ApproveCommits, At, AlreadyApproved
<1>2. txn[t].op \in Decision /\ approved \subseteq approved'
  BY <1>1 DEF Decision
<1>3. /\ v \in VersionNo
      /\ \A i \in DOMAIN decisions :
           decisions'[i] = decisions[i] /\ VersionOf(i)' = VersionOf(i)
      /\ DOMAIN decisions' = DOMAIN decisions \cup {n} /\ n \notin DOMAIN decisions
      /\ \A i : i = n => VersionOf(i)' = v
      /\ decisions'[n].decision = "approved"
      /\ UNCHANGED <<archived, versions, facts>>
  BY <1>1, <1>2, RecordFacts
<1> HIDE DEF n
<1>4. TypeOK'
  <2>1. approved' \subseteq VersionNo
    BY <1>1, <1>3 DEF Inv, TypeOK
  <2>2. candidate' \in [VersionNo -> {"none", "pending", "promoted"}]
    BY <1>1, <1>3 DEF Inv, TypeOK
  <2>3. /\ draft' \in Draft /\ txn' \in [Thread -> Txn]
        /\ requests' \in Seq(Request) /\ Len(requests') = Len(requests)
        /\ decisions' \in Seq([request : 1 .. MaxRequests, decision : Decision])
    BY <1>1, <1>2, RecordFacts
  <2>4. QED
    BY <1>3, <2>1, <2>2, <2>3 DEF Inv, TypeOK
<1>5. RowInv'
  <2>1. \A w \in VersionNo : candidate'[w] # "none" <=> w \in approved'
    BY <1>1, <1>3 DEF Inv, TypeOK, RowInv
  <2>2. \A i \in DOMAIN decisions' : decisions'[i].request \in DOMAIN requests'
    BY <1>1, <1>2, RecordFacts
  <2>3. QED
    BY <1>3, <2>1, <2>2 DEF Inv, RowInv
<1>6. OneApprovalPerVersion'
  <2>1. Approvals' = Approvals \cup {n} /\ Approvals \subseteq DOMAIN decisions
    BY <1>3 DEF Approvals
  <2>2. {VersionOf(i) : i \in Approvals}' = {VersionOf(i) : i \in Approvals} \cup {v}
    <3>1. ASSUME NEW w
          PROVE  w \in {VersionOf(i) : i \in Approvals}' <=>
                   w \in {VersionOf(i) : i \in Approvals} \cup {v}
      <4>1. \A i \in Approvals' : VersionOf(i)' =
                                    IF i = n THEN v ELSE VersionOf(i)
        BY <1>3, <2>1
      <4>2. QED
        BY <4>1, <1>3, <2>1
    <3>2. QED
      BY <3>1
  <2>3. \A i \in Approvals : VersionOf(i) # v
    BY <1>1 DEF Inv, OneApprovalPerVersion
  <2>4. ASSUME NEW i \in Approvals', NEW j \in Approvals', VersionOf(i)' = VersionOf(j)'
        PROVE  i = j
    BY <1>3, <2>1, <2>3, <2>4 DEF Inv, OneApprovalPerVersion
  <2>5. QED
    BY <1>1, <2>2, <2>4 DEF Inv, OneApprovalPerVersion
<1>7. FactsComeFromApprovals'
  <2> SUFFICES ASSUME NEW f \in facts
               PROVE  f.source \in approved' /\ candidate'[f.source] = "promoted"
    BY <1>3 DEF FactsComeFromApprovals
  <2>1. f.source \in VersionNo /\ f.source \in approved
        /\ candidate[f.source] = "promoted"
    BY DEF Inv, TypeOK, Fact, FactsComeFromApprovals
  <2>2. QED
    BY <2>1, <1>1, <1>3 DEF Inv, TypeOK
<1>8. VersionsCounted' /\ FactsNumbered' /\ TxnInv'
  BY <1>1, <1>2, RecordFacts
<1>9. QED
  BY <1>4, <1>5, <1>6, <1>7, <1>8 DEF Inv

\* reject: the decision alone.
LEMMA RejectKeepsInv ==
    ASSUME Inv, NEW t \in Thread, RejectCommits(t)
    PROVE  Inv'
<1> DEFINE n == Len(decisions) + 1
<1>1. /\ txn[t].op = "rejected" /\ txn[t].at = "commit"
      /\ UNCHANGED <<approved, candidate>>
      /\ Record(t)
  BY DEF RejectCommits, At
<1>2. txn[t].op \in Decision /\ approved \subseteq approved'
  BY <1>1 DEF Decision
<1>3. /\ \A i \in DOMAIN decisions :
           decisions'[i] = decisions[i] /\ VersionOf(i)' = VersionOf(i)
      /\ DOMAIN decisions' = DOMAIN decisions \cup {n} /\ n \notin DOMAIN decisions
      /\ decisions'[n].decision = "rejected"
      /\ UNCHANGED <<archived, versions, facts>>
  BY <1>1, <1>2, RecordFacts
<1> HIDE DEF n
<1>4. TypeOK'
  <2>1. /\ draft' \in Draft /\ txn' \in [Thread -> Txn]
        /\ requests' \in Seq(Request) /\ Len(requests') = Len(requests)
        /\ decisions' \in Seq([request : 1 .. MaxRequests, decision : Decision])
    BY <1>1, <1>2, RecordFacts
  <2>2. QED
    BY <1>1, <1>3, <2>1 DEF Inv, TypeOK
<1>5. RowInv'
  <2>1. \A i \in DOMAIN decisions' : decisions'[i].request \in DOMAIN requests'
    BY <1>1, <1>2, RecordFacts
  <2>2. QED
    BY <1>1, <1>3, <2>1 DEF Inv, RowInv
<1>6. OneApprovalPerVersion'
  <2>1. Approvals' = Approvals /\ Approvals \subseteq DOMAIN decisions
    BY <1>3 DEF Approvals
  <2>2. {VersionOf(i) : i \in Approvals}' = {VersionOf(i) : i \in Approvals}
    BY <1>3, <2>1
  <2>3. QED
    BY <1>1, <1>3, <2>1, <2>2 DEF Inv, OneApprovalPerVersion
<1>7. FactsComeFromApprovals'
  BY <1>1, <1>3 DEF Inv, FactsComeFromApprovals
<1>8. VersionsCounted' /\ FactsNumbered' /\ TxnInv'
  BY <1>1, <1>2, RecordFacts
<1>9. QED
  BY <1>4, <1>5, <1>6, <1>7, <1>8 DEF Inv

\* promote: the next fact of the key.
LEMMA PromoteKeepsInv ==
    ASSUME Inv, NEW t \in Thread, PromoteCommits(t)
    PROVE  Inv'
<1> DEFINE v == txn[t].version
           k == txn[t].key
           n == txn[t].number
           new == [key |-> k, version |-> n, source |-> v]
           c(j) == Cardinality(FactsOf(j))
<1>1. /\ ~FactTaken(k, n)
      /\ facts' = facts \cup {new}
      /\ candidate' = [candidate EXCEPT ![v] = "promoted"]
      /\ txn' = [txn EXCEPT ![t] = Idle]
      /\ UNCHANGED <<archived, draft, versions, requests, decisions, approved>>
  BY DEF PromoteCommits, Holds
<1>2. /\ v \in VersionNo /\ k \in FactKey /\ n \in Nat \ {0}
      /\ v \in approved /\ n <= c(k) + 1
  BY TxnFields DEF PromoteCommits, At, Inv, TxnInv
<1>3. \A j \in FactKey : /\ c(j) \in Nat /\ IsFiniteSet(FactsOf(j))
                         /\ NumbersOf(j) = 1 .. c(j)
  <2> TAKE j \in FactKey
  <2>1. IsFiniteSet(facts) /\ FactsOf(j) \in SUBSET facts
    BY DEF Inv, RowInv, FactsOf
  <2>2. IsFiniteSet(FactsOf(j))
    BY <2>1, FS_Subset
  <2>3. NumbersOf(j) = 1 .. c(j)
    BY DEF Inv, FactsNumbered, FactsOf
  <2>4. QED
    BY <2>2, <2>3, FS_CardinalityType
<1>4. n = c(k) + 1
  <2>1. n \notin 1 .. c(k) /\ c(k) \in Nat
    BY <1>1, <1>2, <1>3 DEF FactTaken
  <2> HIDE DEF c, n
  <2>2. QED
    BY <2>1, <1>2
<1>5. new \notin facts
  <2>1. ASSUME new \in facts PROVE n \in NumbersOf(k)
    BY <2>1 DEF NumbersOf
  <2>2. QED
    BY <2>1, <1>1 DEF FactTaken
<1>6. \A j \in FactKey :
        FactsOf(j)' = IF j = k THEN FactsOf(j) \cup {new} ELSE FactsOf(j)
  <2>1. new.key = k
    OBVIOUS
  <2> HIDE DEF new, k
  <2>2. QED
    BY <1>1, <2>1 DEF FactsOf
<1>7. \A j \in FactKey :
        Cardinality(FactsOf(j))' = IF j = k THEN c(j) + 1 ELSE c(j)
  <2> TAKE j \in FactKey
  <2>1. CASE j = k
    <3>1. new \notin FactsOf(j) /\ IsFiniteSet(FactsOf(j))
      BY <1>3, <1>5 DEF FactsOf
    <3>2. Cardinality(FactsOf(j) \cup {new}) = c(j) + 1
      BY <3>1, FS_AddElement
    <3>3. QED
      BY <2>1, <3>2, <1>6
  <2>2. CASE j # k
    BY <2>2, <1>6
  <2>3. QED
    BY <2>1, <2>2
<1>8. TypeOK'
  <2>1. new \in Fact
    BY <1>2 DEF Fact
  <2>2. Idle \in Txn
    BY DEF Txn
  <2>3. QED
    BY <1>1, <2>1, <2>2 DEF Inv, TypeOK
<1>9. RowInv'
  <2>1. IsFiniteSet(facts')
    BY <1>1, FS_AddElement DEF Inv, RowInv
  <2>2. \A w \in VersionNo : candidate'[w] # "none" <=> w \in approved
    BY <1>1, <1>2 DEF Inv, TypeOK, RowInv
  <2>3. QED
    BY <1>1, <2>1, <2>2 DEF Inv, RowInv
<1>10. FactsNumbered'
  <2> SUFFICES ASSUME NEW j \in FactKey
               PROVE  /\ NumbersOf(j)' = 1 .. Cardinality(FactsOf(j))'
                      /\ \A f, g \in facts' :
                           f.key = j /\ g.key = j /\ f.version = g.version => f = g
    BY DEF FactsNumbered, FactsOf
  <2>1. /\ NumbersOf(j) = 1 .. c(j) /\ c(j) \in Nat
        /\ \A f, g \in facts : f.key = j /\ g.key = j /\ f.version = g.version => f = g
    BY <1>3 DEF Inv, FactsNumbered
  <2>2. NumbersOf(j)' = {f.version : f \in FactsOf(j)'}
        /\ NumbersOf(j) = {f.version : f \in FactsOf(j)}
    BY DEF NumbersOf, FactsOf
  <2>3. new.version = n /\ new.key = k
    OBVIOUS
  <2>4. CASE j = k
    <3>1. FactsOf(j)' = FactsOf(j) \cup {new} /\ Cardinality(FactsOf(j))' = c(j) + 1
      BY <2>4, <1>6, <1>7
    <3>2. n = c(j) + 1
      BY <2>4, <1>4
    <3>3. n \notin NumbersOf(j)
      BY <2>4, <1>1 DEF FactTaken
    <3> HIDE DEF new, c, n, k
    <3>4. NumbersOf(j)' = NumbersOf(j) \cup {n}
      BY <2>2, <2>3, <3>1
    <3>5. NumbersOf(j)' = 1 .. (c(j) + 1)
      BY <3>2, <3>4, <2>1
    <3>6. \A f \in facts : f.key = j => f.version # n
      BY <2>2, <3>3 DEF FactsOf
    <3>7. QED
      BY <1>1, <2>1, <2>3, <3>1, <3>5, <3>6
  <2>5. CASE j # k
    <3> HIDE DEF new, c, n, k
    <3>1. FactsOf(j)' = FactsOf(j) /\ Cardinality(FactsOf(j))' = c(j)
      BY <2>5, <1>6, <1>7
    <3>2. NumbersOf(j)' = NumbersOf(j)
      BY <2>2, <3>1
    <3>3. QED
      BY <1>1, <2>1, <2>3, <2>5, <3>1, <3>2
  <2>6. QED
    BY <2>4, <2>5
<1>11. FactsComeFromApprovals'
  <2> SUFFICES ASSUME NEW f \in facts'
               PROVE  f.source \in approved /\ candidate'[f.source] = "promoted"
    BY <1>1 DEF FactsComeFromApprovals
  <2>1. CASE f = new
    BY <2>1, <1>1, <1>2 DEF Inv, TypeOK
  <2>2. CASE f \in facts
    <3>1. f.source \in VersionNo /\ f.source \in approved
          /\ candidate[f.source] = "promoted"
      BY <2>2 DEF Inv, TypeOK, Fact, FactsComeFromApprovals
    <3>2. QED
      BY <3>1, <1>1 DEF Inv, TypeOK
  <2>3. QED
    BY <2>1, <2>2, <1>1
<1>12. VersionsCounted' /\ OneApprovalPerVersion'
  BY <1>1 DEF Inv, VersionsCounted, OneApprovalPerVersion, Approvals, VersionOf
<1>13. TxnInv'
  <2>1. draft'.current \in Nat /\ draft.current <= draft'.current
    BY <1>1, BoundsOK DEF Inv, TypeOK, Draft
  <2>2. \A j \in FactKey :
          /\ Cardinality(FactsOf(j)) \in Nat
          /\ Cardinality(FactsOf(j))' \in Nat
          /\ Cardinality(FactsOf(j)) <= Cardinality(FactsOf(j))'
    <3>1. \A j \in FactKey : Cardinality(FactsOf(j)) \in Nat
      BY <1>3
    <3>2. QED
      BY <3>1, <1>7
  <2>3. /\ DOMAIN requests \subseteq DOMAIN requests'
        /\ \A i \in DOMAIN requests : requests'[i].version = requests[i].version
        /\ approved \subseteq approved' /\ txn' = [txn EXCEPT ![t] = Idle]
    BY <1>1
  <2>4. QED
    BY <2>1, <2>2, <2>3, CommitKeepsTxns
<1>14. QED
  BY <1>8, <1>9, <1>10, <1>11, <1>12, <1>13 DEF Inv

-----------------------------------------------------------------------------
\* Every step keeps the invariant.
THEOREM NextInv == Inv /\ [Next]_vars => Inv'
<1> SUFFICES ASSUME Inv, [Next]_vars PROVE Inv'
  OBVIOUS
<1>1. CASE UNCHANGED <<rows, txn>> /\ archived' \in BOOLEAN
  <2>1. UNCHANGED <<draft, versions, requests, decisions, approved, candidate,
                    facts, txn>>
    BY <1>1 DEF rows
  <2>2. TypeOK'
    BY <1>1, <2>1 DEF Inv, TypeOK
  <2>3. RowInv' /\ VersionsCounted' /\ FactsComeFromApprovals'
    BY <2>1 DEF Inv, RowInv, VersionsCounted, FactsComeFromApprovals
  <2>4. OneApprovalPerVersion'
    BY <2>1 DEF Inv, OneApprovalPerVersion, Approvals, VersionOf
  <2>5. FactsNumbered'
    BY <2>1, SameFacts
  <2>6. TxnInv'
    BY <2>1 DEF Inv, TxnInv, FactsOf
  <2>7. QED
    BY <2>2, <2>3, <2>4, <2>5, <2>6 DEF Inv
<1>2. CASE ArchiveOrRestore \/ UNCHANGED vars
  BY <1>1, <1>2 DEF ArchiveOrRestore, vars, Inv, TypeOK
<1>3. ASSUME NEW t \in Thread, RollsBack(t) PROVE Inv'
  BY <1>3, RollBackKeepsInv
<1>4. CASE Next /\ ~ArchiveOrRestore
  BY <1>3, <1>4, StartKeepsInv, ScanKeepsInv, EditKeepsInv, RequestKeepsInv,
     ApproveKeepsInv, RejectKeepsInv, PromoteKeepsInv
     DEF Next, EditRefused, DecideRefused, ApproveRefused, PromoteRefused, Aborts
<1>5. QED
  BY <1>2, <1>4

\* The inductive invariant holds of every reachable state.
THEOREM Invariance == Spec => []Inv
BY InitInv, NextInv, PTL DEF Spec

\* The draft's rows, and what the threads hold of them, are always well formed.
THEOREM TypeCorrect == Spec => []TypeOK
<1>1. Inv => TypeOK
  BY DEF Inv
<1>2. QED
  BY <1>1, Invariance, PTL

\* current_version counts the versions, whatever edits overlap.
THEOREM EditsNumberVersions == Spec => []VersionsCounted
<1>1. Inv => VersionsCounted
  BY DEF Inv
<1>2. QED
  BY <1>1, Invariance, PTL

\* A version is approved by exactly one decision, on a request for it.
THEOREM ApprovedOnce == Spec => []OneApprovalPerVersion
<1>1. Inv => OneApprovalPerVersion
  BY DEF Inv
<1>2. QED
  BY <1>1, Invariance, PTL

\* The facts of a key are numbered without gap or duplicate.
THEOREM PromotionsNumberFacts == Spec => []FactsNumbered
<1>1. Inv => FactsNumbered
  BY DEF Inv
<1>2. QED
  BY <1>1, Invariance, PTL

\* Project memory holds only what a human approved and promoted.
THEOREM MemoryIsApproved == Spec => []FactsComeFromApprovals
<1>1. Inv => FactsComeFromApprovals
  BY DEF Inv
<1>2. QED
  BY <1>1, Invariance, PTL
-----------------------------------------------------------------------------
(* PromotionsOverlap, from the invariant: a candidate that is found pending *)
(* has no fact yet.                                                         *)

\* The promotions of a candidate, and the facts it left, are finitely many.
LEMMA PromotionsFinite ==
    ASSUME Inv, NEW v \in VersionNo
    PROVE  /\ IsFiniteSet(FactsFrom(v)) /\ Cardinality(FactsFrom(v)) \in Nat
           /\ IsFiniteSet(Promoting(v)) /\ Cardinality(Promoting(v)) \in Nat
           /\ Cardinality(Promoting(v)) <= Cardinality(Thread)
           /\ Cardinality(Thread) \in Nat
<1>1. IsFiniteSet(facts) /\ FactsFrom(v) \in SUBSET facts
  BY DEF Inv, RowInv, FactsFrom
<1>2. IsFiniteSet(Thread) /\ Promoting(v) \in SUBSET Thread
  BY ThreadsOK DEF Promoting
<1> QED
  BY <1>1, <1>2, FS_Subset, FS_CardinalityType

\* Steps that add no fact, and after which no other thread promotes.
LEMMA FewerPromotions ==
    ASSUME Inv, Inv', PromotionsOverlap, facts' = facts,
           NEW v \in VersionNo, Promoting(v)' \subseteq Promoting(v)
    PROVE  Cardinality(FactsFrom(v))' + Cardinality(Promoting(v))'
             <= Cardinality(Thread)
<1> DEFINE before == Promoting(v)
           after  == Promoting(v)'
<1>1. FactsFrom(v)' = FactsFrom(v)
  BY DEF FactsFrom
<1>2. IsFiniteSet(before) /\ after \in SUBSET before
  BY PromotionsFinite
<1>3. Cardinality(after) <= Cardinality(before) /\ Cardinality(after) \in Nat
  <2> HIDE DEF before, after
  <2> QED
    BY <1>2, FS_Subset, FS_CardinalityType
<1>4. Cardinality(FactsFrom(v)) + Cardinality(before) <= Cardinality(Thread)
  BY DEF PromotionsOverlap
<1> HIDE DEF before, after
<1>5. Cardinality(FactsFrom(v)) + Cardinality(after) <= Cardinality(Thread)
  BY <1>3, <1>4, PromotionsFinite DEF before
<1> QED
  BY <1>1, <1>5 DEF after

\* A step that only says what its thread does next.
LEMMA OthersPromote ==
    ASSUME Inv, NEW t \in Thread, NEW next, Holds(t, next), NEW v \in VersionNo,
           next.op = "promote" /\ next.version = v => t \in Promoting(v)
    PROVE  Promoting(v)' \subseteq Promoting(v)
<1>1. txn'[t] = next /\ \A u \in Thread : u # t => txn'[u] = txn[u]
  BY DEF Holds, Inv, TypeOK
<1> QED
  BY <1>1 DEF Promoting

\* The promotion begins: the candidate is pending, and so left nothing.
LEMMA PromotionBegins ==
    ASSUME Inv, Inv', PromotionsOverlap, NEW t \in Thread, NEW v \in VersionNo,
           NEW k \in FactKey, PromoteReads(t, v, k)
    PROVE  PromotionsOverlap'
<1> DEFINE next == [op |-> "promote", at |-> "count", version |-> v, key |-> k]
<1>1. facts' = facts /\ Holds(t, next) /\ next.version = v
  BY DEF PromoteReads, Reads, rows
<1> HIDE DEF next
<1> SUFFICES ASSUME NEW w \in VersionNo
             PROVE  Cardinality(FactsFrom(w))' + Cardinality(Promoting(w))'
                      <= Cardinality(Thread)
  BY DEF PromotionsOverlap
<1>2. CASE w # v
  <2>1. Promoting(w)' \subseteq Promoting(w)
    BY <1>1, <1>2, OthersPromote
  <2> QED
    BY <1>1, <2>1, FewerPromotions
<1>3. CASE w = v
  <2>1. FactsFrom(w)' = {}
    <3>1. candidate[w] = "pending"
      BY <1>3 DEF PromoteReads, Pending
    <3> QED
      BY <1>1, <3>1 DEF FactsFrom, Inv, FactsComeFromApprovals
  <2>2. Cardinality(FactsFrom(w)') = 0
    BY <2>1, FS_EmptySet
  <2>3. /\ Cardinality(Promoting(w)') \in Nat
        /\ Cardinality(Promoting(w)') <= Cardinality(Thread)
    <3>1. IsFiniteSet(Thread) /\ Promoting(w)' \in SUBSET Thread
      BY ThreadsOK DEF Promoting
    <3> QED
      BY <3>1, FS_Subset, FS_CardinalityType
  <2> QED
    BY <2>2, <2>3
<1> QED
  BY <1>2, <1>3

\* It ends with a fact: one more, and one thread fewer.
LEMMA PromotionEnds ==
    ASSUME Inv, Inv', PromotionsOverlap, NEW t \in Thread, PromoteCommits(t)
    PROVE  PromotionsOverlap'
<1> DEFINE v == txn[t].version
           new == [key |-> txn[t].key, version |-> txn[t].number, source |-> v]
<1>1. v \in VersionNo /\ t \in Promoting(v)
  BY TxnFields DEF PromoteCommits, At, Inv, Promoting
<1>2. facts' = facts \cup {new} /\ new.source = v /\ Holds(t, Idle)
  BY DEF PromoteCommits
<1>3. txn'[t] = Idle /\ \A u \in Thread : u # t => txn'[u] = txn[u]
  BY <1>2 DEF Holds, Inv, TypeOK
<1>4. ASSUME NEW w \in VersionNo
      PROVE  /\ Promoting(w)' = Promoting(w) \ {t}
             /\ FactsFrom(w)' = IF w = v THEN FactsFrom(w) \cup {new} ELSE FactsFrom(w)
  <2> HIDE DEF new, v
  <2>1. Promoting(w)' = Promoting(w) \ {t}
    BY <1>3 DEF Promoting, Idle
  <2>2. FactsFrom(w)' = IF w = v THEN FactsFrom(w) \cup {new} ELSE FactsFrom(w)
    BY <1>2 DEF FactsFrom
  <2> QED
    BY <2>1, <2>2
<1> HIDE DEF new
<1> SUFFICES ASSUME NEW w \in VersionNo
             PROVE  Cardinality(FactsFrom(w)') + Cardinality(Promoting(w)')
                      <= Cardinality(Thread)
  BY DEF PromotionsOverlap
<1>5. /\ IsFiniteSet(FactsFrom(w)) /\ Cardinality(FactsFrom(w)) \in Nat
      /\ IsFiniteSet(Promoting(w)) /\ Cardinality(Promoting(w)) \in Nat
      /\ Cardinality(Thread) \in Nat
      /\ Cardinality(FactsFrom(w)) + Cardinality(Promoting(w)) <= Cardinality(Thread)
  BY PromotionsFinite DEF PromotionsOverlap
<1>6. CASE w = v
  <2>1. /\ Promoting(w)' = Promoting(w) \ {t} /\ t \in Promoting(w)
        /\ FactsFrom(w)' = FactsFrom(w) \cup {new}
    BY <1>1, <1>4, <1>6
  <2>2. Cardinality(Promoting(w)') = Cardinality(Promoting(w)) - 1
    BY <1>5, <2>1, FS_RemoveElement
  <2>3. \/ Cardinality(FactsFrom(w)') = Cardinality(FactsFrom(w)) + 1
        \/ Cardinality(FactsFrom(w)') = Cardinality(FactsFrom(w))
    <3>1. CASE new \in FactsFrom(w)
      <4>1. FactsFrom(w)' = FactsFrom(w)
        BY <2>1, <3>1
      <4> QED
        BY <4>1
    <3>2. CASE new \notin FactsFrom(w)
      BY <1>5, <2>1, <3>2, FS_AddElement
    <3> QED
      BY <3>1, <3>2
  <2> QED
    BY <1>5, <2>2, <2>3
<1>7. CASE w # v
  <2>1. FactsFrom(w)' = FactsFrom(w) /\ Promoting(w)' \in SUBSET Promoting(w)
    BY <1>4, <1>7
  <2>2. /\ Cardinality(Promoting(w)') <= Cardinality(Promoting(w))
        /\ Cardinality(Promoting(w)') \in Nat
    BY <1>5, <2>1, FS_Subset, FS_CardinalityType
  <2> QED
    BY <1>5, <2>1, <2>2
<1> QED
  BY <1>6, <1>7

\* Every step keeps PromotionsOverlap.
LEMMA PromotionsNext ==
    ASSUME Inv, Inv', PromotionsOverlap, [Next]_vars
    PROVE  PromotionsOverlap'
<1>1. ASSUME facts' = facts,
             \A v \in VersionNo : Promoting(v)' \subseteq Promoting(v)
      PROVE  PromotionsOverlap'
  BY <1>1, FewerPromotions DEF PromotionsOverlap
<1>2. CASE ArchiveOrRestore \/ UNCHANGED vars
  <2>1. facts' = facts /\ txn' = txn
    BY <1>2 DEF ArchiveOrRestore, vars, rows
  <2> QED
    BY <1>1, <2>1 DEF Promoting
<1>3. ASSUME NEW t \in Thread, NEW next, Holds(t, next), facts' = facts,
             next.op # "promote"
      PROVE  PromotionsOverlap'
  BY <1>1, <1>3, OthersPromote
<1>4. ASSUME NEW t \in Thread,
             \/ EditCommits(t) \/ RequestCommits(t)
             \/ ApproveCommits(t) \/ RejectCommits(t) \/ RollsBack(t)
      PROVE  PromotionsOverlap'
  <2>1. Holds(t, Idle) /\ facts' = facts
    BY <1>4 DEF EditCommits, RequestCommits, ApproveCommits, RejectCommits,
       Record, RollsBack, Reads, rows
  <2> QED
    BY <1>3, <2>1 DEF Idle
<1>5. ASSUME NEW t \in Thread,
             \/ EditReads(t) \/ EditScans(t) \/ DecideFinds(t)
             \/ \E v \in VersionNo :
                  RequestReads(t, v) \/ \E d \in Decision : DecideReads(t, v, d)
      PROVE  PromotionsOverlap'
  <2>1. facts' = facts
    BY <1>5 DEF EditReads, EditScans, DecideFinds, RequestReads, DecideReads, Reads, rows
  <2>2. \E next : Holds(t, next) /\ next.op # "promote"
    <3>1. CASE EditReads(t)
      <4>1. [op |-> "edit", at |-> "scan", seen |-> draft].op # "promote"
        OBVIOUS
      <4> QED
        BY <3>1, <4>1 DEF EditReads, Reads
    <3>2. CASE EditScans(t)
      <4> DEFINE next == [op |-> "edit", at |-> "commit", seen |-> txn[t].seen,
                          found |-> UNION {AwaitingOn(v) : v \in VersionNo}]
      <4>1. Holds(t, next) /\ next.op = "edit"
        BY <3>2 DEF EditScans, Reads
      <4> HIDE DEF next
      <4> QED
        BY <4>1
    <3>3. CASE DecideFinds(t)
      <4>1. PICK i : Holds(t, [op |-> txn[t].op, at |-> "commit", seen |-> txn[t].seen,
                               version |-> txn[t].version, found |-> i])
        BY <3>3 DEF DecideFinds, Reads
      <4>2. txn[t].op # "promote"
        BY <3>3 DEF DecideFinds, Decision
      <4> QED
        BY <4>1, <4>2
    <3>4. ASSUME NEW v \in VersionNo, RequestReads(t, v)
          PROVE  \E next : Holds(t, next) /\ next.op # "promote"
      <4> DEFINE next == [op |-> "request", seen |-> draft, version |-> v]
      <4>1. Holds(t, next) /\ next.op = "request"
        BY <3>4 DEF RequestReads, Reads
      <4> HIDE DEF next
      <4> QED
        BY <4>1
    <3>5. ASSUME NEW v \in VersionNo, NEW d \in Decision, DecideReads(t, v, d)
          PROVE  \E next : Holds(t, next) /\ next.op # "promote"
      <4> DEFINE next == [op |-> d, at |-> "find", seen |-> draft, version |-> v]
      <4>1. Holds(t, next) /\ next.op = d /\ d # "promote"
        BY <3>5 DEF DecideReads, Reads, Decision
      <4> HIDE DEF next
      <4> QED
        BY <4>1
    <3> QED
      BY <1>5, <3>1, <3>2, <3>3, <3>4, <3>5
  <2> QED
    BY <1>3, <2>1, <2>2
<1>6. ASSUME NEW t \in Thread, PromoteCounts(t)
      PROVE  PromotionsOverlap'
  <2>1. PICK n : Holds(t, [op |-> "promote", at |-> "commit", version |-> txn[t].version,
                           key |-> txn[t].key, number |-> n])
    BY <1>6 DEF PromoteCounts, Reads
  <2>2. facts' = facts /\ txn[t].op = "promote"
    BY <1>6 DEF PromoteCounts, At, Reads, rows
  <2> DEFINE next == [op |-> "promote", at |-> "commit", version |-> txn[t].version,
                      key |-> txn[t].key, number |-> n]
  <2>3. Holds(t, next) /\ next.version = txn[t].version
    BY <2>1
  <2> HIDE DEF next
  <2>4. \A v \in VersionNo : next.version = v => t \in Promoting(v)
    BY <2>2, <2>3 DEF Promoting
  <2>5. \A v \in VersionNo : Promoting(v)' \subseteq Promoting(v)
    BY <2>3, <2>4, OthersPromote
  <2> QED
    BY <1>1, <2>2, <2>5
<1> QED
  BY <1>2, <1>4, <1>5, <1>6, PromotionBegins, PromotionEnds
     DEF Next, EditRefused, DecideRefused, ApproveRefused, PromoteRefused, Aborts

\* A candidate leaves a fact only through promotions that overlapped, for any
\* finite set of threads.
THEOREM PromotionsMustOverlap == Spec => []PromotionsOverlap
<1>1. Init => PromotionsOverlap
  <2> SUFFICES ASSUME Init, NEW v \in VersionNo
               PROVE  Cardinality(FactsFrom(v)) + Cardinality(Promoting(v))
                        <= Cardinality(Thread)
    BY DEF PromotionsOverlap
  <2>1. FactsFrom(v) = {}
    BY DEF Init, FactsFrom
  <2>2. Cardinality(FactsFrom(v)) = 0
    BY <2>1, FS_EmptySet
  <2> QED
    BY <2>2, InitInv, PromotionsFinite
<1> QED
  BY <1>1, Invariance, PromotionsNext, PTL DEF Spec
=============================================================================
