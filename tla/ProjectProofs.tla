---------------------------- MODULE ProjectProofs ----------------------------
(***************************************************************************)
(* Proofs about the rows of a project that handlers write from what they    *)
(* have read: ProjectLifecycle, for any threads, keys and codes and any     *)
(* bounds, and Pricing, for any amounts, shares and bounds.                 *)
(*                                                                          *)
(* ProjectLifecycle.  What a thread read is old when it writes it back.     *)
(* The invariant says what is left of it: the project still exists, and its *)
(* context_version was no further than the changes committed since          *)
(* (TxnInv).  A key's row is never touched again (RowInv), which carries    *)
(* the answers.                                                             *)
(*                                                                          *)
(* Pricing.  An estimate outlives the state it was computed in: rows may be *)
(* approved again, by whom may, while it is under way.  What it relied on   *)
(* stays (Kept: source, price, quantity, and that an owner signed), so that *)
(* an estimate once computed from signed rows remains so                    *)
(* (EstimatesComputed).  Totals are then a matter of arithmetic, with one   *)
(* tolerance for each rounding.  A sum over the lines is the last of the    *)
(* partial sums that SumFunction defines (Sums); two of them are compared   *)
(* by induction on the number of terms, taken as the absence of a least     *)
(* counterexample (LeastNatural), so that the bound holds of any number of  *)
(* lines.  LateWritersOnly needs who was in flight at the archival          *)
(* (LateKnown).                                                             *)
(***************************************************************************)
EXTENDS ProjectLifecycle, Pricing, FiniteSetTheorems, WellFoundedInduction, TLAPS

-----------------------------------------------------------------------------
(* ProjectLifecycle.                                                        *)

\* A key without a project has no row, and only a project is archived.
RowInv ==
    /\ \A k \in Key : idem[k].project = 0 => idem[k] = NoRow
    /\ \A p \in ProjectId : projects[p].archived => Exists(p)

\* The steps that hold a project they have read.
Writers == {"check", "update", "write", "archive", "restore"}

\* What a thread read of a project was no further than its changes.
TxnInv ==
    \A t \in Thread :
        txn[t].op \in Writers =>
            /\ Exists(txn[t].project)
            /\ 0 < txn[t].seen.context
            /\ txn[t].seen.context <= changes[txn[t].project] + 1

\* The inductive invariant of the projects.
Inv ==
    /\ TypeOK
    /\ RowInv
    /\ TxnInv
    /\ OneProjectPerKey
    /\ NoOrphanProject
    /\ CodesUnique
    /\ ContextNeverAhead

-----------------------------------------------------------------------------
\* The fields a thread holds, by what it is doing.
LEMMA TxnFields ==
    ASSUME TypeOK, NEW t \in Thread
    PROVE  /\ txn[t].op \in {"lookup", "insert", "recover"} =>
                txn[t].key \in Key /\ txn[t].code \in AnyCode
           /\ txn[t].op \in {"check", "update"} => txn[t].code \in AnyCode
           /\ txn[t].op \in Writers =>
                txn[t].project \in ProjectId /\ txn[t].seen \in Project
<1>1. txn[t] \in Txn
  BY DEF TypeOK
<1>2. QED
  BY <1>1 DEF Txn, Idle, Writers

\* A tenant without projects.
THEOREM InitInv == Init => Inv
<1> SUFFICES ASSUME Init PROVE Inv
  OBVIOUS
<1>1. Absent \in Project /\ NoRow \in [sha : AnyCode, project : 0 .. MaxProjects]
  BY BoundsOK DEF Absent, NoRow, Project, AnyCode
<1>2. TypeOK
  BY <1>1, BoundsOK DEF Init, TypeOK, Txn
<1>3. \A p \in ProjectId : ~Exists(p)
  BY DEF Init, Exists, Absent
<1>4. NoOrphanProject /\ RowInv
  BY <1>3 DEF Init, NoOrphanProject, RowInv, NoRow, Absent
<1>5. TxnInv
  BY DEF Init, TxnInv, Idle, Writers
<1>6. QED
  BY <1>2, <1>3, <1>4, <1>5
     DEF Inv, Init, OneProjectPerKey, CodesUnique, ContextNeverAhead

-----------------------------------------------------------------------------
\* A read keeps the invariant when what it leaves with the thread does.
LEMMA ReadKeepsInv ==
    ASSUME Inv, NEW t \in Thread, NEW next \in Txn, Reads(t, next),
           next.op \in Writers =>
             /\ Exists(next.project)
             /\ 0 < next.seen.context
             /\ next.seen.context <= changes[next.project] + 1
    PROVE  Inv'
<1>1. /\ UNCHANGED <<projects, idem, answered, changes>>
      /\ txn' = [txn EXCEPT ![t] = next]
  BY DEF Reads, Holds, rows
<1>2. TypeOK'
  BY <1>1 DEF Inv, TypeOK
<1>3. RowInv' /\ OneProjectPerKey' /\ NoOrphanProject' /\ CodesUnique'
      /\ ContextNeverAhead'
  BY <1>1 DEF Inv, RowInv, OneProjectPerKey, NoOrphanProject, CodesUnique,
              ContextNeverAhead, Exists
<1>4. TxnInv'
  <2> SUFFICES ASSUME NEW u \in Thread, txn'[u].op \in Writers
               PROVE  /\ Exists(txn'[u].project)
                      /\ 0 < txn'[u].seen.context
                      /\ txn'[u].seen.context <= changes[txn'[u].project] + 1
    BY <1>1 DEF TxnInv, Exists
  <2>1. CASE u = t
    BY <2>1, <1>1 DEF Inv, TypeOK
  <2>2. CASE u # t
    BY <2>2, <1>1 DEF Inv, TypeOK, TxnInv
  <2>3. QED
    BY <2>1, <2>2
<1>5. QED
  BY <1>2, <1>3, <1>4 DEF Inv

\* Every refusal and every death of a thread.
LEMMA RollBackKeepsInv ==
    ASSUME Inv, NEW t \in Thread, RollsBack(t)
    PROVE  Inv'
<1>1. Idle \in Txn /\ Idle.op \notin Writers
  BY DEF Txn, Idle, Writers
<1>2. QED
  BY <1>1, ReadKeepsInv DEF RollsBack

\* create_project's way from the first look to the insertion or the recovery.
LEMMA LookKeepsInv ==
    ASSUME Inv, NEW t \in Thread,
           \/ LookupMisses(t) \/ InsertConflicts(t)
           \/ \E k \in Key, c \in AnyCode : CreateStarts(t, k, c)
    PROVE  Inv'
<1>1. ASSUME NEW op \in {"lookup", "insert", "recover"},
             NEW k \in Key, NEW c \in AnyCode,
             Reads(t, [op |-> op, key |-> k, code |-> c])
      PROVE  Inv'
  <2>1. [op |-> op, key |-> k, code |-> c] \in Txn
    BY DEF Txn
  <2>2. [op |-> op, key |-> k, code |-> c].op \notin Writers
    BY DEF Writers
  <2>3. QED
    BY <1>1, <2>1, <2>2, ReadKeepsInv
<1>2. CASE \E k \in Key, c \in AnyCode : CreateStarts(t, k, c)
  BY <1>1, <1>2 DEF CreateStarts
<1>3. ASSUME txn[t].op \in {"lookup", "insert"}, NEW op \in {"insert", "recover"},
             Reads(t, [txn[t] EXCEPT !.op = op])
      PROVE  Inv'
  <2>1. txn[t] \in [op : {"lookup", "insert", "recover"}, key : Key, code : AnyCode]
    <3>1. txn[t] \in Txn
      BY DEF Inv, TypeOK
    <3>2. QED
      BY <3>1, <1>3 DEF Txn, Idle
  <2>2. [txn[t] EXCEPT !.op = op] = [op |-> op, key |-> txn[t].key, code |-> txn[t].code]
    BY <2>1
  <2>3. txn[t].key \in Key /\ txn[t].code \in AnyCode
    BY <2>1
  <2>4. QED
    BY <1>3, <2>2, <2>3, <1>1
<1>4. QED
  BY <1>2, <1>3 DEF LookupMisses, InsertConflicts

\* The reads of the handlers that write under a project.
LEMMA ProjectReadKeepsInv ==
    ASSUME Inv, NEW t \in Thread, NEW p \in ProjectId,
           \/ WriteReads(t, p) \/ ArchiveReads(t, p) \/ RestoreReads(t, p)
           \/ \E c \in AnyCode : UpdateReads(t, p, c)
    PROVE  Inv'
<1>1. projects[p] \in Project
  BY DEF Inv, TypeOK
<1>2. Exists(p)
  BY DEF Inv, RowInv, WriteReads, ArchiveReads, RestoreReads, UpdateReads, ReadsMutable
<1>3. /\ 0 < projects[p].context
      /\ projects[p].context <= changes[p] + 1
  BY <1>2 DEF Inv, ContextNeverAhead, Exists
<1>4. ASSUME NEW op \in {"write", "archive", "restore"},
             Reads(t, [op |-> op, project |-> p, seen |-> projects[p]])
      PROVE  Inv'
  <2>1. [op |-> op, project |-> p, seen |-> projects[p]] \in Txn
    BY <1>1 DEF Txn
  <2>2. QED
    BY <1>2, <1>3, <1>4, <2>1, ReadKeepsInv
<1>5. ASSUME NEW c \in AnyCode, UpdateReads(t, p, c) PROVE Inv'
  <2>1. [op |-> "check", project |-> p, seen |-> projects[p], code |-> c] \in Txn
    BY <1>1 DEF Txn
  <2>2. QED
    BY <1>2, <1>3, <1>5, <2>1, ReadKeepsInv DEF UpdateReads
<1>6. QED
  BY <1>4, <1>5 DEF WriteReads, ArchiveReads, RestoreReads

\* update_project's check of the code.
LEMMA CheckKeepsInv ==
    ASSUME Inv, NEW t \in Thread, UpdateChecks(t)
    PROVE  Inv'
<1>1. txn[t] \in [op : {"check", "update"}, project : ProjectId, seen : Project,
                  code : AnyCode]
  <2>1. txn[t] \in Txn /\ txn[t].op = "check"
    BY DEF Inv, TypeOK, UpdateChecks
  <2>2. QED
    BY <2>1 DEF Txn, Idle
<1>2. /\ Exists(txn[t].project)
      /\ 0 < txn[t].seen.context
      /\ txn[t].seen.context <= changes[txn[t].project] + 1
  BY DEF Inv, TxnInv, UpdateChecks, Writers
<1> DEFINE next == [txn[t] EXCEPT !.op = "update"]
<1>3. next \in Txn /\ next.project = txn[t].project /\ next.seen = txn[t].seen
  BY <1>1 DEF Txn
<1>4. Reads(t, next)
  BY DEF UpdateChecks
<1> HIDE DEF next
<1>5. QED
  BY <1>2, <1>3, <1>4, ReadKeepsInv

-----------------------------------------------------------------------------
\* The other threads keep what they hold while a project moves on: it stays,
\* and its changes only grow.
LEMMA CommitKeepsTxns ==
    ASSUME Inv, NEW t \in Thread, txn' = [txn EXCEPT ![t] = Idle],
           \A p \in ProjectId : Exists(p) => projects'[p].context > 0,
           \A p \in ProjectId : changes'[p] \in Nat /\ changes[p] <= changes'[p]
    PROVE  TxnInv'
<1> SUFFICES ASSUME NEW u \in Thread, txn'[u].op \in Writers
             PROVE  /\ projects'[txn'[u].project].context > 0
                    /\ 0 < txn'[u].seen.context
                    /\ txn'[u].seen.context <= changes'[txn'[u].project] + 1
  BY DEF TxnInv, Exists
<1>1. u # t /\ txn'[u] = txn[u]
  BY DEF Inv, TypeOK, Idle, Writers
<1> DEFINE p == txn[u].project
           c == txn[u].seen.context
<1>2. p \in ProjectId /\ txn[u].seen \in Project
  BY <1>1, TxnFields DEF Inv
<1>3. c \in Nat /\ changes[p] \in Nat
  BY <1>2, BoundsOK DEF Inv, TypeOK, Project
<1>4. Exists(p) /\ 0 < c /\ c <= changes[p] + 1
  BY <1>1 DEF Inv, TxnInv
<1>5. changes'[p] \in Nat /\ changes[p] <= changes'[p]
  BY <1>2
<1>6. QED
  BY <1>1, <1>2, <1>3, <1>4, <1>5

\* A replay answers with the key's own row.
LEMMA ReplayKeepsInv ==
    ASSUME Inv, NEW t \in Thread, Replay(t)
    PROVE  Inv'
<1> DEFINE k == txn[t].key
           a == [key |-> k, code |-> txn[t].code, project |-> idem[k].project]
<1>1. k \in Key /\ txn[t].code \in AnyCode
  BY TxnFields DEF Inv, Replay, Looks
<1>2. /\ idem[k] # NoRow /\ idem[k].sha = txn[t].code
      /\ answered' = answered \cup {a}
      /\ txn' = [txn EXCEPT ![t] = Idle]
      /\ UNCHANGED <<projects, idem, changes>>
  BY DEF Replay, SamePayload, Holds, rows
<1>3. idem[k] \in [sha : AnyCode, project : 0 .. MaxProjects]
  BY <1>1 DEF Inv, TypeOK
<1>4. idem[k].project \in ProjectId
  BY <1>1, <1>2, <1>3, BoundsOK DEF Inv, RowInv, ProjectId
<1>5. a \in [key : Key, code : AnyCode, project : ProjectId]
  BY <1>1, <1>4
<1>6. idem[k] = [sha |-> txn[t].code, project |-> idem[k].project]
  BY <1>2, <1>3
<1>7. TypeOK'
  <2>1. Idle \in Txn
    BY DEF Txn
  <2>2. QED
    BY <1>2, <1>5, <2>1 DEF Inv, TypeOK
<1>8. OneProjectPerKey'
  <2> SUFFICES ASSUME NEW b \in answered'
               PROVE  idem[b.key] = [sha |-> b.code, project |-> b.project]
    BY <1>2 DEF OneProjectPerKey
  <2>1. CASE b = a
    BY <2>1, <1>6
  <2>2. CASE b # a
    BY <2>2, <1>2 DEF Inv, OneProjectPerKey
  <2>3. QED
    BY <2>1, <2>2
<1>9. RowInv' /\ NoOrphanProject' /\ CodesUnique' /\ ContextNeverAhead'
  BY <1>2 DEF Inv, RowInv, NoOrphanProject, CodesUnique, ContextNeverAhead, Exists
<1>10. TxnInv'
  <2>1. \A p \in ProjectId : Exists(p) => projects'[p].context > 0
    BY <1>2 DEF Exists
  <2>2. \A p \in ProjectId : changes'[p] \in Nat /\ changes[p] <= changes'[p]
    BY <1>2, BoundsOK DEF Inv, TypeOK
  <2>3. QED
    BY <1>2, <2>1, <2>2, CommitKeepsTxns
<1>11. QED
  BY <1>7, <1>8, <1>9, <1>10 DEF Inv

\* The insertion: a new project, the row of its key, and maybe the answer.
LEMMA InsertKeepsInv ==
    ASSUME Inv, NEW t \in Thread, Insert(t)
    PROVE  Inv'
<1> DEFINE k == txn[t].key
           c == txn[t].code
<1>1. /\ idem[k] = NoRow /\ ~CodeTaken(c, 0)
      /\ txn' = [txn EXCEPT ![t] = Idle] /\ changes' = changes
      /\ k \in Key /\ c \in AnyCode
  BY TxnFields DEF Inv, Insert, KeyTaken, Holds
<1>2. PICK p \in ProjectId :
        /\ ~Exists(p)
        /\ projects' = [projects EXCEPT ![p] =
             [code |-> c, context |-> 1, archived |-> FALSE]]
        /\ idem' = [idem EXCEPT ![k] = [sha |-> c, project |-> p]]
        /\ answered' \in {answered, answered \cup
             {[key |-> k, code |-> c, project |-> p]}}
  BY DEF Insert
<1> DEFINE row == [code |-> c, context |-> 1, archived |-> FALSE]
           a   == [key |-> k, code |-> c, project |-> p]
<1>3. row \in Project /\ row.code = c /\ row.context = 1 /\ row.archived = FALSE
  BY <1>1, BoundsOK DEF Project
<1>4. /\ projects'[p] = row
      /\ \A q \in ProjectId \ {p} : projects'[q] = projects[q]
      /\ idem'[k] = [sha |-> c, project |-> p]
      /\ \A j \in Key \ {k} : idem'[j] = idem[j]
  BY <1>1, <1>2 DEF Inv, TypeOK
<1>5. p \in 0 .. MaxProjects /\ p # 0
  BY <1>2, BoundsOK DEF ProjectId
<1> HIDE DEF row
<1>6. TypeOK'
  <2>1. Idle \in Txn
    BY DEF Txn
  <2>2. projects' \in [ProjectId -> Project] /\ txn' \in [Thread -> Txn]
    BY <1>1, <1>2, <1>3, <2>1 DEF Inv, TypeOK, row
  <2>3. idem' \in [Key -> [sha : AnyCode, project : 0 .. MaxProjects]]
    BY <1>1, <1>2, <1>5 DEF Inv, TypeOK
  <2>4. a \in [key : Key, code : AnyCode, project : ProjectId]
    BY <1>1
  <2>5. answered' \subseteq [key : Key, code : AnyCode, project : ProjectId]
    BY <1>2, <2>4 DEF Inv, TypeOK
  <2>6. QED
    BY <1>1, <2>2, <2>3, <2>5 DEF Inv, TypeOK
<1>7. \A q \in ProjectId : Exists(q)' <=> Exists(q) \/ q = p
  BY <1>3, <1>4 DEF Exists
<1>8. RowInv'
  <2>1. ASSUME NEW j \in Key, idem'[j].project = 0
        PROVE  idem'[j] = NoRow
    <3>1. j # k
      BY <2>1, <1>4, <1>5
    <3> QED
      BY <2>1, <3>1, <1>4 DEF Inv, RowInv
  <2>2. ASSUME NEW q \in ProjectId, projects'[q].archived
        PROVE  Exists(q)'
    <3>1. q # p
      BY <2>2, <1>3, <1>4
    <3> QED
      BY <2>2, <3>1, <1>4, <1>7 DEF Inv, RowInv
  <2> QED
    BY <2>1, <2>2 DEF RowInv
<1>9. TxnInv'
  <2>1. \A q \in ProjectId : Exists(q) => projects'[q].context > 0
    BY <1>7 DEF Exists
  <2>2. \A q \in ProjectId : changes'[q] \in Nat /\ changes[q] <= changes'[q]
    BY <1>1, BoundsOK DEF Inv, TypeOK
  <2>3. QED
    BY <1>1, <2>1, <2>2, CommitKeepsTxns
<1>10. OneProjectPerKey'
  <2> SUFFICES ASSUME NEW b \in answered'
               PROVE  idem'[b.key] = [sha |-> b.code, project |-> b.project]
    BY DEF OneProjectPerKey
  <2>1. CASE b = a
    BY <2>1, <1>4
  <2>2. CASE b # a
    <3>1. b \in answered /\ b.key \in Key /\ b.project \in ProjectId
      BY <2>2, <1>2 DEF Inv, TypeOK
    <3>2. idem[b.key] = [sha |-> b.code, project |-> b.project]
      BY <3>1 DEF Inv, OneProjectPerKey
    <3>3. b.key # k
      BY <3>1, <3>2, <1>1, BoundsOK DEF NoRow, ProjectId
    <3>4. QED
      BY <3>1, <3>2, <3>3, <1>4
  <2>3. QED
    BY <2>1, <2>2
<1>11. NoOrphanProject'
  <2>1. \A j \in Key : idem[j].project # p
    BY <1>2, <1>5 DEF Inv, NoOrphanProject
  <2>2. ({idem[j].project : j \in Key} \ {0})' =
          ({idem[j].project : j \in Key} \ {0}) \cup {p}
    BY <1>1, <1>4, <1>5 DEF NoRow
  <2>3. {q \in ProjectId : Exists(q)}' = {q \in ProjectId : Exists(q)} \cup {p}
    BY <1>7
  <2>4. \A i, j \in Key :
          idem'[i].project = idem'[j].project /\ idem'[i].project # 0 => i = j
    BY <1>4, <2>1 DEF Inv, NoOrphanProject
  <2>5. QED
    BY <2>2, <2>3, <2>4 DEF Inv, NoOrphanProject
<1>12. CodesUnique'
  <2>1. c # NoCode => \A q \in ProjectId : Exists(q) => projects[q].code # c
    BY <1>1, BoundsOK DEF CodeTaken, ProjectId
  <2>2. QED
    BY <2>1, <1>3, <1>4, <1>7 DEF Inv, CodesUnique
<1>13. ContextNeverAhead'
  <2>1. \A q \in ProjectId : changes[q] \in Nat
    BY BoundsOK DEF Inv, TypeOK
  <2>2. QED
    BY <2>1, <1>1, <1>3, <1>4, <1>7 DEF Inv, ContextNeverAhead
<1>14. QED
  BY <1>6, <1>8, <1>9, <1>10, <1>11, <1>12, <1>13 DEF Inv

\* A change of a project, as every writer commits it: the code is the
\* project's own or one that no other project has.
LEMMA CommitKeepsInv ==
    ASSUME Inv, NEW t \in Thread, txn[t].op \in Writers,
           NEW row \in Project, Commit(t, row),
           row.code = projects[txn[t].project].code
             \/ ~CodeTaken(row.code, txn[t].project)
    PROVE  Inv'
<1> DEFINE p == txn[t].project
           n == txn[t].seen.context
           new == [row EXCEPT !.context = n + 1]
<1>1. /\ p \in ProjectId /\ txn[t].seen \in Project
      /\ Exists(p) /\ 0 < n /\ n <= changes[p] + 1
  BY TxnFields DEF Inv, TxnInv
<1>2. /\ changes[p] < MaxChanges
      /\ projects' = [projects EXCEPT ![p] = new]
      /\ changes' = [changes EXCEPT ![p] = @ + 1]
      /\ txn' = [txn EXCEPT ![t] = Idle]
      /\ UNCHANGED <<idem, answered>>
  BY DEF Commit, Holds
<1>3. n \in Nat /\ changes[p] \in Nat
  BY <1>1, BoundsOK DEF Inv, TypeOK, Project
<1>4. /\ new \in Project /\ new.code = row.code
      /\ new.context = n + 1 /\ new.archived = row.archived
  <2>1. n + 1 \in 0 .. MaxChanges + 1
    BY <1>1, <1>2, <1>3, BoundsOK
  <2>2. QED
    BY <2>1 DEF Project
<1> HIDE DEF new
<1>5. /\ projects'[p] = new /\ changes'[p] = changes[p] + 1
      /\ \A q \in ProjectId \ {p} :
           projects'[q] = projects[q] /\ changes'[q] = changes[q]
  BY <1>1, <1>2 DEF Inv, TypeOK
<1>6. TypeOK'
  <2>1. Idle \in Txn
    BY DEF Txn
  <2>2. changes[p] + 1 \in 0 .. MaxChanges
    BY <1>2, <1>3, BoundsOK
  <2>3. QED
    BY <1>1, <1>2, <1>4, <2>1, <2>2 DEF Inv, TypeOK
<1>7. \A q \in ProjectId : Exists(q)' <=> Exists(q)
  BY <1>1, <1>3, <1>4, <1>5 DEF Exists
<1>8. RowInv'
  BY <1>1, <1>2, <1>5, <1>7 DEF Inv, RowInv
<1>9. TxnInv'
  <2>1. \A q \in ProjectId : Exists(q) => projects'[q].context > 0
    BY <1>7 DEF Exists
  <2>2. \A q \in ProjectId : changes[q] \in Nat
    BY BoundsOK DEF Inv, TypeOK
  <2>3. \A q \in ProjectId : changes'[q] \in Nat /\ changes[q] <= changes'[q]
    BY <1>5, <2>2
  <2>4. QED
    BY <1>2, <2>1, <2>3, CommitKeepsTxns
<1>10. OneProjectPerKey' /\ NoOrphanProject'
  BY <1>2, <1>7 DEF Inv, OneProjectPerKey, NoOrphanProject
<1>11. CodesUnique'
  <2>1. new.code # NoCode =>
          \A q \in ProjectId \ {p} : Exists(q) => projects[q].code # new.code
    BY <1>1, <1>4 DEF Inv, CodesUnique, CodeTaken
  <2>2. QED
    BY <2>1, <1>5, <1>7 DEF Inv, CodesUnique
<1>12. ContextNeverAhead'
  <2>1. \A q \in ProjectId : changes[q] \in Nat
    BY BoundsOK DEF Inv, TypeOK
  <2>2. projects'[p].context <= changes'[p] + 1
    BY <1>1, <1>3, <1>4, <1>5
  <2>3. QED
    BY <2>1, <2>2, <1>5, <1>7 DEF Inv, ContextNeverAhead
<1>13. QED
  BY <1>6, <1>8, <1>9, <1>10, <1>11, <1>12 DEF Inv

\* update_project, archive_project, restore_project and the writers.
LEMMA WriteKeepsInv ==
    ASSUME Inv, NEW t \in Thread,
           Update(t) \/ Write(t) \/ Archive(t) \/ Restore(t)
    PROVE  Inv'
<1> DEFINE old == projects[txn[t].project]
<1>1. txn[t].op \in Writers
  BY DEF Update, Write, Archive, Restore, Writers
<1>2. old \in Project
  BY <1>1, TxnFields DEF Inv, TypeOK
<1>3. CASE Update(t)
  <2> DEFINE row == [old EXCEPT !.code = txn[t].code]
  <2>1. txn[t].code \in AnyCode
    BY <1>3, TxnFields DEF Inv, Update
  <2>2. row \in Project /\ row.code = txn[t].code
    BY <1>2, <2>1 DEF Project
  <2>3. Commit(t, row) /\ ~CodeTaken(txn[t].code, txn[t].project)
    BY <1>3 DEF Update
  <2> HIDE DEF row
  <2>4. QED
    BY <1>1, <2>2, <2>3, CommitKeepsInv
<1>4. CASE Write(t)
  BY <1>1, <1>2, <1>4, CommitKeepsInv DEF Write
<1>5. ASSUME NEW b \in BOOLEAN, Commit(t, [old EXCEPT !.archived = b]) PROVE Inv'
  <2> DEFINE row == [old EXCEPT !.archived = b]
  <2>1. row \in Project /\ row.code = old.code
    BY <1>2 DEF Project
  <2>2. Commit(t, row)
    BY <1>5
  <2> HIDE DEF row
  <2>3. QED
    BY <1>1, <2>1, <2>2, CommitKeepsInv
<1>6. QED
  BY <1>3, <1>4, <1>5 DEF Archive, Restore

-----------------------------------------------------------------------------
\* Every step keeps the invariant.
THEOREM NextInv == Inv /\ [Next]_vars => Inv'
<1> SUFFICES ASSUME Inv, [Next]_vars PROVE Inv'
  OBVIOUS
<1>1. CASE UNCHANGED vars
  BY <1>1 DEF vars, rows, Inv, TypeOK, RowInv, TxnInv, OneProjectPerKey,
              NoOrphanProject, CodesUnique, ContextNeverAhead, Exists
<1>2. ASSUME NEW t \in Thread, RollsBack(t) PROVE Inv'
  BY <1>2, RollBackKeepsInv
<1>3. CASE Next
  BY <1>2, <1>3, ReplayKeepsInv, LookKeepsInv, InsertKeepsInv, CheckKeepsInv,
     WriteKeepsInv, ProjectReadKeepsInv
     DEF Next, KeyReused, NothingToRecover, UpdateRefused, UpdateConflicts, Aborts
<1>4. QED
  BY <1>1, <1>3

\* The inductive invariant holds of every reachable state.
THEOREM Invariance == Spec => []Inv
BY InitInv, NextInv, PTL DEF Spec

\* The state of the projects is always well formed; with it context_version
\* stays below its bound, although each writer adds to what it read.
THEOREM TypeCorrect == Spec => []TypeOK
<1>1. Inv => TypeOK
  BY DEF Inv
<1>2. QED
  BY <1>1, Invariance, PTL

\* One key, one project: every 201 carries the key's own payload and project.
THEOREM KeysDecideOnce == Spec => []OneProjectPerKey
<1>1. Inv => OneProjectPerKey
  BY DEF Inv
<1>2. QED
  BY <1>1, Invariance, PTL

\* Every project was created under exactly one key: a creation leaves all of
\* its rows or none.
THEOREM NoOrphans == Spec => []NoOrphanProject
<1>1. Inv => NoOrphanProject
  BY DEF Inv
<1>2. QED
  BY <1>1, Invariance, PTL

\* No two projects of the tenant share a code.
THEOREM CodesAreUnique == Spec => []CodesUnique
<1>1. Inv => CodesUnique
  BY DEF Inv
<1>2. QED
  BY <1>1, Invariance, PTL

\* context_version never counts a change that was not committed.
THEOREM ContextBounded == Spec => []ContextNeverAhead
<1>1. Inv => ContextNeverAhead
  BY DEF Inv
<1>2. QED
  BY <1>1, Invariance, PTL

-----------------------------------------------------------------------------
(* Pricing.                                                                 *)

\* Every set of natural numbers that is not empty has a least element: the
\* intervals up to its elements are ordered by inclusion, which is well founded.
LEMMA LeastNatural ==
    ASSUME NEW S \in SUBSET Nat, S # {}
    PROVE  \E x \in S : \A y \in S : x <= y
<1> DEFINE T == {0 .. n : n \in S}
<1>1. T \subseteq FiniteSubsetsOf(Nat) /\ T # {}
  <2>1. \A n \in S : 0 .. n \in SUBSET Nat /\ IsFiniteSet(0 .. n)
    BY FS_Interval
  <2> QED
    BY <2>1 DEF FiniteSubsetsOf
<1>2. PICK s \in T : \A r \in T : ~ (<<r, s>> \in StrictSubsetOrdering(Nat))
  BY <1>1, FS_StrictSubsetOrderingWellFounded, WFMin
<1>3. PICK x \in S : s = 0 .. x
  OBVIOUS
<1>4. ASSUME NEW y \in S, y < x PROVE FALSE
  <2>1. /\ 0 .. y \in SUBSET Nat /\ 0 .. x \in SUBSET Nat
        /\ 0 .. y \subseteq 0 .. x /\ 0 .. y # 0 .. x
    <3>1. x \in 0 .. x /\ x \notin 0 .. y
      BY <1>4
    <3>2. 0 .. y \subseteq 0 .. x
      BY <1>4
    <3> QED
      BY <3>1, <3>2
  <2> DEFINE p == <<0 .. y, 0 .. x>>
  <2>2. p \in (SUBSET Nat) \X (SUBSET Nat) /\ p[1] = 0 .. y /\ p[2] = 0 .. x
    BY <2>1
  <2>3. p \in StrictSubsetOrdering(Nat)
    BY <2>1, <2>2 DEF StrictSubsetOrdering
  <2>4. 0 .. y \in T
    OBVIOUS
  <2> HIDE DEF T
  <2> QED
    BY <1>2, <1>3, <2>3, <2>4
<1> QED
  BY <1>4

-----------------------------------------------------------------------------
(* Sums.                                                                    *)

\* The element SumFunction takes next.
Some(S) == CHOOSE x \in S : TRUE

\* What SumFunction computes, for each part of the domain of v.
Sums(v, sum) ==
    sum = [S \in SUBSET (DOMAIN v) |->
             IF S = {} THEN 0 ELSE v[Some(S)] + sum[S \ {Some(S)}]]

\* Sums exist: one is built up from the parts of at most n elements.
LEMMA SumsExist ==
    ASSUME NEW D, IsFiniteSet(D), NEW v \in [D -> Int]
    PROVE  \E sum : Sums(v, sum)
<1> DEFINE Upto(n) == {S \in SUBSET D : Cardinality(S) <= n}
           Part(n, sum) ==
             /\ sum \in [Upto(n) -> Int]
             /\ \A S \in Upto(n) :
                  sum[S] = IF S = {} THEN 0 ELSE v[Some(S)] + sum[S \ {Some(S)}]
           Bad == {n \in Nat : ~ \E sum : Part(n, sum)}
<1>1. \A S \in SUBSET D : IsFiniteSet(S) /\ Cardinality(S) \in Nat
  BY FS_Subset, FS_CardinalityType
<1>2. \A S \in SUBSET D : S # {} =>
         /\ Some(S) \in S /\ S \ {Some(S)} \in SUBSET D
         /\ Cardinality(S \ {Some(S)}) = Cardinality(S) - 1
  <2>1. SUFFICES ASSUME NEW S \in SUBSET D, S # {}
                 PROVE  /\ Some(S) \in S
                        /\ Cardinality(S \ {Some(S)}) = Cardinality(S) - 1
    OBVIOUS
  <2>2. Some(S) \in S
    BY <2>1 DEF Some
  <2>3. IsFiniteSet(S)
    BY <1>1
  <2>4. Cardinality(S \ {Some(S)}) = Cardinality(S) - 1
    BY <2>2, <2>3, FS_RemoveElement
  <2> QED
    BY <2>2, <2>4
<1>3. 0 \notin Bad
  <2>1. \A S \in Upto(0) : S = {}
    BY <1>1, FS_EmptySet
  <2> DEFINE sum == [S \in Upto(0) |-> 0]
  <2>2. Part(0, sum)
    BY <2>1
  <2> QED
    BY <2>2
<1>4. ASSUME NEW n \in Nat, n + 1 \in Bad
      PROVE  n \in Bad
  <2>1. SUFFICES ASSUME NEW sum, Part(n, sum)
                 PROVE  FALSE
    BY <1>4
  <2> DEFINE more == [S \in Upto(n + 1) |->
                        IF S = {} THEN 0 ELSE v[Some(S)] + sum[S \ {Some(S)}]]
  <2>2. \A S \in Upto(n + 1) : S # {} => S \ {Some(S)} \in Upto(n)
    BY <1>1, <1>2
  <2>3. more \in [Upto(n + 1) -> Int]
    <3>1. ASSUME NEW S \in Upto(n + 1), S # {}
          PROVE  v[Some(S)] + sum[S \ {Some(S)}] \in Int
      <4>1. v[Some(S)] \in Int
        BY <1>2, <3>1
      <4>2. sum[S \ {Some(S)}] \in Int
        BY <2>1, <2>2, <3>1
      <4> QED
        BY <4>1, <4>2
    <3> QED
      BY <3>1
  <2>4. \A S \in Upto(n) : S \in Upto(n + 1) /\ more[S] = sum[S]
    <3>1. SUFFICES ASSUME NEW S \in Upto(n)
                   PROVE  S \in Upto(n + 1) /\ more[S] = sum[S]
      OBVIOUS
    <3>2. S \in Upto(n + 1)
      BY <1>1
    <3>3. sum[S] = IF S = {} THEN 0 ELSE v[Some(S)] + sum[S \ {Some(S)}]
      BY <2>1
    <3> HIDE DEF Upto
    <3> QED
      BY <3>2, <3>3
  <2>5. Part(n + 1, more)
    BY <2>2, <2>3, <2>4
  <2> QED
    BY <1>4, <2>5
<1>5. Bad = {}
  <2>1. SUFFICES ASSUME Bad # {}
                 PROVE  FALSE
    OBVIOUS
  <2>2. PICK n \in Bad : \A k \in Bad : n <= k
    <3> HIDE DEF Upto, Part
    <3> QED
      BY <2>1, LeastNatural
  <2>3. n # 0 /\ n \in Nat
    BY <1>3, <2>2
  <2>4. n - 1 \in Nat /\ (n - 1) + 1 = n
    BY <2>3
  <2> HIDE DEF Bad
  <2> QED
    BY <1>4, <2>2, <2>4
<1>6. PICK sum : Part(Cardinality(D), sum)
  BY <1>1, <1>5
<1>7. Upto(Cardinality(D)) = SUBSET D
  BY <1>1, FS_Subset
<1>8. DOMAIN v = D
  OBVIOUS
<1>9. sum = [S \in SUBSET D |-> IF S = {} THEN 0 ELSE v[Some(S)] + sum[S \ {Some(S)}]]
  BY <1>6, <1>7
<1> QED
  BY <1>8, <1>9 DEF Sums

\* SumFunction is the last of such sums.
LEMMA SumFunctionSums ==
    ASSUME NEW D, IsFiniteSet(D), NEW v \in [D -> Int]
    PROVE  \E sum : Sums(v, sum) /\ SumFunction(v) = sum[D]
<1> DEFINE sum == CHOOSE g : Sums(v, g)
<1>1. Sums(v, sum)
  BY SumsExist
<1>2. SumFunction(v) = sum[DOMAIN v]
  BY DEF Sums, Some, SumFunction, SumFunctionOnSet, FoldFunctionOnSet, MapThenFoldSet
<1>3. DOMAIN v = D
  OBVIOUS
<1> HIDE DEF sum
<1> QED
  BY <1>1, <1>2, <1>3

\* Sums of what a set is closed under stay in it, by induction on the parts.
LEMMA SumsType ==
    ASSUME NEW D, IsFiniteSet(D), NEW v \in [D -> Int], NEW sum, Sums(v, sum),
           NEW T \in SUBSET Int, 0 \in T,
           \A x \in D, k \in T : v[x] + k \in T
    PROVE  \A S \in SUBSET D : sum[S] \in T
<1> DEFINE Bad == {n \in Nat : \E S \in SUBSET D : Cardinality(S) = n /\ sum[S] \notin T}
<1>1. SUFFICES ASSUME Bad # {}
               PROVE  FALSE
  BY FS_Subset, FS_CardinalityType
<1>2. PICK n \in Bad : n \in Nat /\ \A k \in Bad : n <= k
  BY <1>1, LeastNatural
<1>3. PICK S \in SUBSET D : Cardinality(S) = n /\ sum[S] \notin T
  BY <1>2
<1>4. sum[S] = IF S = {} THEN 0 ELSE v[Some(S)] + sum[S \ {Some(S)}]
  BY DEF Sums
<1>5. S # {} /\ Some(S) \in S
  BY <1>3, <1>4 DEF Some
<1>6. IsFiniteSet(S)
  BY FS_Subset
<1>7. Cardinality(S \ {Some(S)}) = n - 1 /\ n - 1 \in Nat
  <2>1. Cardinality(S \ {Some(S)}) = n - 1
    BY <1>3, <1>5, <1>6, FS_RemoveElement
  <2>2. n # 0
    BY <1>3, <1>5, <1>6, FS_EmptySet
  <2> QED
    BY <1>2, <2>1, <2>2
<1>8. sum[S \ {Some(S)}] \notin T
  BY <1>3, <1>4, <1>5
<1>9. n - 1 \in Bad
  BY <1>7, <1>8
<1> HIDE DEF Bad
<1> QED
  BY <1>2, <1>7, <1>9

\* Tolerances add up.
LEMMA NearPlus ==
    ASSUME NEW p \in Nat, NEW a \in Int, NEW b \in Int, NEW c \in Int, NEW d \in Int,
           NEW t \in Nat, NEW k \in Nat, Near(p * a, 2 * b, t), Near(p * c, 2 * d, k * t)
    PROVE  Near(p * (a + c), 2 * (b + d), (k + 1) * t)
<1>1. /\ p * (a + c) = p * a + p * c
      /\ (k + 1) * t = k * t + t
      /\ p * a \in Int /\ p * c \in Int /\ k * t \in Int
  OBVIOUS
<1> QED
  BY <1>1 DEF Near

\* Two sums, term by term within a tolerance.
LEMMA SumsNear ==
    ASSUME NEW D, IsFiniteSet(D), NEW v \in [D -> Int], NEW w \in [D -> Int],
           NEW p \in Nat, NEW tolerance \in Nat,
           \A x \in D : Near(p * v[x], 2 * w[x], tolerance),
           NEW sum, Sums(v, sum), NEW other, Sums(w, other)
    PROVE  \A S \in SUBSET D : Near(p * sum[S], 2 * other[S], Cardinality(S) * tolerance)
<1> DEFINE Close(S) == Near(p * sum[S], 2 * other[S], Cardinality(S) * tolerance)
           Bad == {n \in Nat : \E S \in SUBSET D : Cardinality(S) = n /\ ~Close(S)}
<1>1. SUFFICES ASSUME Bad # {}
               PROVE  FALSE
  BY FS_Subset, FS_CardinalityType
<1>2. PICK n \in Bad : n \in Nat /\ \A k \in Bad : n <= k
  <2> HIDE DEF Close
  <2> QED
    BY <1>1, LeastNatural
<1>3. PICK S \in SUBSET D : Cardinality(S) = n /\ ~Close(S)
  BY <1>2
<1> DEFINE x == Some(S)
           R == S \ {x}
<1>4. /\ sum[S] = IF S = {} THEN 0 ELSE v[x] + sum[R]
      /\ other[S] = IF S = {} THEN 0 ELSE w[x] + other[R]
  BY DEF Sums
<1>5. IsFiniteSet(S)
  BY FS_Subset
<1>6. S # {} /\ x \in D /\ x \in S
  <2>1. ASSUME S = {} PROVE FALSE
    <3>1. sum[S] = 0 /\ other[S] = 0 /\ Cardinality(S) = 0
      BY <1>4, <2>1, FS_EmptySet
    <3>2. p * 0 = 0 /\ 2 * 0 = 0 /\ 0 * tolerance = 0
      OBVIOUS
    <3>3. Close(S)
      BY <3>1, <3>2 DEF Near
    <3> QED
      BY <1>3, <3>3
  <2> QED
    BY <2>1 DEF Some
<1>7. Cardinality(R) = n - 1 /\ n - 1 \in Nat
  <2>1. Cardinality(S \ {x}) = n - 1
    BY <1>3, <1>5, <1>6, FS_RemoveElement
  <2>2. n # 0
    BY <1>3, <1>5, <1>6, FS_EmptySet
  <2> QED
    BY <1>2, <2>1, <2>2
<1>8. /\ sum[R] \in Int /\ other[R] \in Int
      /\ v[x] \in Int /\ w[x] \in Int
  <2>1. \A y \in D, k \in Int : v[y] + k \in Int /\ w[y] + k \in Int
    OBVIOUS
  <2>2. 0 \in Int /\ Int \in SUBSET Int
    OBVIOUS
  <2>3. R \in SUBSET D
    OBVIOUS
  <2>4. \A T \in SUBSET D : sum[T] \in Int
    BY <2>1, <2>2, SumsType
  <2>5. \A T \in SUBSET D : other[T] \in Int
    BY <2>1, <2>2, SumsType
  <2> HIDE DEF R, x
  <2> QED
    BY <1>6, <2>3, <2>4, <2>5
<1>9. ~Close(R)
  <2>1. SUFFICES ASSUME Close(R)
                 PROVE  Close(S)
    BY <1>3
  <2>2. Near(p * v[x], 2 * w[x], tolerance)
    BY <1>6
  <2>3. Near(p * sum[R], 2 * other[R], (n - 1) * tolerance)
    BY <1>7, <2>1
  <2>4. Near(p * (v[x] + sum[R]), 2 * (w[x] + other[R]), ((n - 1) + 1) * tolerance)
    <3> HIDE DEF R, x, Close
    <3> QED
      BY <1>7, <1>8, <2>2, <2>3, NearPlus
  <2>5. (n - 1) + 1 = n
    BY <1>2
  <2> QED
    BY <1>3, <1>4, <1>6, <2>4, <2>5
<1>10. n - 1 \in Bad
  <2> HIDE DEF Close
  <2> QED
    BY <1>7, <1>9
<1> HIDE DEF Bad
<1> QED
  BY <1>2, <1>7, <1>10

\* What Reconstructible and the invariant need of sums.
LEMMA SumFunctionNear ==
    ASSUME NEW n \in Nat, NEW v \in [1 .. n -> Int], NEW w \in [1 .. n -> Int],
           NEW p \in Nat, NEW tolerance \in Nat,
           \A i \in 1 .. n : Near(p * v[i], 2 * w[i], tolerance)
    PROVE  Near(p * SumFunction(v), 2 * SumFunction(w), n * tolerance)
<1>1. IsFiniteSet(1 .. n) /\ Cardinality(1 .. n) = n
  BY FS_Interval
<1>2. PICK sum : Sums(v, sum) /\ SumFunction(v) = sum[1 .. n]
  BY <1>1, SumFunctionSums
<1>3. PICK other : Sums(w, other) /\ SumFunction(w) = other[1 .. n]
  BY <1>1, SumFunctionSums
<1>4. \A S \in SUBSET (1 .. n) :
         Near(p * sum[S], 2 * other[S], Cardinality(S) * tolerance)
  BY <1>1, <1>2, <1>3, SumsNear
<1> QED
  BY <1>1, <1>2, <1>3, <1>4

\* A sum of natural numbers is one.
LEMMA SumFunctionType ==
    ASSUME NEW n \in Nat, NEW v \in [1 .. n -> Nat]
    PROVE  SumFunction(v) \in Nat
<1>1. IsFiniteSet(1 .. n) /\ v \in [1 .. n -> Int]
  BY FS_Interval
<1>2. PICK sum : Sums(v, sum) /\ SumFunction(v) = sum[1 .. n]
  BY <1>1, SumFunctionSums
<1>3. 0 \in Nat /\ Nat \in SUBSET Int /\ \A x \in 1 .. n, k \in Nat : v[x] + k \in Nat
  OBVIOUS
<1>4. \A S \in SUBSET (1 .. n) : sum[S] \in Nat
  BY <1>1, <1>2, <1>3, SumsType
<1> QED
  BY <1>2, <1>4

-----------------------------------------------------------------------------
(* Roundings.                                                               *)

\* Both sides times k.
LEMMA NearScaled ==
    ASSUME NEW a \in Int, NEW b \in Int, NEW t \in Nat, NEW k \in Nat, Near(a, b, t)
    PROVE  Near(k * a, k * b, k * t)
<1>1. /\ a - b \in Int /\ b - a \in Int /\ a - b <= t /\ b - a <= t
  BY DEF Near
<1>2. \A x \in Int : x <= t => k * x <= k * t
  OBVIOUS
<1>3. k * (a - b) = k * a - k * b /\ k * (b - a) = k * b - k * a
  OBVIOUS
<1> QED
  BY <1>1, <1>2, <1>3 DEF Near

\* One tolerance after another.
LEMMA NearTransitive ==
    ASSUME NEW a \in Int, NEW b \in Int, NEW c \in Int, NEW t \in Nat, NEW u \in Nat,
           Near(a, b, t), Near(b, c, u)
    PROVE  Near(a, c, t + u)
  BY DEF Near

\* A rounding is off by half a unit at most.
LEMMA RoundedNear ==
    ASSUME NEW n \in Nat, NEW d \in Nat \ {0}
    PROVE  Rounded(n, d) \in Nat /\ Near(2 * d * Rounded(n, d), 2 * n, d)
<1>1. 2 * n + d \in Nat /\ 2 * d \in Nat \ {0}
  OBVIOUS
<1>2. \A k \in Nat, m \in Nat \ {0} :
         /\ k \div m \in Nat
         /\ m * (k \div m) <= k /\ k < m * (k \div m) + m
  OBVIOUS
<1>3. /\ Rounded(n, d) \in Nat
      /\ (2 * d) * Rounded(n, d) <= 2 * n + d
      /\ 2 * n + d < (2 * d) * Rounded(n, d) + 2 * d
  BY <1>1, <1>2 DEF Rounded
<1>4. (2 * d) * Rounded(n, d) \in Nat
  BY <1>3
<1> QED
  BY <1>3, <1>4 DEF Near

\* A share added and rounded.
LEMMA UpNear ==
    ASSUME NEW n \in Nat, NEW share \in Nat
    PROVE  /\ Up(n, share) \in Nat
           /\ Near(2 * Whole * Up(n, share), 2 * (n * (Whole + share)), Whole)
<1>1. n * (Whole + share) \in Nat
  BY PricingOK
<1> QED
  BY <1>1, RoundedNear, PricingOK DEF Up

\* The total of a construction estimate, from the sum of its rounded lines.
LEMMA ConstructionNear ==
    ASSUME NEW s \in Nat, NEW x \in Nat, NEW f \in Nat, NEW n \in Nat,
           Near((2 * Parts) * s, 2 * x, n * Parts)
    PROVE  Near(2 * Parts * Whole * Rounded(s * f, Whole), 2 * f * x,
                Parts * (n * f + Whole))
<1> DEFINE r == Rounded(s * f, Whole)
<1>1. s * f \in Nat /\ Parts \in Nat /\ Whole \in Nat
  BY PricingOK
<1>2. r \in Nat /\ Near(2 * Whole * r, 2 * (s * f), Whole)
  BY <1>1, RoundedNear, PricingOK
<1> HIDE DEF r
<1>3. Near(Parts * (2 * Whole * r), Parts * (2 * (s * f)), Parts * Whole)
  <2>1. 2 * Whole * r \in Int /\ 2 * (s * f) \in Int
    BY <1>1, <1>2
  <2> QED
    BY <1>1, <1>2, <2>1, NearScaled
<1>4. Near(f * ((2 * Parts) * s), f * (2 * x), f * (n * Parts))
  <2>1. (2 * Parts) * s \in Int /\ 2 * x \in Int /\ n * Parts \in Nat
    BY <1>1
  <2> QED
    BY <1>1, <2>1, NearScaled
<1>5. Parts * (2 * (s * f)) = f * ((2 * Parts) * s)
  BY <1>1
<1>6. Near(Parts * (2 * Whole * r), f * (2 * x), Parts * Whole + f * (n * Parts))
  <2>1. /\ Parts * (2 * Whole * r) \in Int /\ f * ((2 * Parts) * s) \in Int
        /\ f * (2 * x) \in Int /\ Parts * Whole \in Nat /\ f * (n * Parts) \in Nat
    BY <1>1, <1>2
  <2>2. Near(Parts * (2 * Whole * r), f * ((2 * Parts) * s), Parts * Whole)
    BY <1>3, <1>5
  <2> QED
    BY <1>4, <2>1, <2>2, NearTransitive
<1>7. /\ Parts * (2 * Whole * r) = 2 * Parts * Whole * r
      /\ f * (2 * x) = 2 * f * x
      /\ Parts * Whole + f * (n * Parts) = Parts * (n * f + Whole)
  BY <1>1, <1>2
<1> QED
  BY <1>6, <1>7 DEF r

\* The total of a fee: the tolerance of each rounding, scaled by what follows it.
LEMMA FeeNear ==
    ASSUME NEW terms \in Terms, terms.margin < Whole
    PROVE  /\ FeeTotal(terms) \in Nat
           /\ LET net   == Whole - terms.margin
                  taxed == Whole + terms.taxes
              IN  Near(2 * Parts * Whole * net * FeeTotal(terms),
                       2 * terms.hours * terms.hourly * (Whole + terms.overhead) * taxed,
                       Parts * ((2 * Whole + terms.overhead + net) * taxed + Whole * net))
<1> DEFINE h == terms.hours
           r == terms.hourly
           o == terms.overhead
           net == Whole - terms.margin
           taxed == Whole + terms.taxes
           labor == Rounded(h * r, Parts)
           cost == Up(labor, o)
           preTax == Rounded(cost * Whole, net)
           total == Up(preTax, terms.taxes)
<1>1. /\ h \in Nat /\ r \in Nat /\ o \in Nat /\ terms.taxes \in Nat /\ terms.margin \in Nat
      /\ Parts \in Nat \ {0} /\ Whole \in Nat \ {0}
  BY PricingOK DEF Terms
<1>2. net \in Nat \ {0} /\ taxed \in Nat /\ h * r \in Nat /\ Whole + o \in Nat
  BY <1>1
<1>3. labor \in Nat /\ Near(2 * Parts * labor, 2 * (h * r), Parts)
  BY <1>1, <1>2, RoundedNear
<1>4. cost \in Nat /\ Near(2 * Whole * cost, 2 * (labor * (Whole + o)), Whole)
  BY <1>1, <1>3, UpNear
<1>5. preTax \in Nat /\ Near(2 * net * preTax, 2 * (cost * Whole), net)
  <2>1. cost * Whole \in Nat
    BY <1>1, <1>4
  <2> HIDE DEF cost, net
  <2> QED
    BY <1>2, <2>1, RoundedNear
<1>6. total \in Nat /\ Near(2 * Whole * total, 2 * (preTax * taxed), Whole)
  BY <1>1, <1>5, UpNear
<1>7. FeeTotal(terms) = total
  BY DEF FeeTotal
<1> HIDE DEF h, r, o, net, taxed, labor, cost, preTax, total
<1>8. Near((Parts * net) * (2 * Whole * total), (Parts * net) * (2 * (preTax * taxed)),
           (Parts * net) * Whole)
  <2>1. 2 * Whole * total \in Int /\ 2 * (preTax * taxed) \in Int /\ Parts * net \in Nat
    BY <1>1, <1>2, <1>5, <1>6
  <2> QED
    BY <1>1, <1>6, <2>1, NearScaled
<1>9. Near((Parts * taxed) * (2 * net * preTax), (Parts * taxed) * (2 * (cost * Whole)),
           (Parts * taxed) * net)
  <2>1. 2 * net * preTax \in Int /\ 2 * (cost * Whole) \in Int /\ Parts * taxed \in Nat
    BY <1>1, <1>2, <1>4, <1>5
  <2> QED
    BY <1>2, <1>5, <2>1, NearScaled
<1>10. Near((Parts * taxed) * (2 * Whole * cost),
            (Parts * taxed) * (2 * (labor * (Whole + o))), (Parts * taxed) * Whole)
  <2>1. 2 * Whole * cost \in Int /\ 2 * (labor * (Whole + o)) \in Int /\ Parts * taxed \in Nat
    BY <1>1, <1>2, <1>3, <1>4
  <2> QED
    BY <1>1, <1>4, <2>1, NearScaled
<1>11. Near(((Whole + o) * taxed) * (2 * Parts * labor), ((Whole + o) * taxed) * (2 * (h * r)),
            ((Whole + o) * taxed) * Parts)
  <2>1. 2 * Parts * labor \in Int /\ 2 * (h * r) \in Int /\ (Whole + o) * taxed \in Nat
    BY <1>1, <1>2, <1>3
  <2> QED
    BY <1>1, <1>3, <2>1, NearScaled
<1>12. /\ (Parts * net) * (2 * (preTax * taxed)) = (Parts * taxed) * (2 * net * preTax)
       /\ (Parts * taxed) * (2 * (cost * Whole)) = (Parts * taxed) * (2 * Whole * cost)
       /\ (Parts * taxed) * (2 * (labor * (Whole + o)))
            = ((Whole + o) * taxed) * (2 * Parts * labor)
  BY <1>1, <1>2, <1>3, <1>4, <1>5
<1> DEFINE a == (Parts * net) * (2 * Whole * total)
           b == (Parts * taxed) * (2 * net * preTax)
           c == (Parts * taxed) * (2 * Whole * cost)
           d == ((Whole + o) * taxed) * (2 * Parts * labor)
           e == ((Whole + o) * taxed) * (2 * (h * r))
<1>13. /\ a \in Int /\ b \in Int /\ c \in Int /\ d \in Int /\ e \in Int
       /\ (Parts * net) * Whole \in Nat /\ (Parts * taxed) * net \in Nat
       /\ (Parts * taxed) * Whole \in Nat /\ ((Whole + o) * taxed) * Parts \in Nat
  BY <1>1, <1>2, <1>3, <1>4, <1>5, <1>6
<1>14. /\ Near(a, b, (Parts * net) * Whole) /\ Near(b, c, (Parts * taxed) * net)
       /\ Near(c, d, (Parts * taxed) * Whole) /\ Near(d, e, ((Whole + o) * taxed) * Parts)
  BY <1>8, <1>9, <1>10, <1>11, <1>12
<1>15. Near(a, e, (Parts * net) * Whole + (Parts * taxed) * net
                    + (Parts * taxed) * Whole + ((Whole + o) * taxed) * Parts)
  <2> HIDE DEF a, b, c, d, e
  <2>1. Near(a, c, (Parts * net) * Whole + (Parts * taxed) * net)
    BY <1>13, <1>14, NearTransitive
  <2>2. Near(a, d, (Parts * net) * Whole + (Parts * taxed) * net + (Parts * taxed) * Whole)
    BY <1>13, <1>14, <2>1, NearTransitive
  <2> QED
    BY <1>13, <1>14, <2>2, NearTransitive
<1>16. /\ a = 2 * Parts * Whole * net * total
       /\ e = 2 * h * r * (Whole + o) * taxed
       /\ (Parts * net) * Whole + (Parts * taxed) * net
            + (Parts * taxed) * Whole + ((Whole + o) * taxed) * Parts
          = Parts * ((2 * Whole + o + net) * taxed + Whole * net)
  BY <1>1, <1>2, <1>6
<1>17. Near(2 * Parts * Whole * net * total, 2 * h * r * (Whole + o) * taxed,
            Parts * ((2 * Whole + o + net) * taxed + Whole * net))
  <2> HIDE DEF a, e
  <2> QED
    BY <1>15, <1>16
<1> QED
  BY <1>6, <1>7, <1>17 DEF h, r, o, net, taxed

-----------------------------------------------------------------------------
(* The inductive invariant.                                                 *)

\* An approval is an owner's, and what has a human's authority is a quote.
SnapshotsSigned ==
    \A s \in DOMAIN snapshot :
        snapshot[s].authority = "human_approved" =>
            snapshot[s].by \in FinancialApprover /\ snapshot[s].source \in ManuallyApproved

\* A mapping names an item that is there, and an approval is an owner's.
MappingsSigned ==
    \A m \in DOMAIN mapping :
        /\ mapping[m].item \in DOMAIN snapshot
        /\ mapping[m].status = "approved" => mapping[m].by \in FinancialApprover

\* What an estimate may name: it stays so, whatever happens to the rows later.
Signed(m) ==
    /\ m \in DOMAIN mapping
    /\ mapping[m].item \in DOMAIN snapshot
    /\ mapping[m].by \in FinancialApprover
    /\ Item(m).by \in FinancialApprover
    /\ Item(m).source = "supplier_quote"
    /\ Item(m).cents > 0

\* A construction estimate that was computed from the rows it names.
Computed(e) ==
    /\ \A i \in DOMAIN e.lines : Signed(e.lines[i])
    /\ e.total = Rounded(SumFunction(Subtotals(e.lines)) * e.factor, Whole)

\* A fee that was computed from its terms.
FeeComputed(e) ==
    /\ e.terms.margin < Whole
    /\ e.total = FeeTotal(e.terms)

\* An estimate that is recorded, or about to be.
InUse(e) ==
    \/ e \in ToSet(estimate)
    \/ \E t \in Handler : doing[t].at = "priced" /\ doing[t].result = e

\* Every estimate is computed from what it names.
EstimatesComputed ==
    /\ \A e \in Construction : InUse(e) => Computed(e)
    /\ \A e \in Fee : e \in ToSet(estimate) => FeeComputed(e)

\* Who is in flight while the project is archived was so when it was archived.
LateKnown == archived => \A t \in Handler : doing[t] # Rest => t \in late

\* The inductive invariant of the prices.
PricingInv ==
    /\ PricingTypeOK /\ SnapshotsSigned /\ MappingsSigned /\ EstimatesComputed
    /\ LedgerBacked /\ LateKnown

-----------------------------------------------------------------------------
(* The rows stay what an estimate relied on.                                *)

\* No row goes, and none loses its source, price, quantity or signature.
Kept ==
    /\ \A s \in DOMAIN snapshot :
         /\ s \in DOMAIN snapshot'
         /\ snapshot'[s].source = snapshot[s].source
         /\ snapshot'[s].cents = snapshot[s].cents
         /\ snapshot[s].by \in FinancialApprover => snapshot'[s].by \in FinancialApprover
    /\ \A m \in DOMAIN mapping :
         /\ m \in DOMAIN mapping'
         /\ mapping'[m].item = mapping[m].item
         /\ mapping'[m].quantity = mapping[m].quantity
         /\ mapping[m].by \in FinancialApprover => mapping'[m].by \in FinancialApprover

\* The rows of a table are a sequence: one row, one more, one replaced.
LEMMA SeqRow ==
    ASSUME NEW S, NEW s \in Seq(S)
    PROVE  /\ Len(s) \in Nat /\ DOMAIN s = 1 .. Len(s)
           /\ \A i \in DOMAIN s : s[i] \in S
  OBVIOUS

\* A row added at the end.
LEMMA Appended ==
    ASSUME NEW S, NEW s \in Seq(S), NEW x \in S
    PROVE  /\ Append(s, x) \in Seq(S)
           /\ Len(Append(s, x)) = Len(s) + 1
           /\ DOMAIN Append(s, x) = 1 .. Len(s) + 1
           /\ \A i \in 1 .. Len(s) : Append(s, x)[i] = s[i]
           /\ Append(s, x)[Len(s) + 1] = x
  OBVIOUS

\* A row replaced.
LEMMA ReplacedRow ==
    ASSUME NEW S, NEW s \in Seq(S), NEW i \in DOMAIN s, NEW x \in S
    PROVE  /\ [s EXCEPT ![i] = x] \in Seq(S)
           /\ Len([s EXCEPT ![i] = x]) = Len(s)
           /\ DOMAIN [s EXCEPT ![i] = x] = DOMAIN s
           /\ [s EXCEPT ![i] = x][i] = x
           /\ \A j \in DOMAIN s \ {i} : [s EXCEPT ![i] = x][j] = s[j]
<1>1. [s EXCEPT ![i] = x] \in [1 .. Len(s) -> S]
  OBVIOUS
<1> QED
  BY <1>1, SeqRow

\* The step of one thread.
Does(t) ==
    \/ Begins(t) \/ GivesUp(t)
    \/ Proposes(t) \/ ApprovesMapping(t)
    \/ Prices(t) \/ CommitsEstimate(t) \/ CommitsFee(t) \/ EntersCost(t)

\* What a handler may have.
Working == {Rest} \cup [at : {"begun"}, role : Role]
                  \cup [at : {"priced"}, role : Role, result : Construction]

\* What a handler has at each of its steps.
LEMMA Shape ==
    ASSUME PricingTypeOK, NEW t \in Handler
    PROVE  /\ doing[t] \in Working
           /\ doing[t].at = "rest" <=> doing[t] = Rest
           /\ doing[t].at # "rest" => doing[t].role \in Role
           /\ doing[t].at = "priced" => doing[t].result \in Construction
  BY DEF PricingTypeOK, Working, Rest

\* A handler that turns to something, and the others.
LEMMA TurnsTo ==
    ASSUME PricingTypeOK, NEW t \in Handler, NEW next, Turns(t, next)
    PROVE  /\ doing'[t] = next
           /\ \A u \in Handler \ {t} : doing'[u] = doing[u]
           /\ next \in Working => doing' \in [Handler -> Working]
  BY DEF PricingTypeOK, Turns, Working

\* The lines of an estimate are a function on 1 .. n.
LEMMA LinesShape ==
    ASSUME NEW S, NEW lines \in BoundedSeq(S, MaxLines)
    PROVE  \E n \in Nat : n <= MaxLines /\ lines \in [1 .. n -> S] /\ Len(lines) = n
<1>1. PICK n \in 0 .. MaxLines : lines \in [1 .. n -> S]
  BY DEF BoundedSeq, SeqOf
<1>2. n \in Nat /\ n <= MaxLines
  BY <1>1, PricingOK
<1>3. Len(lines) = n
  BY <1>1, <1>2
<1> QED
  BY <1>1, <1>2, <1>3

\* The lines of an estimate, and what they cost before and after rounding.
LEMMA SubtotalsShape ==
    ASSUME PricingTypeOK, NEW n \in Nat, NEW lines, DOMAIN lines = 1 .. n,
           \A i \in 1 .. n : Signed(lines[i])
    PROVE  /\ Subtotals(lines) \in [1 .. n -> Nat]
           /\ Exacts(lines) \in [1 .. n -> Nat]
           /\ \A i \in 1 .. n :
                Near((2 * Parts) * Subtotals(lines)[i], 2 * Exacts(lines)[i], Parts)
<1>1. ASSUME NEW m, Signed(m)
      PROVE  mapping[m].quantity * Item(m).cents \in Nat
  <2>1. mapping[m] \in Mapping /\ snapshot[mapping[m].item] \in Snapshot
    BY <1>1, SeqRow DEF PricingTypeOK, Signed
  <2>2. mapping[m].quantity \in Nat
    BY <2>1, PricingOK DEF Mapping
  <2>3. Item(m).cents \in Nat
    <3>1. snapshot[mapping[m].item].cents \in Cents \cup {NoAmount}
      BY <2>1 DEF Snapshot
    <3>2. snapshot[mapping[m].item].cents > 0
      BY <1>1 DEF Signed, Item
    <3>3. \A c \in Cents \cup {NoAmount} : c > 0 => c \in Nat
      <4>1. Cents \subseteq Nat
        BY PricingOK
      <4> QED
        BY <4>1 DEF NoAmount
    <3> QED
      BY <3>1, <3>2, <3>3 DEF Item
  <2> QED
    BY <2>2, <2>3
<1>2. ASSUME NEW m, Signed(m)
      PROVE  /\ Subtotal(m) \in Nat
             /\ Near(2 * Parts * Subtotal(m), 2 * (mapping[m].quantity * Item(m).cents), Parts)
  BY <1>1, <1>2, RoundedNear, PricingOK DEF Subtotal
<1> QED
  BY <1>1, <1>2 DEF Subtotals, Exacts

\* A computed total is a natural number.
LEMMA ComputedType ==
    ASSUME PricingTypeOK, NEW lines, NEW n \in Nat, DOMAIN lines = 1 .. n,
           \A i \in 1 .. n : Signed(lines[i]), NEW factor \in Nat
    PROVE  Rounded(SumFunction(Subtotals(lines)) * factor, Whole) \in Nat
<1>1. SumFunction(Subtotals(lines)) \in Nat
  BY SubtotalsShape, SumFunctionType
<1>2. SumFunction(Subtotals(lines)) * factor \in Nat
  BY <1>1
<1> QED
  BY <1>2, RoundedNear, PricingOK

\* An estimate stays computed from its rows.
LEMMA ComputedKept ==
    ASSUME Kept, NEW e \in Construction, Computed(e)
    PROVE  Computed(e)'
<1>1. \A i \in DOMAIN e.lines : Signed(e.lines[i])'
  BY DEF Computed, Signed, Kept, Item
<1>2. Subtotals(e.lines)' = Subtotals(e.lines)
  BY DEF Computed, Signed, Kept, Item, Subtotals, Subtotal
<1> QED
  BY <1>1, <1>2 DEF Computed

-----------------------------------------------------------------------------
(* What each step does to the rows.                                         *)

\* A snapshot is added, with no authority.
LEMMA Submits ==
    ASSUME PricingTypeOK, Submit
    PROVE  /\ UNCHANGED <<archived, mapping, estimate, ledger, entered, doing, late>>
           /\ Len(snapshot) < MaxSnapshots
           /\ \E row \in Snapshot : /\ snapshot' = Append(snapshot, row)
                                    /\ row.authority = "unverified"
<1>1. PICK s \in Submitted \ {"glip_historical"}, cents \in Cents \cup {NoAmount} :
        \E role \in RolesOf[s] \cup {"none"} :
          snapshot' = Append(snapshot,
            [source |-> s, role |-> role, cents |-> cents,
             validity |-> "human_review_required", authority |-> "unverified",
             by |-> "nobody"])
  BY DEF Submit
<1>2. PICK role \in RolesOf[s] \cup {"none"} :
          snapshot' = Append(snapshot,
            [source |-> s, role |-> role, cents |-> cents,
             validity |-> "human_review_required", authority |-> "unverified",
             by |-> "nobody"])
  BY <1>1
<1> DEFINE row == [source |-> s, role |-> role, cents |-> cents,
             validity |-> "human_review_required", authority |-> "unverified",
             by |-> "nobody"]
<1>3. role \in (UNION {RolesOf[r] : r \in Source}) \cup {"none"}
  <2>1. s \in Source
    BY SubmittedOK
  <2>2. CASE role \in RolesOf[s]
    <3>1. RolesOf[s] \in {RolesOf[r] : r \in Source}
      BY <2>1
    <3> QED
      BY <2>2, <3>1
  <2> QED
    BY <1>2, <2>2
<1>4. row \in Snapshot /\ row.authority = "unverified"
  <2>1. s \in Source
    BY SubmittedOK
  <2>2. "nobody" \in Role \cup {"nobody"}
    OBVIOUS
  <2> QED
    BY <1>3, <2>1, <2>2 DEF Snapshot
<1> QED
  BY <1>2, <1>4 DEF Submit

\* An owner approves a quote, whose source and price stay.
LEMMA Approves ==
    ASSUME PricingTypeOK, NEW role \in Role, ApproveSnapshot(role)
    PROVE  /\ UNCHANGED <<archived, mapping, estimate, ledger, entered, doing, late>>
           /\ role \in FinancialApprover
           /\ \E s \in DOMAIN snapshot, row \in Snapshot :
                /\ snapshot' = [snapshot EXCEPT ![s] = row]
                /\ row.by = role /\ row.source \in ManuallyApproved
                /\ row.source = snapshot[s].source /\ row.cents = snapshot[s].cents
<1>1. PICK s \in DOMAIN snapshot :
        /\ Approvable(s)
        /\ snapshot' = [snapshot EXCEPT ![s].validity = "valid",
                          ![s].authority = "human_approved", ![s].by = role]
  BY DEF ApproveSnapshot
<1> DEFINE old == snapshot[s]
           row == [old EXCEPT !.validity = "valid",
                     !.authority = "human_approved", !.by = role]
<1>2. old \in Snapshot
  BY SeqRow DEF PricingTypeOK
<1>3. /\ row \in Snapshot /\ row.by = role
      /\ row.source = old.source /\ row.cents = old.cents
  <2> HIDE DEF old
  <2> QED
    BY <1>2 DEF Snapshot
<1>4. snapshot' = [snapshot EXCEPT ![s] = row]
  BY <1>1
<1>5. old.source \in ManuallyApproved
  BY <1>1 DEF Approvable
<1> HIDE DEF row
<1> QED
  BY <1>3, <1>4, <1>5 DEF ApproveSnapshot

\* A mapping is added, proposed.
LEMMA Maps ==
    ASSUME PricingTypeOK, NEW t \in Handler, Proposes(t)
    PROVE  /\ UNCHANGED <<archived, snapshot, estimate, ledger, entered, late>>
           /\ Turns(t, Rest)
           /\ Len(mapping) < MaxMappings
           /\ \E row \in Mapping : /\ mapping' = Append(mapping, row)
                                   /\ row.item \in DOMAIN snapshot
                                   /\ row.status = "proposed"
<1>1. PICK s \in DOMAIN snapshot, q \in Quantity :
        mapping' = Append(mapping, [item |-> s, quantity |-> q,
                                    status |-> "proposed", by |-> "nobody"])
  BY DEF Proposes
<1>2. s \in 1 .. MaxSnapshots
  <2>1. s \in 1 .. Len(snapshot) /\ Len(snapshot) \in Nat /\ Len(snapshot) <= MaxSnapshots
    BY SeqRow DEF PricingTypeOK
  <2> QED
    BY <2>1, PricingOK
<1> DEFINE row == [item |-> s, quantity |-> q, status |-> "proposed", by |-> "nobody"]
<1>3. row \in Mapping /\ row.item = s /\ row.status = "proposed"
  BY <1>2 DEF Mapping
<1> QED
  BY <1>1, <1>3 DEF Proposes

\* An owner approves a mapping, whose item and quantity stay.
LEMMA Signs ==
    ASSUME PricingTypeOK, NEW t \in Handler, ApprovesMapping(t)
    PROVE  /\ UNCHANGED <<archived, snapshot, estimate, ledger, entered, late>>
           /\ Turns(t, Rest)
           /\ \E m \in DOMAIN mapping, row \in Mapping :
                /\ mapping' = [mapping EXCEPT ![m] = row]
                /\ row.by \in FinancialApprover
                /\ row.item = mapping[m].item /\ row.quantity = mapping[m].quantity
<1>1. PICK m \in DOMAIN mapping :
         mapping' = [mapping EXCEPT ![m].status = "approved", ![m].by = doing[t].role]
  BY DEF ApprovesMapping
<1>2. doing[t].role \in Role /\ doing[t].role \in FinancialApprover
  BY Shape DEF ApprovesMapping, Approver, FinancialApprover, Role
<1> DEFINE old == mapping[m]
           row == [old EXCEPT !.status = "approved", !.by = doing[t].role]
<1>3. old \in Mapping
  BY SeqRow DEF PricingTypeOK
<1>4. /\ row \in Mapping /\ row.by = doing[t].role
      /\ row.item = old.item /\ row.quantity = old.quantity
  <2> HIDE DEF old
  <2> QED
    BY <1>2, <1>3 DEF Mapping
<1>5. mapping' = [mapping EXCEPT ![m] = row]
  BY <1>1
<1> HIDE DEF row
<1> QED
  BY <1>2, <1>4, <1>5 DEF ApprovesMapping

\* A price that was executable is signed for.
LEMMA ExecutableSigned ==
    ASSUME PricingTypeOK, SnapshotsSigned, MappingsSigned,
           NEW m \in DOMAIN mapping, Executable(m)
    PROVE  Signed(m)
<1>1. /\ mapping[m].item \in DOMAIN snapshot /\ mapping[m].by \in FinancialApprover
  BY DEF Executable, MappingsSigned
<1>2. snapshot[mapping[m].item] \in Snapshot
  BY <1>1, SeqRow DEF PricingTypeOK
<1>3. Item(m).authority = "human_approved" /\ Item(m).cents > 0
  BY <1>2 DEF Executable, Authorized, Item, Snapshot
<1>4. Item(m).by \in FinancialApprover /\ Item(m).source \in ManuallyApproved
  BY <1>1, <1>3 DEF SnapshotsSigned, Item
<1> QED
  BY <1>1, <1>3, <1>4 DEF Signed, ManuallyApproved

\* The result a handler prices is computed from signed rows.
LEMMA PricesResult ==
    ASSUME PricingTypeOK, SnapshotsSigned, MappingsSigned, NEW t \in Handler, Prices(t)
    PROVE  /\ UNCHANGED <<archived, snapshot, mapping, estimate, ledger, entered, late>>
           /\ \E e \in Construction :
                /\ Computed(e)
                /\ Turns(t, [at |-> "priced", role |-> doing[t].role, result |-> e])
<1>1. PICK lines \in BoundedSeq(DOMAIN mapping, MaxLines) \ {<<>>},
           factor \in Share \cap 1 .. 5 * Whole :
         /\ \A m \in ToSet(lines) : Executable(m)
         /\ Turns(t, [at |-> "priced", role |-> doing[t].role, result |->
              [mode |-> "construction_cost", lines |-> lines, factor |-> factor,
               total |-> Rounded(SumFunction(Subtotals(lines)) * factor, Whole)]])
  BY DEF Prices
<1>2. PICK n \in Nat : n <= MaxLines /\ lines \in [1 .. n -> DOMAIN mapping]
  BY LinesShape
<1>3. DOMAIN mapping \subseteq Line
  <2>1. Len(mapping) \in Nat /\ DOMAIN mapping = 1 .. Len(mapping) /\ Len(mapping) <= MaxMappings
    BY SeqRow DEF PricingTypeOK
  <2> QED
    BY <2>1, PricingOK DEF Line
<1>4. lines \in BoundedSeq(Line, MaxLines)
  <2>1. lines \in [1 .. n -> Line] /\ n \in 0 .. MaxLines
    BY <1>2, <1>3, PricingOK
  <2> QED
    BY <2>1 DEF BoundedSeq, SeqOf
<1>5. \A i \in 1 .. n : Signed(lines[i])
  <2>1. SUFFICES ASSUME NEW i \in 1 .. n
                 PROVE  Signed(lines[i])
    OBVIOUS
  <2>2. lines[i] \in DOMAIN mapping /\ Executable(lines[i])
    BY <1>1, <1>2 DEF ToSet
  <2> QED
    BY <2>2, ExecutableSigned
<1>6. factor \in Share /\ factor \in Nat
  BY PricingOK
<1>7. Rounded(SumFunction(Subtotals(lines)) * factor, Whole) \in Nat
  BY <1>2, <1>5, <1>6, ComputedType
<1> DEFINE total == Rounded(SumFunction(Subtotals(lines)) * factor, Whole)
           e == [mode |-> "construction_cost", lines |-> lines, factor |-> factor,
                 total |-> total]
<1>8. /\ e \in Construction /\ e.lines = lines /\ e.factor = factor /\ e.total = total
  <2> HIDE DEF total
  <2> QED
    BY <1>4, <1>6, <1>7 DEF Construction, total
<1>9. Computed(e)
  <2>1. DOMAIN lines = 1 .. n
    BY <1>2
  <2> HIDE DEF e
  <2> QED
    BY <1>5, <1>8, <2>1 DEF Computed
<1> QED
  BY <1>1, <1>8, <1>9 DEF Prices

\* What an estimate adds, whichever kind it is.
Adds(e, row) ==
    /\ Len(estimate) < MaxEstimates /\ Len(ledger) < MaxEvents
    /\ estimate' = Append(estimate, e)
    /\ ledger' = Append(ledger, row)
    /\ row.status = "estimated" /\ row.amount = e.total
    /\ row.estimate = Len(estimate) + 1

\* An estimate is recorded with the event that names it.
LEMMA RecordsRow ==
    ASSUME PricingTypeOK, NEW t \in Handler, NEW e \in Construction \cup Fee, Room,
           Records(t, e), doing[t].role \in Role
    PROVE  \E row \in Event : Adds(e, row)
<1> DEFINE row == [status |-> "estimated", amount |-> e.total, evidence |-> "none",
                   estimate |-> Len(estimate) + 1, by |-> doing[t].role]
<1>1. Len(estimate) + 1 \in 0 .. MaxEstimates
  <2>1. Len(estimate) \in Nat /\ Len(estimate) < MaxEstimates
    BY SeqRow DEF PricingTypeOK, Room
  <2> QED
    BY <2>1, PricingOK
<1>2. e.total \in Nat
  BY DEF Construction, Fee
<1>3. row \in Event
  BY <1>1, <1>2 DEF Event
<1> QED
  BY <1>3 DEF Adds, Records, Room

\* Both kinds of estimate are.
LEMMA CommitsRows ==
    ASSUME PricingTypeOK, NEW t \in Handler, CommitsEstimate(t) \/ CommitsFee(t)
    PROVE  /\ UNCHANGED <<archived, snapshot, mapping, entered, late>>
           /\ Turns(t, Rest)
           /\ \E e \in Construction \cup Fee, row \in Event :
                /\ Adds(e, row)
                /\ e \in Construction => InUse(e)
                /\ e \in Fee => FeeComputed(e)
<1>1. UNCHANGED <<archived, snapshot, mapping, entered, late>> /\ Turns(t, Rest)
  BY DEF CommitsEstimate, CommitsFee
<1>2. CASE CommitsEstimate(t)
  <2>1. PICK e \in Construction : e = doing[t].result
    BY <1>2, Shape DEF CommitsEstimate
  <2>2. InUse(e)
    BY <1>2, <2>1 DEF CommitsEstimate, InUse
  <2>3. doing[t].role \in Role /\ Room /\ Records(t, e)
    BY <1>2, <2>1, Shape DEF CommitsEstimate
  <2>4. PICK row \in Event : Adds(e, row)
    BY <2>3, RecordsRow
  <2>5. e \notin Fee
    BY DEF Construction, Fee
  <2> QED
    BY <1>1, <2>2, <2>4, <2>5
<1>3. CASE CommitsFee(t)
  <2>1. PICK terms \in Terms :
         /\ terms.margin < Whole
         /\ Records(t, [mode |-> "professional_fee", terms |-> terms,
                        total |-> FeeTotal(terms)])
    BY <1>3 DEF CommitsFee
  <2> DEFINE total == FeeTotal(terms)
             e == [mode |-> "professional_fee", terms |-> terms, total |-> total]
  <2>2. total \in Nat
    BY <2>1, FeeNear
  <2>3. e \in Fee /\ e.terms = terms /\ e.total = FeeTotal(terms)
    <3> HIDE DEF total
    <3> QED
      BY <2>2 DEF Fee, total
  <2>4. Records(t, e)
    BY <2>1
  <2> HIDE DEF e
  <2>5. FeeComputed(e)
    BY <2>1, <2>3 DEF FeeComputed
  <2>6. doing[t].role \in Role /\ Room
    BY <1>3, Shape DEF CommitsFee, Begun
  <2>7. PICK row \in Event : Adds(e, row)
    BY <2>3, <2>4, <2>6, RecordsRow
  <2>8. e \notin Construction
    BY <2>3 DEF Construction, Fee
  <2> QED
    BY <1>1, <2>3, <2>5, <2>7, <2>8
<1> QED
  BY <1>2, <1>3

\* A cost entered by hand is put down as such, and an actual one has an owner
\* and an invoice.
LEMMA EntersRow ==
    ASSUME PricingTypeOK, NEW t \in Handler, EntersCost(t)
    PROVE  /\ UNCHANGED <<archived, snapshot, mapping, estimate, late>>
           /\ Turns(t, Rest)
           /\ Len(ledger) < MaxEvents
           /\ entered' = entered \cup {Len(ledger) + 1}
           /\ \E row \in Event :
                /\ ledger' = Append(ledger, row)
                /\ row.status = "actual" =>
                     row.by \in FinancialApprover /\ row.evidence = "invoice"
<1>1. PICK e \in [status : {"unknown", "estimated", "actual"},
                  amount : Cents \cup {NoAmount}, evidence : {"none", "invoice"},
                  estimate : {0} \cup DOMAIN estimate, by : {doing[t].role}] :
         /\ e.status = "actual" => Approver(t) /\ e.evidence = "invoice"
         /\ ledger' = Append(ledger, e)
  BY DEF EntersCost
<1>2. doing[t].role \in Role
  BY Shape DEF EntersCost, Begun
<1>3. /\ {0} \cup DOMAIN estimate \subseteq 0 .. MaxEstimates
      /\ Cents \cup {NoAmount} \subseteq Nat \cup {NoAmount}
  <2>1. Cents \subseteq Nat /\ MaxEstimates \in Nat
    BY PricingOK
  <2>2. DOMAIN estimate = 1 .. Len(estimate) /\ Len(estimate) \in 0 .. MaxEstimates
    BY <2>1, SeqRow DEF PricingTypeOK
  <2>3. {0} \cup 1 .. Len(estimate) \subseteq 0 .. MaxEstimates
    BY <2>1, <2>2
  <2> QED
    BY <2>1, <2>2, <2>3
<1>4. e \in Event
  BY <1>2, <1>3 DEF Event
<1>5. e.by = doing[t].role
  OBVIOUS
<1> QED
  BY <1>1, <1>4, <1>5 DEF EntersCost, Approver

-----------------------------------------------------------------------------
(* The steps.                                                               *)

\* A step of one handler leaves the others where they are.
LEMMA TurnsStep ==
    ASSUME PricingTypeOK, SnapshotsSigned, MappingsSigned, NEW t \in Handler, Does(t)
    PROVE  /\ \A u \in Handler \ {t} : doing'[u] = doing[u]
           /\ doing' \in [Handler -> Working]
<1>1. CASE Begins(t)
  BY <1>1, TurnsTo DEF Begins, Working
<1>2. CASE Prices(t)
  <2>1. PICK e \in Construction : Turns(t, [at |-> "priced", role |-> doing[t].role, result |-> e])
    BY <1>2, PricesResult
  <2>2. [at |-> "priced", role |-> doing[t].role, result |-> e] \in Working
    BY <1>2, Shape DEF Prices, Begun, Working
  <2> QED
    BY <2>1, <2>2, TurnsTo
<1>3. CASE ~Begins(t) /\ ~Prices(t)
  <2>1. Turns(t, Rest)
    BY <1>3 DEF Does, GivesUp, Proposes, ApprovesMapping, CommitsEstimate, CommitsFee,
       EntersCost
  <2> QED
    BY <2>1, TurnsTo DEF Working
<1> QED
  BY <1>1, <1>2, <1>3

\* The state stays well formed.
LEMMA PricingTypeStep ==
    ASSUME PricingTypeOK, SnapshotsSigned, MappingsSigned, PricingNext
    PROVE  PricingTypeOK'
<1> USE DEF PricingTypeOK
<1>1. CASE Submit
  <2>1. PICK row \in Snapshot : snapshot' = Append(snapshot, row)
    BY <1>1, Submits
  <2>2. Len(snapshot) + 1 <= MaxSnapshots
    <3>1. Len(snapshot) < MaxSnapshots /\ Len(snapshot) \in Nat
      BY <1>1, Submits, SeqRow
    <3> QED
      BY <3>1, PricingOK
  <2>3. snapshot' \in Seq(Snapshot) /\ Len(snapshot') <= MaxSnapshots
    BY <2>1, <2>2, Appended
  <2> QED
    BY <1>1, <2>3, Submits
<1>2. ASSUME NEW role \in Role, ApproveSnapshot(role)
      PROVE  PricingTypeOK'
  <2>1. PICK s \in DOMAIN snapshot, row \in Snapshot :
          snapshot' = [snapshot EXCEPT ![s] = row]
    BY <1>2, Approves
  <2>2. snapshot' \in Seq(Snapshot) /\ Len(snapshot') = Len(snapshot)
    BY <2>1, ReplacedRow
  <2> QED
    BY <1>2, <2>2, Approves
<1>3. CASE Archives \/ Restores
  BY <1>3 DEF Archives, Restores
<1>4. ASSUME NEW t \in Handler, Does(t)
      PROVE  PricingTypeOK'
  <2>1. doing' \in [Handler -> {Rest} \cup [at : {"begun"}, role : Role]
                              \cup [at : {"priced"}, role : Role, result : Construction]]
    BY <1>4, TurnsStep DEF Working
  <2>2. CASE Begins(t) \/ GivesUp(t)
    BY <2>1, <2>2 DEF Begins, GivesUp
  <2>3. CASE Proposes(t)
    <3>1. PICK row \in Mapping : mapping' = Append(mapping, row)
      BY <2>3, Maps
    <3>2. Len(mapping) < MaxMappings /\ Len(mapping) \in Nat
      BY <2>3, Maps, SeqRow
    <3>3. mapping' \in Seq(Mapping) /\ Len(mapping') <= MaxMappings
      BY <3>1, <3>2, Appended, PricingOK
    <3> QED
      BY <2>1, <2>3, <3>3, Maps
  <2>4. CASE ApprovesMapping(t)
    <3>1. PICK m \in DOMAIN mapping, row \in Mapping : mapping' = [mapping EXCEPT ![m] = row]
      BY <2>4, Signs
    <3>2. mapping' \in Seq(Mapping) /\ Len(mapping') = Len(mapping)
      BY <3>1, ReplacedRow
    <3> QED
      BY <2>1, <2>4, <3>2, Signs
  <2>5. CASE Prices(t)
    BY <2>1, <2>5, PricesResult
  <2>6. CASE CommitsEstimate(t) \/ CommitsFee(t)
    <3>1. PICK e \in Construction \cup Fee, row \in Event : Adds(e, row)
      BY <2>6, CommitsRows
    <3>2. /\ Len(estimate) < MaxEstimates /\ Len(estimate) \in Nat
          /\ Len(ledger) < MaxEvents /\ Len(ledger) \in Nat
      BY <3>1, SeqRow DEF Adds
    <3>3. /\ estimate' \in Seq(Construction \cup Fee) /\ Len(estimate') <= MaxEstimates
      BY <3>1, <3>2, Appended, PricingOK DEF Adds
    <3>4. /\ ledger' \in Seq(Event) /\ Len(ledger') <= MaxEvents
          /\ DOMAIN ledger \subseteq DOMAIN ledger'
      BY <3>1, <3>2, Appended, PricingOK DEF Adds
    <3> QED
      BY <2>1, <2>6, <3>3, <3>4, CommitsRows
  <2>7. CASE EntersCost(t)
    <3>1. PICK row \in Event : ledger' = Append(ledger, row)
      BY <2>7, EntersRow
    <3>2. Len(ledger) < MaxEvents /\ Len(ledger) \in Nat
      BY <2>7, EntersRow, SeqRow
    <3>3. /\ ledger' \in Seq(Event) /\ Len(ledger') <= MaxEvents
          /\ DOMAIN ledger' = DOMAIN ledger \cup {Len(ledger) + 1}
      BY <3>1, <3>2, Appended, PricingOK
    <3> QED
      BY <2>1, <2>7, <3>3, EntersRow
  <2> QED
    BY <1>4, <2>2, <2>3, <2>4, <2>5, <2>6, <2>7 DEF Does
<1> QED
  BY <1>1, <1>2, <1>3, <1>4 DEF PricingNext, Does

\* No step takes from a row what an estimate relied on.
LEMMA KeptStep ==
    ASSUME PricingTypeOK, SnapshotsSigned, MappingsSigned, PricingNext
    PROVE  Kept
<1>0. snapshot \in Seq(Snapshot) /\ mapping \in Seq(Mapping)
  BY DEF PricingTypeOK
<1>1. CASE Submit
  <2>1. PICK row \in Snapshot : snapshot' = Append(snapshot, row)
    BY <1>1, Submits
  <2>2. \A s \in DOMAIN snapshot : s \in DOMAIN snapshot' /\ snapshot'[s] = snapshot[s]
    BY <1>0, <2>1, Appended, SeqRow
  <2>3. mapping' = mapping
    BY <1>1, Submits
  <2> QED
    BY <2>2, <2>3 DEF Kept
<1>2. ASSUME NEW role \in Role, ApproveSnapshot(role)
      PROVE  Kept
  <2>1. PICK s \in DOMAIN snapshot, row \in Snapshot :
          /\ snapshot' = [snapshot EXCEPT ![s] = row]
          /\ row.by = role /\ role \in FinancialApprover
          /\ row.source = snapshot[s].source /\ row.cents = snapshot[s].cents
    BY <1>2, Approves
  <2>2. /\ DOMAIN snapshot' = DOMAIN snapshot /\ snapshot'[s] = row
        /\ \A r \in DOMAIN snapshot \ {s} : snapshot'[r] = snapshot[r]
    BY <1>0, <2>1, ReplacedRow
  <2>3. mapping' = mapping
    BY <1>2, Approves
  <2> QED
    BY <2>1, <2>2, <2>3 DEF Kept
<1>3. ASSUME NEW t \in Handler, Proposes(t)
      PROVE  Kept
  <2>1. PICK row \in Mapping : mapping' = Append(mapping, row)
    BY <1>3, Maps
  <2>2. \A m \in DOMAIN mapping : m \in DOMAIN mapping' /\ mapping'[m] = mapping[m]
    BY <1>0, <2>1, Appended, SeqRow
  <2>3. snapshot' = snapshot
    BY <1>3, Maps
  <2> QED
    BY <2>2, <2>3 DEF Kept
<1>4. ASSUME NEW t \in Handler, ApprovesMapping(t)
      PROVE  Kept
  <2>1. PICK m \in DOMAIN mapping, row \in Mapping :
          /\ mapping' = [mapping EXCEPT ![m] = row]
          /\ row.by \in FinancialApprover
          /\ row.item = mapping[m].item /\ row.quantity = mapping[m].quantity
    BY <1>4, Signs
  <2>2. /\ DOMAIN mapping' = DOMAIN mapping /\ mapping'[m] = row
        /\ \A r \in DOMAIN mapping \ {m} : mapping'[r] = mapping[r]
    BY <1>0, <2>1, ReplacedRow
  <2>3. snapshot' = snapshot
    BY <1>4, Signs
  <2> QED
    BY <2>1, <2>2, <2>3 DEF Kept
<1>5. ASSUME UNCHANGED <<snapshot, mapping>>
      PROVE  Kept
  BY <1>5 DEF Kept
<1>6. ASSUME NEW t \in Handler,
             \/ Begins(t) \/ GivesUp(t) \/ Prices(t) \/ CommitsEstimate(t)
             \/ CommitsFee(t) \/ EntersCost(t)
      PROVE  UNCHANGED <<snapshot, mapping>>
  BY <1>6 DEF Begins, GivesUp, Prices, CommitsEstimate, CommitsFee, EntersCost
<1>7. Archives \/ Restores => UNCHANGED <<snapshot, mapping>>
  BY DEF Archives, Restores
<1> QED
  BY <1>1, <1>2, <1>3, <1>4, <1>5, <1>6, <1>7 DEF PricingNext

\* Every signature is an owner's.
LEMMA SignedStep ==
    ASSUME PricingTypeOK, SnapshotsSigned, MappingsSigned, PricingNext
    PROVE  SnapshotsSigned' /\ MappingsSigned'
<1>0. snapshot \in Seq(Snapshot) /\ mapping \in Seq(Mapping)
  BY DEF PricingTypeOK
<1>1. CASE Submit
  <2>1. PICK row \in Snapshot : /\ snapshot' = Append(snapshot, row)
                                /\ row.authority = "unverified"
    BY <1>1, Submits
  <2>2. /\ \A s \in DOMAIN snapshot : s \in DOMAIN snapshot' /\ snapshot'[s] = snapshot[s]
        /\ \A s \in DOMAIN snapshot' \ DOMAIN snapshot : snapshot'[s] = row
    BY <1>0, <2>1, Appended, SeqRow
  <2>3. mapping' = mapping
    BY <1>1, Submits
  <2>4. SnapshotsSigned'
    BY <2>1, <2>2 DEF SnapshotsSigned
  <2>5. MappingsSigned'
    BY <2>2, <2>3 DEF MappingsSigned
  <2> QED
    BY <2>4, <2>5
<1>2. ASSUME NEW role \in Role, ApproveSnapshot(role)
      PROVE  SnapshotsSigned' /\ MappingsSigned'
  <2>1. PICK s \in DOMAIN snapshot, row \in Snapshot :
          /\ snapshot' = [snapshot EXCEPT ![s] = row]
          /\ row.by = role /\ role \in FinancialApprover /\ row.source \in ManuallyApproved
    BY <1>2, Approves
  <2>2. /\ DOMAIN snapshot' = DOMAIN snapshot /\ snapshot'[s] = row
        /\ \A r \in DOMAIN snapshot \ {s} : snapshot'[r] = snapshot[r]
    BY <1>0, <2>1, ReplacedRow
  <2>3. mapping' = mapping
    BY <1>2, Approves
  <2> QED
    BY <2>1, <2>2, <2>3 DEF SnapshotsSigned, MappingsSigned
<1>3. ASSUME NEW t \in Handler, Proposes(t)
      PROVE  SnapshotsSigned' /\ MappingsSigned'
  <2>1. PICK row \in Mapping : /\ mapping' = Append(mapping, row)
                               /\ row.item \in DOMAIN snapshot /\ row.status = "proposed"
    BY <1>3, Maps
  <2>2. /\ \A m \in DOMAIN mapping : mapping'[m] = mapping[m]
        /\ \A m \in DOMAIN mapping' \ DOMAIN mapping : mapping'[m] = row
    BY <1>0, <2>1, Appended, SeqRow
  <2>3. snapshot' = snapshot
    BY <1>3, Maps
  <2> QED
    BY <2>1, <2>2, <2>3 DEF SnapshotsSigned, MappingsSigned
<1>4. ASSUME NEW t \in Handler, ApprovesMapping(t)
      PROVE  SnapshotsSigned' /\ MappingsSigned'
  <2>1. PICK m \in DOMAIN mapping, row \in Mapping :
          /\ mapping' = [mapping EXCEPT ![m] = row]
          /\ row.by \in FinancialApprover /\ row.item = mapping[m].item
    BY <1>4, Signs
  <2>2. /\ DOMAIN mapping' = DOMAIN mapping /\ mapping'[m] = row
        /\ \A r \in DOMAIN mapping \ {m} : mapping'[r] = mapping[r]
    BY <1>0, <2>1, ReplacedRow
  <2>3. snapshot' = snapshot
    BY <1>4, Signs
  <2> QED
    BY <2>1, <2>2, <2>3 DEF SnapshotsSigned, MappingsSigned
<1>5. ASSUME UNCHANGED <<snapshot, mapping>>
      PROVE  SnapshotsSigned' /\ MappingsSigned'
  BY <1>5 DEF SnapshotsSigned, MappingsSigned
<1>6. ASSUME NEW t \in Handler,
             \/ Begins(t) \/ GivesUp(t) \/ Prices(t) \/ CommitsEstimate(t)
             \/ CommitsFee(t) \/ EntersCost(t)
      PROVE  UNCHANGED <<snapshot, mapping>>
  BY <1>6 DEF Begins, GivesUp, Prices, CommitsEstimate, CommitsFee, EntersCost
<1>7. Archives \/ Restores => UNCHANGED <<snapshot, mapping>>
  BY DEF Archives, Restores
<1> QED
  BY <1>1, <1>2, <1>3, <1>4, <1>5, <1>6, <1>7 DEF PricingNext

\* The rows after one is added.
LEMMA InSequence ==
    ASSUME NEW S, NEW s \in Seq(S), NEW x \in S
    PROVE  ToSet(Append(s, x)) = ToSet(s) \cup {x}
<1>1. \A i \in DOMAIN Append(s, x) : i \in DOMAIN s \/ i = Len(s) + 1
  BY Appended, SeqRow
<1>2. /\ \A i \in DOMAIN s : i \in DOMAIN Append(s, x) /\ Append(s, x)[i] = s[i]
      /\ Len(s) + 1 \in DOMAIN Append(s, x) /\ Append(s, x)[Len(s) + 1] = x
  BY Appended, SeqRow
<1> QED
  BY <1>1, <1>2 DEF ToSet

\* Every step keeps the estimates computed.
LEMMA ComputedStep ==
    ASSUME PricingTypeOK, SnapshotsSigned, MappingsSigned, EstimatesComputed, PricingNext
    PROVE  EstimatesComputed'
<1>0. Kept
  BY KeptStep
<1>1. CASE \E t \in Handler : CommitsEstimate(t) \/ CommitsFee(t)
  <2>1. PICK t \in Handler : CommitsEstimate(t) \/ CommitsFee(t)
    BY <1>1
  <2>2. PICK x \in Construction \cup Fee, row \in Event :
          /\ Adds(x, row)
          /\ x \in Construction => InUse(x)
          /\ x \in Fee => FeeComputed(x)
    BY <2>1, CommitsRows
  <2>3. ToSet(estimate') = ToSet(estimate) \cup {x}
    <3>1. estimate \in Seq(Construction \cup Fee) /\ estimate' = Append(estimate, x)
      BY <2>2 DEF Adds, PricingTypeOK
    <3> QED
      BY <3>1, InSequence
  <2>4. ToSet(estimate)' = ToSet(estimate')
    BY DEF ToSet
  <2>5. \A u \in Handler : doing'[u].at = "priced" => doing'[u] = doing[u]
    BY <2>1, CommitsRows, TurnsTo DEF Rest
  <2>6. \A e \in Construction : InUse(e)' => InUse(e)
    BY <2>2, <2>3, <2>4, <2>5 DEF InUse
  <2>7. \A e \in Construction : InUse(e)' => Computed(e)'
    BY <1>0, <2>6, ComputedKept DEF EstimatesComputed
  <2>8. \A e \in Fee : e \in ToSet(estimate)' => FeeComputed(e)
    BY <2>2, <2>3, <2>4 DEF EstimatesComputed
  <2>9. \A e : FeeComputed(e)' = FeeComputed(e)
    BY DEF FeeComputed
  <2> QED
    BY <2>7, <2>8, <2>9 DEF EstimatesComputed
<1>2. CASE ~ \E t \in Handler : CommitsEstimate(t) \/ CommitsFee(t)
  <2>1. estimate' = estimate
    BY <1>2
       DEF PricingNext, Submit, ApproveSnapshot, Archives, Restores, Begins, GivesUp,
       Proposes, ApprovesMapping, Prices, EntersCost
  <2>2. ToSet(estimate)' = ToSet(estimate)
    BY <2>1 DEF ToSet
  <2>3. \A e \in Construction :
          InUse(e)' => InUse(e) \/ (Computed(e) /\ \E t \in Handler : Prices(t))
    <3>1. CASE \E t \in Handler : Does(t)
      <4>1. PICK t \in Handler : Does(t)
        BY <3>1
      <4>2. \A u \in Handler \ {t} : doing'[u] = doing[u]
        BY <4>1, TurnsStep
      <4>3. CASE Prices(t)
        <5>1. PICK x \in Construction :
                /\ Computed(x)
                /\ Turns(t, [at |-> "priced", role |-> doing[t].role, result |-> x])
          BY <4>3, PricesResult
        <5>2. doing'[t].result = x
          BY <5>1, TurnsTo
        <5> QED
          BY <2>2, <4>2, <4>3, <5>1, <5>2 DEF InUse
      <4>4. CASE ~Prices(t)
        <5>1. doing'[t].at # "priced"
          <6>1. CASE Begins(t)
            <7>1. PICK role \in Role : Turns(t, [at |-> "begun", role |-> role])
              BY <6>1 DEF Begins
            <7> QED
              BY <7>1, TurnsTo
          <6>2. CASE ~Begins(t)
            <7>1. Turns(t, Rest)
              BY <1>2, <4>1, <4>4, <6>2
                 DEF Does, GivesUp, Proposes, ApprovesMapping, EntersCost
            <7> QED
              BY <7>1, TurnsTo DEF Rest
          <6> QED
            BY <6>1, <6>2
        <5> QED
          BY <2>2, <4>2, <5>1 DEF InUse
      <4> QED
        BY <4>3, <4>4
    <3>2. CASE ~ \E t \in Handler : Does(t)
      <4>1. doing' = doing
        BY <3>2 DEF PricingNext, Does, Submit, ApproveSnapshot, Archives, Restores
      <4> QED
        BY <2>2, <4>1 DEF InUse
    <3> QED
      BY <3>1, <3>2
  <2>4. \A e \in Construction : InUse(e)' => Computed(e)'
    BY <1>0, <2>3, ComputedKept DEF EstimatesComputed
  <2>5. \A e : FeeComputed(e)' = FeeComputed(e)
    BY DEF FeeComputed
  <2> QED
    BY <2>2, <2>4, <2>5 DEF EstimatesComputed
<1> QED
  BY <1>1, <1>2

\* Of an estimate the ledger has one event of its own, with its amount.
OneEvent(n) ==
    \E only \in OwnEvents :
        /\ ledger[only].amount = estimate[n].total
        /\ {i \in OwnEvents : ledger[i].estimate = n} = {only}

\* Estimates and their events are added together.
LEMMA LedgerStep ==
    ASSUME PricingTypeOK, SnapshotsSigned, MappingsSigned, LedgerBacked, PricingNext
    PROVE  LedgerBacked'
<1>0. /\ estimate \in Seq(Construction \cup Fee) /\ ledger \in Seq(Event)
      /\ DOMAIN estimate = 1 .. Len(estimate) /\ Len(estimate) \in Nat
      /\ DOMAIN ledger = 1 .. Len(ledger) /\ Len(ledger) \in Nat
      /\ entered \subseteq DOMAIN ledger
  BY SeqRow DEF PricingTypeOK
<1>A. /\ \A n \in DOMAIN estimate : OneEvent(n)
      /\ \A i \in OwnEvents : ledger[i].estimate \in DOMAIN estimate
      /\ \A i \in DOMAIN ledger :
           ledger[i].status = "actual" =>
             ledger[i].by \in FinancialApprover /\ ledger[i].evidence = "invoice"
  BY DEF LedgerBacked, OneEvent, ToSet
<1>1. ASSUME NEW t \in Handler, CommitsEstimate(t) \/ CommitsFee(t)
      PROVE  LedgerBacked'
  <2>1. PICK e \in Construction \cup Fee, row \in Event : Adds(e, row)
    BY <1>1, CommitsRows
  <2>0. PICK new \in Nat, last \in Nat : new = Len(estimate) + 1 /\ last = Len(ledger) + 1
    BY <1>0
  <2>2. /\ DOMAIN estimate' = DOMAIN estimate \cup {new} /\ estimate'[new] = e
        /\ \A n \in DOMAIN estimate : n # new /\ estimate'[n] = estimate[n]
    BY <1>0, <2>0, <2>1, Appended DEF Adds
  <2>3. /\ DOMAIN ledger' = DOMAIN ledger \cup {last} /\ ledger'[last] = row
        /\ \A i \in DOMAIN ledger : i # last /\ ledger'[i] = ledger[i]
    BY <1>0, <2>0, <2>1, Appended DEF Adds
  <2>4. /\ row.status = "estimated" /\ row.amount = e.total /\ row.estimate = new
        /\ new \notin DOMAIN estimate
    BY <1>0, <2>0, <2>1 DEF Adds
  <2>5. OwnEvents' = OwnEvents \cup {last} /\ last \notin OwnEvents
    <3>1. entered' = entered /\ last \notin DOMAIN ledger
      BY <1>0, <1>1, <2>0, CommitsRows
    <3> QED
      BY <1>0, <2>3, <3>1 DEF OwnEvents
  <2>6. ASSUME NEW n \in DOMAIN estimate
        PROVE  OneEvent(n)'
    <3>1. PICK only \in OwnEvents :
            /\ ledger[only].amount = estimate[n].total
            /\ {i \in OwnEvents : ledger[i].estimate = n} = {only}
      BY <1>A DEF OneEvent
    <3>2. \A i \in OwnEvents : ledger'[i] = ledger[i]
      BY <2>3 DEF OwnEvents
    <3>3. {i \in OwnEvents' : ledger'[i].estimate = n} = {only}
      BY <2>2, <2>3, <2>4, <2>5, <3>1, <3>2
    <3>4. only \in OwnEvents' /\ ledger'[only].amount = estimate'[n].total
      BY <2>2, <2>5, <3>1, <3>2
    <3> QED
      BY <3>3, <3>4 DEF OneEvent
  <2>7. OneEvent(new)'
    <3>1. ledger'[last].amount = estimate'[new].total
      BY <2>2, <2>3, <2>4
    <3>2. \A i \in OwnEvents : ledger'[i].estimate # new
      BY <1>A, <2>3, <2>4 DEF OwnEvents
    <3>3. {i \in OwnEvents' : ledger'[i].estimate = new} = {last}
      BY <2>3, <2>4, <2>5, <3>2
    <3> QED
      BY <2>5, <3>1, <3>3 DEF OneEvent
  <2>8. \A i \in OwnEvents' : ledger'[i].estimate \in DOMAIN estimate'
    BY <1>A, <2>2, <2>3, <2>4, <2>5 DEF OwnEvents
  <2>9. \A i \in DOMAIN ledger' :
           ledger'[i].status = "actual" =>
             ledger'[i].by \in FinancialApprover /\ ledger'[i].evidence = "invoice"
    BY <1>A, <2>3, <2>4
  <2>10. \A n \in DOMAIN estimate' : OneEvent(n)'
    BY <2>2, <2>6, <2>7
  <2> QED
    BY <2>8, <2>9, <2>10 DEF LedgerBacked, OneEvent, ToSet
<1>2. ASSUME NEW t \in Handler, EntersCost(t)
      PROVE  LedgerBacked'
  <2>1. PICK row \in Event :
                /\ ledger' = Append(ledger, row)
                /\ row.status = "actual" =>
                     row.by \in FinancialApprover /\ row.evidence = "invoice"
    BY <1>2, EntersRow
  <2>0. PICK last \in Nat : last = Len(ledger) + 1
    BY <1>0
  <2>2. estimate' = estimate /\ entered' = entered \cup {last}
    BY <1>2, <2>0, EntersRow
  <2>3. /\ DOMAIN ledger' = DOMAIN ledger \cup {last} /\ ledger'[last] = row
        /\ \A i \in DOMAIN ledger : i # last /\ ledger'[i] = ledger[i]
    BY <1>0, <2>0, <2>1, Appended
  <2>4. OwnEvents' = OwnEvents /\ \A i \in OwnEvents : ledger'[i] = ledger[i]
    BY <2>2, <2>3 DEF OwnEvents
  <2>5. ASSUME NEW n \in DOMAIN estimate
        PROVE  OneEvent(n)'
    <3>1. PICK only \in OwnEvents :
            /\ ledger[only].amount = estimate[n].total
            /\ {i \in OwnEvents : ledger[i].estimate = n} = {only}
      BY <1>A DEF OneEvent
    <3>2. {i \in OwnEvents' : ledger'[i].estimate = n} = {only}
      BY <2>4, <3>1
    <3>3. only \in OwnEvents' /\ ledger'[only].amount = estimate'[n].total
      BY <2>2, <2>4, <3>1
    <3> QED
      BY <3>2, <3>3 DEF OneEvent
  <2>6. \A i \in OwnEvents' : ledger'[i].estimate \in DOMAIN estimate'
    BY <1>A, <2>2, <2>4
  <2>7. \A i \in DOMAIN ledger' :
           ledger'[i].status = "actual" =>
             ledger'[i].by \in FinancialApprover /\ ledger'[i].evidence = "invoice"
    BY <1>A, <2>1, <2>3
  <2> QED
    BY <2>2, <2>5, <2>6, <2>7 DEF LedgerBacked, OneEvent, ToSet
<1>3. ASSUME UNCHANGED <<estimate, ledger, entered>>
      PROVE  LedgerBacked'
  BY <1>3 DEF LedgerBacked, OwnEvents, ToSet
<1>4. ASSUME ~ \E t \in Handler : CommitsEstimate(t) \/ CommitsFee(t) \/ EntersCost(t)
      PROVE  UNCHANGED <<estimate, ledger, entered>>
  BY <1>4 DEF PricingNext, Submit, ApproveSnapshot, Archives, Restores, Begins, GivesUp,
     Proposes, ApprovesMapping, Prices
<1> QED
  BY <1>1, <1>2, <1>3, <1>4

\* Only the archival begins the list, and nobody begins while it lasts.
LEMMA LateStep ==
    ASSUME PricingTypeOK, SnapshotsSigned, MappingsSigned, LateKnown, PricingNext
    PROVE  LateKnown'
<1>1. ASSUME NEW t \in Handler, Begins(t)
      PROVE  LateKnown'
  BY <1>1 DEF Begins, ProjectMutable, LateKnown
<1>2. ASSUME NEW t \in Handler, Prices(t)
      PROVE  LateKnown'
  <2>1. doing[t] # Rest /\ \A u \in Handler \ {t} : doing'[u] = doing[u]
    BY <1>2, TurnsStep DEF Prices, Begun, Does, Rest
  <2>2. UNCHANGED <<archived, late>>
    BY <1>2 DEF Prices
  <2> QED
    BY <2>1, <2>2 DEF LateKnown
<1>3. ASSUME NEW t \in Handler, \/ GivesUp(t) \/ Proposes(t) \/ ApprovesMapping(t)
                                \/ CommitsEstimate(t) \/ CommitsFee(t) \/ EntersCost(t)
      PROVE  LateKnown'
  <2>1. Turns(t, Rest) /\ UNCHANGED <<archived, late>>
    BY <1>3
       DEF GivesUp, Proposes, ApprovesMapping, CommitsEstimate, CommitsFee, EntersCost
  <2>2. doing'[t] = Rest /\ \A u \in Handler \ {t} : doing'[u] = doing[u]
    BY <2>1, TurnsTo
  <2> QED
    BY <2>1, <2>2 DEF LateKnown
<1>4. CASE Archives
  BY <1>4 DEF Archives, LateKnown
<1>5. CASE Restores
  BY <1>5 DEF Restores, LateKnown
<1>6. CASE Submit \/ \E role \in Role : ApproveSnapshot(role)
  BY <1>6 DEF Submit, ApproveSnapshot, LateKnown
<1> QED
  BY <1>1, <1>2, <1>3, <1>4, <1>5, <1>6 DEF PricingNext

-----------------------------------------------------------------------------
\* The empty tables satisfy the invariant.
LEMMA PricingInitInv == PricingInit => PricingInv
<1>1. SUFFICES ASSUME PricingInit
               PROVE  PricingInv
  OBVIOUS
<1>2. PricingTypeOK
  <2>1. /\ {MaxSnapshots, MaxMappings, MaxEstimates, MaxEvents} \subseteq Nat
    BY PricingOK
  <2>2. \A S : <<>> \in Seq(S) /\ Len(<<>>) = 0
    OBVIOUS
  <2>3. \A n \in {MaxSnapshots, MaxMappings, MaxEstimates, MaxEvents} : 0 <= n
    BY <2>1
  <2>4. doing \in [Handler -> {Rest} \cup [at : {"begun"}, role : Role]
                              \cup [at : {"priced"}, role : Role, result : Construction]]
    BY <1>1 DEF PricingInit
  <2> QED
    BY <1>1, <2>2, <2>3, <2>4 DEF PricingInit, PricingTypeOK
<1>3. SnapshotsSigned /\ MappingsSigned /\ LedgerBacked
  BY <1>1 DEF PricingInit, SnapshotsSigned, MappingsSigned, LedgerBacked, OwnEvents,
     ToSet
<1>4. EstimatesComputed /\ LateKnown
  BY <1>1 DEF PricingInit, EstimatesComputed, InUse, ToSet, LateKnown, Rest
<1> QED
  BY <1>2, <1>3, <1>4 DEF PricingInv

\* Every step keeps it.
LEMMA PricingNextInv == PricingInv /\ [PricingNext]_pricingVars => PricingInv'
<1>1. SUFFICES ASSUME PricingInv, [PricingNext]_pricingVars
               PROVE  PricingInv'
  OBVIOUS
<1>2. CASE PricingNext
  BY <1>1, <1>2, PricingTypeStep, SignedStep, ComputedStep, LedgerStep, LateStep
     DEF PricingInv
<1>3. CASE UNCHANGED pricingVars
  <2>1. PricingTypeOK' /\ SnapshotsSigned' /\ MappingsSigned' /\ LateKnown'
    BY <1>1, <1>3
       DEF pricingVars, PricingInv, PricingTypeOK, SnapshotsSigned, MappingsSigned, LateKnown
  <2>8. LedgerBacked'
    <3>1. UNCHANGED <<estimate, ledger, entered>> /\ LedgerBacked
      BY <1>1, <1>3 DEF pricingVars, PricingInv
    <3> QED
      BY <3>1 DEF LedgerBacked, OwnEvents, ToSet
  <2>2. \A e : InUse(e)' = InUse(e)
    BY <1>3 DEF pricingVars, InUse
  <2>3. Kept
    BY <1>3 DEF pricingVars, Kept
  <2>4. \A e \in Construction : InUse(e)' => Computed(e)'
    BY <1>1, <2>2, <2>3, ComputedKept DEF PricingInv, EstimatesComputed
  <2>5. \A e : FeeComputed(e)' = FeeComputed(e)
    BY DEF FeeComputed
  <2>6. ToSet(estimate)' = ToSet(estimate)
    BY <1>3 DEF pricingVars
  <2>7. EstimatesComputed'
    BY <1>1, <2>4, <2>5, <2>6 DEF PricingInv, EstimatesComputed
  <2> QED
    BY <2>1, <2>7, <2>8 DEF PricingInv
<1> QED
  BY <1>1, <1>2, <1>3

\* The inductive invariant holds in every reachable state.
LEMMA PricingInvariance == PricingSpec => []PricingInv
<1>1. PricingInit => PricingInv
  BY PricingInitInv
<1>2. PricingInv /\ [PricingNext]_pricingVars => PricingInv'
  BY PricingNextInv
<1> QED
  BY <1>1, <1>2, PTL DEF PricingSpec

-----------------------------------------------------------------------------
\* Every row and every result under way is well formed.
THEOREM PricingTypeCorrect == PricingSpec => []PricingTypeOK
<1>1. PricingInv => PricingTypeOK
  BY DEF PricingInv
<1> QED
  BY <1>1, PricingInvariance, PTL

\* An estimate is of one of two kinds, told by its mode.
LEMMA EstimateShape ==
    ASSUME PricingInv, NEW e \in ToSet(estimate)
    PROVE  \/ e \in Construction /\ Computed(e) /\ e.mode = "construction_cost"
           \/ e \in Fee /\ FeeComputed(e) /\ e.mode = "professional_fee"
<1>1. e \in Construction \cup Fee
  BY SeqRow DEF PricingInv, PricingTypeOK, ToSet
<1>2. CASE e \in Construction
  BY <1>2 DEF PricingInv, EstimatesComputed, InUse, Construction
<1>3. CASE e \in Fee
  BY <1>3 DEF PricingInv, EstimatesComputed, Fee
<1> QED
  BY <1>1, <1>2, <1>3

\* No price reaches a total but through the approvals of its snapshot and of its
\* mapping by an owner, whatever is submitted or approved again meanwhile.
THEOREM PricesAreApproved == PricingSpec => []PricesApproved
<1>1. PricingInv => PricesApproved
  <2>1. SUFFICES ASSUME PricingInv, NEW e \in ToSet(estimate), e.mode = "construction_cost",
                        NEW m \in ToSet(e.lines)
                 PROVE  /\ mapping[m].by \in FinancialApprover
                        /\ Item(m).by \in FinancialApprover
                        /\ Item(m).source = "supplier_quote"
                        /\ Item(m).cents > 0
    BY DEF PricesApproved
  <2>2. Computed(e)
    BY <2>1, EstimateShape
  <2> QED
    BY <2>1, <2>2 DEF Computed, Signed, ToSet
<1> QED
  BY <1>1, PricingInvariance, PTL

\* The total of every estimate is as far from the exact value of the rows and
\* terms it names as its roundings allow, for any number of lines.
THEOREM TotalsReconstructible == PricingSpec => []Reconstructible
<1>1. PricingInv => Reconstructible
  <2>1. SUFFICES ASSUME PricingInv
                 PROVE  Reconstructible
    OBVIOUS
  <2>2. ASSUME NEW e \in Construction, Computed(e)
        PROVE  Near(2 * Parts * Whole * e.total,
                    2 * e.factor * SumFunction(Exacts(e.lines)),
                    Parts * (Len(e.lines) * e.factor + Whole))
    <3>1. e.lines \in BoundedSeq(Line, MaxLines) /\ e.factor \in Nat
      BY PricingOK DEF Construction
    <3>2. PICK n \in Nat : e.lines \in [1 .. n -> Line] /\ Len(e.lines) = n
      BY <3>1, LinesShape
    <3> DEFINE subtotals == Subtotals(e.lines)
               exacts == Exacts(e.lines)
    <3>3. DOMAIN e.lines = 1 .. n /\ \A i \in 1 .. n : Signed(e.lines[i])
      BY <2>2, <3>2 DEF Computed
    <3>4. /\ subtotals \in [1 .. n -> Nat] /\ exacts \in [1 .. n -> Nat]
          /\ \A i \in 1 .. n : Near((2 * Parts) * subtotals[i], 2 * exacts[i], Parts)
      BY <2>1, <3>3, SubtotalsShape DEF PricingInv
    <3>5. e.total = Rounded(SumFunction(subtotals) * e.factor, Whole)
      BY <2>2 DEF Computed
    <3> HIDE DEF subtotals, exacts
    <3>6. SumFunction(subtotals) \in Nat /\ SumFunction(exacts) \in Nat
      BY <3>4, SumFunctionType
    <3>7. Near((2 * Parts) * SumFunction(subtotals), 2 * SumFunction(exacts), n * Parts)
      <4>1. 2 * Parts \in Nat /\ Parts \in Nat
        BY PricingOK
      <4>2. subtotals \in [1 .. n -> Int] /\ exacts \in [1 .. n -> Int]
        BY <3>4
      <4> QED
        BY <3>4, <4>1, <4>2, SumFunctionNear
    <3>8. Near(2 * Parts * Whole * Rounded(SumFunction(subtotals) * e.factor, Whole),
               2 * e.factor * SumFunction(exacts), Parts * (n * e.factor + Whole))
      BY <3>1, <3>6, <3>7, ConstructionNear
    <3> QED
      BY <3>2, <3>5, <3>8 DEF exacts
  <2>3. ASSUME NEW e \in Fee, FeeComputed(e)
        PROVE  LET net   == Whole - e.terms.margin
                   taxed == Whole + e.terms.taxes
               IN  Near(2 * Parts * Whole * net * e.total,
                        2 * e.terms.hours * e.terms.hourly * (Whole + e.terms.overhead) * taxed,
                        Parts * ((2 * Whole + e.terms.overhead + net) * taxed + Whole * net))
    <3>1. e.terms \in Terms /\ e.terms.margin < Whole /\ e.total = FeeTotal(e.terms)
      BY <2>3 DEF Fee, FeeComputed
    <3> QED
      BY <3>1, FeeNear
  <2> QED
    BY <2>1, <2>2, <2>3, EstimateShape DEF Reconstructible
<1> QED
  BY <1>1, PricingInvariance, PTL

\* Each estimate has one event of its own, of its amount, whatever else people
\* enter in the ledger.
THEOREM LedgerIsBacked == PricingSpec => []LedgerBacked
<1>1. PricingInv => LedgerBacked
  BY DEF PricingInv
<1> QED
  BY <1>1, PricingInvariance, PTL

\* An archived project is written only by requests that found it open before it
\* was archived, each for the last time.
THEOREM OnlyLateWriters == PricingSpec => LateWritersOnly
<1>1. ASSUME PricingInv, [PricingNext]_pricingVars
      PROVE  [archived /\ <<mapping, estimate, ledger>>' # <<mapping, estimate, ledger>>
                => \E t \in late : doing[t] # Rest /\ doing'[t] = Rest]_pricingVars
  <2>1. SUFFICES ASSUME archived, PricingNext,
                        <<mapping, estimate, ledger>>' # <<mapping, estimate, ledger>>
                 PROVE  \E t \in late : doing[t] # Rest /\ doing'[t] = Rest
    BY <1>1
  <2>2. PICK t \in Handler : \/ Proposes(t) \/ ApprovesMapping(t) \/ CommitsEstimate(t)
                             \/ CommitsFee(t) \/ EntersCost(t)
    BY <2>1
       DEF PricingNext, Submit, ApproveSnapshot, Archives, Restores, Begins, GivesUp, Prices
  <2>3. doing[t].at # "rest" /\ Turns(t, Rest)
    BY <2>2
       DEF Proposes, ApprovesMapping, CommitsEstimate, CommitsFee, EntersCost, Begun
  <2>4. doing'[t] = Rest /\ t \in late
    BY <1>1, <2>1, <2>3, TurnsTo, Shape DEF PricingInv, LateKnown
  <2>5. doing[t] # Rest
    BY <2>3 DEF Rest
  <2> QED
    BY <2>4, <2>5
<1> QED
  BY <1>1, PricingInvariance, PTL DEF PricingSpec, LateWritersOnly
==============================================================================
