------------------------ MODULE ExtractionJobsProofs ------------------------
(***************************************************************************)
(* Theorems about ExtractionJobs, for any workers and handlers and any      *)
(* bounds.                                                                  *)
(*                                                                          *)
(* No write of a worker looks at the lease, so the invariant says what is   *)
(* left of what a worker read when its claim was taken over: the row has    *)
(* been claimed and never goes back (RowInv, WorkerInv), a lease that       *)
(* lapsed found every worker of the job late (WorkerInv), only a job that   *)
(* was taken over has two workers (AloneInv), and a version read earlier    *)
(* is at most the next one (NumberInv).                                     *)
(***************************************************************************)
EXTENDS ExtractionJobs, FiniteSetTheorems, TLAPS

Busy   == {"claimed", "working", "produced"}
Opened == {"working", "produced"}

\* A job nobody claimed has no attempts; a claimed one never goes back.
RowInv ==
    /\ \A j \in JobId :
         /\ jobs[j].status \in {"absent", "queued"} <=> jobs[j].attempts = 0
         /\ IsFiniteSet(WorkersOn(j)) /\ IsFiniteSet(OutputsOf(j))
    /\ IsFiniteSet(Numbers)

\* What a worker holds of its job: the row it read is old, but a row once
\* settled stays settled, and a lease that ran out found the worker at work.
WorkerInv ==
    \A w \in Worker : worker[w].at \in Busy =>
        LET row == jobs[worker[w].job]
            seen == worker[w].seen
        IN  /\ row.attempts > 0
            /\ row.lease = "lapsed" => worker[w].late
            /\ row.status \in Settled => row.attempts # 1
            /\ worker[w].at \in Opened =>
                 /\ seen.status \in Settled \cup {"processing"}
                 /\ seen.status = "processing" <=> seen.lease # "none"
                 /\ seen.status \in Settled => row.status \in Settled

\* Whoever works on a job on its only claim is alone.
AloneInv ==
    \A v, w \in Worker :
        worker[v].job = worker[w].job /\ worker[v].job # 0
        /\ jobs[worker[v].job].attempts = 1 => v = w

\* A version that was read is at most the next one.
NumberInv ==
    /\ \A w \in Worker : worker[w].at = "produced" =>
         IF kind = "geometry" THEN worker[w].number \in blobs
                              ELSE worker[w].number \in 1 .. Cardinality(Numbers) + 1
    /\ \A h \in Handler : handler[h].op = "draw" =>
         kind # "geometry" /\ handler[h].number \in 1 .. Cardinality(Numbers) + 1

Inv ==
    /\ TypeOK
    /\ RowInv
    /\ WorkerInv
    /\ AloneInv
    /\ NumberInv
    /\ ScenesNumbered
    /\ CompletedHasOutput
    /\ ProcessingIsLeased
    /\ OneTimelyWorker
    /\ OutputPerClaim

-----------------------------------------------------------------------------
\* The bound on outputs is a number, and has room for the drawn scenes.
LEMMA OutputBound == MaxOutputs \in Nat /\ MaxScenes <= MaxOutputs
<1>1. MaxJobs * MaxAttempts \in Nat
  BY BoundsOK
<1>2. QED
  BY <1>1, BoundsOK DEF MaxOutputs

\* The numbers up to n, and the largest of them.
LEMMA MaxOfInterval ==
    ASSUME NEW n \in Nat
    PROVE  Max((1 .. n) \cup {0}) = n
<1>1. (1 .. n) \cup {0} = 0 .. n
  OBVIOUS
<1>2. n \in 0 .. n /\ \A x \in 0 .. n : x <= n
  OBVIOUS
<1>3. Max(0 .. n) = n
  BY <1>2 DEF Max
<1>4. QED
  BY <1>1, <1>3

\* The next version is one more than the scenes there are.
LEMMA NextIsCount ==
    ASSUME Inv, kind # "geometry"
    PROVE  /\ Cardinality(Numbers) \in Nat
           /\ NextVersion = Cardinality(Numbers) + 1
<1>1. Cardinality(Numbers) \in Nat
  BY FS_CardinalityType DEF Inv, RowInv
<1>2. Numbers = 1 .. Cardinality(Numbers)
  BY DEF Inv, ScenesNumbered
<1>3. Max(Numbers \cup {0}) = Cardinality(Numbers)
  BY <1>1, <1>2, MaxOfInterval
<1>4. QED
  BY <1>1, <1>3 DEF NextVersion

\* The fields of a worker that has a job.
LEMMA StateFields ==
    ASSUME NEW s \in WorkerState
    PROVE  /\ s.job \in 0 .. MaxJobs
           /\ s.at \in Busy <=> s.job # 0
           /\ s.at \in Busy =>
                s \in [at : Busy, job : JobId, seen : Job,
                       number : 0 .. MaxOutputs, late : BOOLEAN]
<1>1. CASE s \in {Idle, Down}
  BY <1>1, BoundsOK DEF Idle, Down, At, Busy
<1>2. CASE s \in [at : Busy, job : JobId, seen : Job,
                   number : 0 .. MaxOutputs, late : BOOLEAN]
  BY <1>2, BoundsOK DEF Busy, JobId
<1>3. QED
  BY <1>1, <1>2 DEF WorkerState, Busy

\* A busy worker has a job, and the row as it read it.
LEMMA WorkerFields ==
    ASSUME TypeOK, NEW w \in Worker
    PROVE  /\ worker[w] \in WorkerState
           /\ worker[w].at \in Busy <=> worker[w].job # 0
           /\ worker[w].at \in Busy =>
                /\ worker[w].job \in JobId
                /\ worker[w].seen \in Job
                /\ worker[w].number \in 0 .. MaxOutputs
                /\ worker[w].late \in BOOLEAN
<1>1. worker[w] \in WorkerState
  BY DEF TypeOK
<1>2. QED
  BY <1>1, StateFields

\* A source uploaded, no job yet.
THEOREM InitInv == Init => Inv
<1> SUFFICES ASSUME Init PROVE Inv
  OBVIOUS
<1>1. Absent \in Job
  BY BoundsOK, OutputBound DEF Absent, Job, Status
<1>2. Resting \in Submission
  BY OutputBound DEF Resting, Submission
<1>3. TypeOK
  BY <1>1, <1>2 DEF Init, TypeOK, WorkerState
<1>4. Numbers = {} /\ IsFiniteSet(Numbers) /\ Cardinality(Numbers) = 0
  BY FS_EmptySet DEF Init, Numbers
<1>5. \A j \in JobId : WorkersOn(j) = {} /\ OutputsOf(j) = {}
  BY DEF Init, WorkersOn, OutputsOf, Idle, At, JobId
<1>6. \A j \in JobId : jobs[j] = Absent
  BY DEF Init
<1>7. RowInv
  BY <1>4, <1>5, <1>6, FS_EmptySet DEF RowInv, Absent
<1>8. WorkerInv /\ AloneInv /\ NumberInv /\ OneTimelyWorker
  BY DEF Init, WorkerInv, AloneInv, NumberInv, OneTimelyWorker, Idle, At, Busy, Resting
<1>9. ScenesNumbered
  BY <1>4 DEF Init, ScenesNumbered
<1>10. CompletedHasOutput /\ ProcessingIsLeased
  BY <1>4, <1>6 DEF CompletedHasOutput, ProcessingIsLeased, Absent
<1>11. OutputPerClaim
  <2> SUFFICES ASSUME NEW j \in JobId
               PROVE  Cardinality(OutputsOf(j)) + Cardinality(WorkersOn(j))
                        <= jobs[j].attempts
    BY DEF OutputPerClaim
  <2>1. Cardinality(OutputsOf(j)) = 0 /\ Cardinality(WorkersOn(j)) = 0
    BY <1>5, FS_EmptySet
  <2>2. jobs[j].attempts = 0
    BY <1>6 DEF Absent
  <2>3. QED
    BY <2>1, <2>2
<1>12. QED
  BY <1>3, <1>7, <1>8, <1>9, <1>10, <1>11 DEF Inv

-----------------------------------------------------------------------------
(* Requests.                                                                *)

\* A request reads, or is aborted.
LEMMA HandlerReadsKeepInv ==
    ASSUME Inv, NEW h \in Handler,
           EnqueueReads(h) \/ DrawReads(h) \/ HandlerAborts(h)
    PROVE  Inv'
<1>1. UNCHANGED <<kind, jobs, outputs, blobs, worker>>
  BY DEF EnqueueReads, DrawReads, HandlerAborts
<1>2. \E next \in Submission :
        /\ handler' = [handler EXCEPT ![h] = next]
        /\ next.op = "draw" => kind # "geometry"
                               /\ next.number \in 1 .. Cardinality(Numbers) + 1
  <2>1. CASE EnqueueReads(h)
    <3> DEFINE next == [op |-> "enqueue", number |-> 0]
    <3>1. next \in Submission /\ next.op # "draw"
      BY OutputBound DEF Submission
    <3>2. handler' = [handler EXCEPT ![h] = next]
      BY <2>1 DEF EnqueueReads, Turns
    <3> HIDE DEF next
    <3>3. QED
      BY <3>1, <3>2
  <2>2. CASE HandlerAborts(h)
    <3>1. Resting \in Submission /\ Resting.op # "draw"
      BY OutputBound DEF Submission, Resting
    <3>2. QED
      BY <2>2, <3>1 DEF HandlerAborts, Turns
  <2>3. CASE DrawReads(h)
    <3> DEFINE next == [op |-> "draw", number |-> NextVersion]
    <3>1. kind # "geometry" /\ NextVersion <= MaxOutputs
          /\ handler' = [handler EXCEPT ![h] = next]
      BY <2>3 DEF DrawReads, Turns
    <3>2. Cardinality(Numbers) \in Nat /\ NextVersion = Cardinality(Numbers) + 1
      BY <3>1, NextIsCount
    <3>3. next \in Submission
      BY <3>1, <3>2, OutputBound DEF Submission
    <3>4. next.number \in 1 .. Cardinality(Numbers) + 1
      BY <3>2
    <3> HIDE DEF next
    <3>5. QED
      BY <3>1, <3>3, <3>4
  <2>4. QED
    BY <2>1, <2>2, <2>3
<1>3. TypeOK'
  BY <1>1, <1>2 DEF Inv, TypeOK
<1>4. RowInv' /\ WorkerInv' /\ AloneInv' /\ OneTimelyWorker' /\ OutputPerClaim'
  BY <1>1 DEF Inv, RowInv, WorkerInv, AloneInv, OneTimelyWorker, OutputPerClaim,
              WorkersOn, OutputsOf, Numbers
<1>5. ScenesNumbered' /\ CompletedHasOutput' /\ ProcessingIsLeased'
  BY <1>1 DEF Inv, ScenesNumbered, CompletedHasOutput, ProcessingIsLeased, Numbers
<1>6. NumberInv'
  BY <1>1, <1>2 DEF Inv, TypeOK, NumberInv, Numbers
<1>7. QED
  BY <1>3, <1>4, <1>5, <1>6 DEF Inv

\* A request inserts a queued job.
LEMMA EnqueueKeepsInv ==
    ASSUME Inv, NEW h \in Handler, Enqueue(h)
    PROVE  Inv'
<1>1. PICK j \in JobId : /\ \A i \in JobId : jobs[i].status = "absent" <=> i >= j
                        /\ jobs' = [jobs EXCEPT ![j].status = "queued"]
  BY DEF Enqueue
<1>2. /\ UNCHANGED <<kind, outputs, blobs, worker>>
      /\ handler' = [handler EXCEPT ![h] = Resting]
  BY DEF Enqueue, Turns
<1>3. Resting \in Submission /\ Resting.op # "draw"
  BY OutputBound DEF Submission, Resting
<1>4. jobs[j].status = "absent" /\ jobs[j] \in Job
  <2>1. j >= j
    BY BoundsOK DEF JobId
  <2>2. QED
    BY <1>1, <2>1 DEF Inv, TypeOK
<1> DEFINE new == [jobs[j] EXCEPT !.status = "queued"]
<1>5. /\ new \in Job /\ new.status = "queued" /\ new.lease = jobs[j].lease
      /\ new.attempts = jobs[j].attempts
  BY <1>4 DEF Job, Status
<1>6. jobs' = [jobs EXCEPT ![j] = new]
  BY <1>1
<1> HIDE DEF new
<1>7. jobs'[j] = new /\ \A i \in JobId : i # j => jobs'[i] = jobs[i]
  BY <1>6 DEF Inv, TypeOK
<1>8. jobs[j].attempts = 0 /\ jobs[j].lease = "none"
  BY <1>4 DEF Inv, RowInv, ProcessingIsLeased
<1>9. TypeOK'
  BY <1>2, <1>3, <1>5, <1>6 DEF Inv, TypeOK
<1>10. RowInv'
  <2>1. jobs'[j].status = "queued" /\ jobs'[j].attempts = 0
    BY <1>5, <1>7, <1>8
  <2>2. \A i \in JobId : jobs'[i].status \in {"absent", "queued"} <=> jobs'[i].attempts = 0
    BY <1>7, <2>1 DEF Inv, RowInv
  <2>3. UNCHANGED <<Numbers>> /\ \A i \in JobId : UNCHANGED <<WorkersOn(i), OutputsOf(i)>>
    BY <1>2 DEF Numbers, WorkersOn, OutputsOf
  <2>4. QED
    BY <2>2, <2>3 DEF Inv, RowInv
<1>11. WorkerInv'
  <2>1. \A w \in Worker : worker[w].at \in Busy =>
          worker[w].job \in JobId /\ worker[w].job # j
    BY <1>8, WorkerFields DEF Inv, WorkerInv
  <2>2. QED
    BY <1>2, <1>7, <2>1 DEF Inv, WorkerInv
<1>12. AloneInv'
  <2>1. \A i \in JobId : jobs'[i].attempts = jobs[i].attempts
    BY <1>5, <1>7
  <2>2. \A w \in Worker : worker[w].job # 0 => worker[w].job \in JobId
    BY WorkerFields DEF Inv
  <2>3. QED
    BY <1>2, <2>1, <2>2 DEF Inv, AloneInv
<1>13. NumberInv' /\ ScenesNumbered' /\ OneTimelyWorker'
  BY <1>2, <1>3 DEF Inv, TypeOK, NumberInv, ScenesNumbered, OneTimelyWorker, Numbers
<1>14. CompletedHasOutput'
  BY <1>2, <1>5, <1>7 DEF Inv, CompletedHasOutput, Numbers
<1>15. ProcessingIsLeased'
  BY <1>5, <1>7, <1>8 DEF Inv, ProcessingIsLeased
<1>16. OutputPerClaim'
  <2>1. \A i \in JobId : jobs'[i].attempts = jobs[i].attempts
    BY <1>5, <1>7
  <2>2. \A i \in JobId : UNCHANGED <<WorkersOn(i), OutputsOf(i)>>
    BY <1>2 DEF WorkersOn, OutputsOf
  <2>3. QED
    BY <2>1, <2>2 DEF Inv, OutputPerClaim
<1>17. QED
  BY <1>9, <1>10, <1>11, <1>12, <1>13, <1>14, <1>15, <1>16 DEF Inv

\* A scene that takes a version read earlier, of a person or of a job, takes
\* the next one: its unique constraint leaves no other.
LEMMA SceneTakesNext ==
    ASSUME Inv, kind # "geometry", NEW b, NEW n \in 1 .. Cardinality(Numbers) + 1,
           ~Taken(n), outputs' = outputs \cup {[number |-> n, by |-> b]}
    PROVE  /\ n = Cardinality(Numbers) + 1
           /\ Cardinality(Numbers)' = Cardinality(Numbers) + 1
           /\ IsFiniteSet(Numbers)'
           /\ Numbers' = 1 .. Cardinality(Numbers)'
           /\ \A o, q \in outputs' : o.number = q.number => o = q
<1> DEFINE c == Cardinality(Numbers)
<1>1. c \in Nat /\ Numbers = 1 .. c /\ IsFiniteSet(Numbers)
  BY FS_CardinalityType DEF Inv, RowInv, ScenesNumbered
<1>2. n \notin Numbers
  BY DEF Taken
<1>3. n = c + 1
  BY <1>1, <1>2
<1>4. Numbers' = Numbers \cup {n}
  <2> DEFINE new == [number |-> n, by |-> b]
  <2>1. new.number = n /\ outputs' = outputs \cup {new}
    OBVIOUS
  <2> HIDE DEF new
  <2>2. {o.number : o \in outputs \cup {new}} = {o.number : o \in outputs} \cup {n}
    BY <2>1
  <2>3. QED
    BY <2>1, <2>2 DEF Numbers
<1>5. IsFiniteSet(Numbers)' /\ Cardinality(Numbers)' = c + 1
  BY <1>1, <1>2, <1>4, FS_AddElement
<1>6. Numbers' = 1 .. c + 1
  BY <1>1, <1>3, <1>4
<1>7. \A o \in outputs : o.number # n
  BY <1>2 DEF Numbers
<1>8. \A o, q \in outputs' : o.number = q.number => o = q
  BY <1>7 DEF Inv, ScenesNumbered
<1>9. QED
  BY <1>3, <1>5, <1>6, <1>8

\* create_architecture_scene inserts the scene a person drew.
LEMMA DrawKeepsInv ==
    ASSUME Inv, NEW h \in Handler, Draw(h)
    PROVE  Inv'
<1> DEFINE n == handler[h].number
           new == [number |-> n, by |-> 0]
<1>1. /\ UNCHANGED <<kind, jobs, blobs, worker>>
      /\ handler' = [handler EXCEPT ![h] = Resting]
      /\ outputs' = outputs \cup {new} /\ ~Taken(n)
  BY DEF Draw, Turns
<1>2. Resting \in Submission /\ Resting.op # "draw"
  BY OutputBound DEF Submission, Resting
<1>3. kind # "geometry" /\ n \in 1 .. Cardinality(Numbers) + 1
  BY DEF Inv, NumberInv, Draw
<1>4. new \in Output
  <2>1. handler[h] \in Submission
    BY DEF Inv, TypeOK
  <2>2. n \in 0 .. MaxOutputs
    BY <2>1 DEF Submission
  <2>3. Cardinality(Numbers) \in Nat
    BY <1>3, NextIsCount
  <2>4. n \in 1 .. MaxOutputs
    BY <1>3, <2>2, <2>3, OutputBound
  <2>5. QED
    BY <2>4, BoundsOK DEF Output
<1>5. TypeOK'
  BY <1>1, <1>2, <1>4 DEF Inv, TypeOK
<1>6. /\ Cardinality(Numbers)' = Cardinality(Numbers) + 1
      /\ IsFiniteSet(Numbers)'
      /\ Numbers' = 1 .. Cardinality(Numbers)'
      /\ \A o, q \in outputs' : o.number = q.number => o = q
  BY <1>1, <1>3, SceneTakesNext
<1>7. \A j \in JobId : UNCHANGED <<WorkersOn(j), OutputsOf(j)>>
  BY <1>1 DEF WorkersOn, OutputsOf, JobId
<1>8. RowInv' /\ OutputPerClaim'
  BY <1>1, <1>6, <1>7 DEF Inv, RowInv, OutputPerClaim
<1>9. WorkerInv' /\ AloneInv' /\ OneTimelyWorker' /\ ProcessingIsLeased'
  BY <1>1 DEF Inv, WorkerInv, AloneInv, OneTimelyWorker, ProcessingIsLeased
<1>10. NumberInv'
  <2>1. Cardinality(Numbers) \in Nat
    BY <1>3, NextIsCount
  <2>2. \A k : k \in 1 .. Cardinality(Numbers) + 1 => k \in 1 .. Cardinality(Numbers)' + 1
    BY <2>1, <1>6
  <2>3. QED
    BY <1>1, <1>2, <1>3, <2>2 DEF Inv, TypeOK, NumberInv
<1>11. ScenesNumbered'
  BY <1>6 DEF ScenesNumbered
<1>12. CompletedHasOutput'
  BY <1>1, <1>3 DEF Inv, CompletedHasOutput
<1>13. QED
  BY <1>5, <1>8, <1>9, <1>10, <1>11, <1>12 DEF Inv

-----------------------------------------------------------------------------
(* Workers.                                                                 *)

\* The workers of a job when one of them comes or goes.
LEMMA WorkersMove ==
    ASSUME Inv, NEW w \in Worker, NEW next \in WorkerState, Goes(w, next),
           NEW j \in JobId
    PROVE  /\ Cardinality(WorkersOn(j)) \in Nat
           /\ IsFiniteSet(WorkersOn(j))'
           /\ next.job = worker[w].job =>
                Cardinality(WorkersOn(j))' = Cardinality(WorkersOn(j))
           /\ next.job # j =>
                Cardinality(WorkersOn(j))' <= Cardinality(WorkersOn(j))
           /\ worker[w].job = j /\ next.job # j =>
                Cardinality(WorkersOn(j))' = Cardinality(WorkersOn(j)) - 1
           /\ worker[w].job # j /\ next.job = j =>
                Cardinality(WorkersOn(j))' = Cardinality(WorkersOn(j)) + 1
<1>1. worker' = [worker EXCEPT ![w] = next] /\ worker \in [Worker -> WorkerState]
  BY DEF Goes, Inv, TypeOK
<1>2. IsFiniteSet(WorkersOn(j)) /\ Cardinality(WorkersOn(j)) \in Nat
  BY FS_CardinalityType DEF Inv, RowInv
<1>3. CASE worker[w].job = j /\ next.job # j
  <2>1. w \in WorkersOn(j) /\ WorkersOn(j)' = WorkersOn(j) \ {w}
    BY <1>1, <1>3 DEF WorkersOn
  <2>2. /\ IsFiniteSet(WorkersOn(j) \ {w})
        /\ Cardinality(WorkersOn(j) \ {w}) = Cardinality(WorkersOn(j)) - 1
    BY <1>2, <2>1, FS_RemoveElement
  <2>3. QED
    BY <1>2, <1>3, <2>1, <2>2
<1>4. CASE worker[w].job # j /\ next.job = j
  <2>1. w \notin WorkersOn(j) /\ WorkersOn(j)' = WorkersOn(j) \cup {w}
    BY <1>1, <1>4 DEF WorkersOn
  <2>2. QED
    BY <1>2, <1>4, <2>1, FS_AddElement
<1>5. CASE worker[w].job = j <=> next.job = j
  <2>1. WorkersOn(j)' = WorkersOn(j)
    BY <1>1, <1>5 DEF WorkersOn
  <2>2. QED
    BY <1>2, <1>5, <2>1
<1>6. QED
  BY <1>3, <1>4, <1>5

\* A step of one worker that writes no row: it goes on with its job, which it
\* may have read, or leaves it.
LEMMA MoveKeepsInv ==
    ASSUME Inv, NEW w \in Worker, NEW next \in WorkerState, Goes(w, next),
           UNCHANGED <<kind, jobs, outputs, handler>>,
           blobs \subseteq blobs', blobs' \subseteq 1 .. MaxOutputs,
           next.job # 0 => /\ next.job = worker[w].job
                           /\ next.late = worker[w].late,
           next.at \in Opened =>
             \/ next.seen = jobs[worker[w].job]
             \/ worker[w].at \in Opened /\ next.seen = worker[w].seen,
           next.at = "produced" =>
             IF kind = "geometry" THEN next.number \in blobs'
                                  ELSE next.number \in 1 .. Cardinality(Numbers) + 1
    PROVE  Inv'
<1>1. /\ worker' = [worker EXCEPT ![w] = next]
      /\ worker \in [Worker -> WorkerState]
      /\ worker'[w] = next /\ \A v \in Worker : v # w => worker'[v] = worker[v]
  BY DEF Goes, Inv, TypeOK
<1>2. TypeOK'
  BY <1>1 DEF Inv, TypeOK
<1>3. /\ next.at \in Busy <=> next.job # 0
      /\ worker[w].at \in Busy <=> worker[w].job # 0
  BY StateFields, WorkerFields DEF Inv
<1>4. RowInv'
  <2>1. \A j \in JobId : IsFiniteSet(WorkersOn(j))'
    BY WorkersMove
  <2>2. \A j \in JobId : OutputsOf(j)' = OutputsOf(j)
    BY DEF OutputsOf
  <2>3. Numbers' = Numbers
    BY DEF Numbers
  <2>4. QED
    BY <2>1, <2>2, <2>3 DEF Inv, RowInv
<1>5. WorkerInv'
  <2>1. CASE next.at \notin Busy
    BY <1>1, <2>1 DEF Inv, WorkerInv
  <2>2. CASE next.at \in Busy
    <3> DEFINE row == jobs[worker[w].job]
    <3>1. worker[w].at \in Busy /\ next.job = worker[w].job /\ next.late = worker[w].late
      BY <1>3, <2>2
    <3>2. worker[w].job \in JobId /\ row \in Job
      BY <3>1, WorkerFields DEF Inv, TypeOK
    <3>3. /\ row.attempts > 0
          /\ row.lease = "lapsed" => worker[w].late
          /\ row.status \in Settled => row.attempts # 1
      BY <3>1 DEF Inv, WorkerInv
    <3>4. row.status \in Settled \cup {"processing"}
      BY <3>2, <3>3, BoundsOK DEF Inv, RowInv, Job, Status, Settled
    <3>5. row.status = "processing" <=> row.lease # "none"
      BY <3>2 DEF Inv, ProcessingIsLeased
    <3>6. next.at \in Opened =>
            /\ next.seen.status \in Settled \cup {"processing"}
            /\ next.seen.status = "processing" <=> next.seen.lease # "none"
            /\ next.seen.status \in Settled => row.status \in Settled
      BY <3>1, <3>4, <3>5 DEF Inv, WorkerInv
    <3> HIDE DEF row
    <3>7. jobs'[next.job] = row
      BY <3>1 DEF row
    <3>8. QED
      BY <1>1, <3>1, <3>3, <3>6, <3>7 DEF Inv, WorkerInv
  <2>3. QED
    BY <2>1, <2>2
<1>6. AloneInv' /\ OneTimelyWorker'
  BY <1>1 DEF Inv, AloneInv, OneTimelyWorker
<1>7. NumberInv'
  BY <1>1 DEF Inv, NumberInv, Numbers
<1>8. ScenesNumbered' /\ CompletedHasOutput' /\ ProcessingIsLeased'
  BY DEF Inv, ScenesNumbered, CompletedHasOutput, ProcessingIsLeased, Numbers
<1>9. OutputPerClaim'
  <2> SUFFICES ASSUME NEW j \in JobId
               PROVE  (Cardinality(OutputsOf(j)) + Cardinality(WorkersOn(j))
                         <= jobs[j].attempts)'
    BY DEF OutputPerClaim
  <2>1. OutputsOf(j)' = OutputsOf(j) /\ jobs'[j] = jobs[j]
    BY DEF OutputsOf
  <2>2. /\ Cardinality(WorkersOn(j)) \in Nat
        /\ Cardinality(WorkersOn(j))' \in Nat
        /\ Cardinality(WorkersOn(j))' <= Cardinality(WorkersOn(j))
    <3>1. IsFiniteSet(WorkersOn(j)') 
      BY WorkersMove
    <3>2. Cardinality(WorkersOn(j)') \in Nat
      BY <3>1, FS_CardinalityType
    <3>3. next.job = worker[w].job \/ next.job # j
      BY DEF JobId
    <3>4. QED
      BY <3>2, <3>3, WorkersMove
  <2>3. Cardinality(OutputsOf(j)) \in Nat /\ jobs[j].attempts \in Nat
    <3>1. jobs[j] \in Job
      BY DEF Inv, TypeOK
    <3>2. jobs[j].attempts \in 0 .. MaxAttempts
      BY <3>1 DEF Job
    <3>3. QED
      BY <3>2, BoundsOK, FS_CardinalityType DEF Inv, RowInv
  <2>4. Cardinality(OutputsOf(j)) + Cardinality(WorkersOn(j)) <= jobs[j].attempts
    BY DEF Inv, OutputPerClaim
  <2>5. QED
    BY <2>1, <2>2, <2>3, <2>4
<1>10. QED
  BY <1>2, <1>4, <1>5, <1>6, <1>7, <1>8, <1>9 DEF Inv

\* A worker that stops or drops its job without writing.
LEMMA LeaveKeepsInv ==
    ASSUME Inv, NEW w \in Worker,
           RefusedIFC(w) \/ RefusedDXF(w) \/ Die(w) \/ Restart(w)
    PROVE  Inv'
<1>1. UNCHANGED <<kind, jobs, outputs, blobs, handler>>
  BY DEF RefusedIFC, RefusedDXF, Die, Restart
<1>2. \E next \in {Idle, Down} : Goes(w, next)
  BY DEF RefusedIFC, RefusedDXF, Die, Restart
<1>3. PICK next \in {Idle, Down} : Goes(w, next)
  BY <1>2
<1>4. next \in WorkerState /\ next.job = 0 /\ next.at \notin Busy
  BY DEF WorkerState, Idle, Down, At, Busy
<1>5. blobs' \subseteq 1 .. MaxOutputs
  BY <1>1 DEF Inv, TypeOK
<1>6. QED
  BY <1>1, <1>3, <1>4, <1>5, MoveKeepsInv DEF Busy, Opened

\* A worker reads its job again in the second session.
LEMMA OpenKeepsInv ==
    ASSUME Inv, NEW w \in Worker, Open(w)
    PROVE  Inv'
<1> DEFINE next == [worker[w] EXCEPT !.at = "working", !.seen = jobs[worker[w].job]]
<1>1. /\ worker[w].at = "claimed" /\ Goes(w, next)
      /\ UNCHANGED <<kind, jobs, outputs, blobs, handler>>
  BY DEF Open
<1>2. worker[w].at \in Busy /\ worker[w] \in WorkerState
  BY <1>1, WorkerFields DEF Busy, Inv
<1>3. /\ worker[w] \in [at : Busy, job : JobId, seen : Job,
                        number : 0 .. MaxOutputs, late : BOOLEAN]
      /\ jobs[worker[w].job] \in Job
  BY <1>2, StateFields DEF Inv, TypeOK
<1>4. /\ next \in WorkerState
      /\ next.at = "working" /\ next.job = worker[w].job
      /\ next.late = worker[w].late /\ next.seen = jobs[worker[w].job]
  BY <1>3 DEF WorkerState, Busy
<1>5. blobs' \subseteq 1 .. MaxOutputs
  BY <1>1 DEF Inv, TypeOK
<1> HIDE DEF next
<1>6. PICK s \in WorkerState :
        /\ Goes(w, s)
        /\ s.at = "working" /\ s.job = worker[w].job
        /\ s.late = worker[w].late /\ s.seen = jobs[worker[w].job]
  BY <1>1, <1>4
<1>7. /\ UNCHANGED <<kind, jobs, outputs, handler>>
      /\ blobs \subseteq blobs'
  BY <1>1
<1>8. s.at # "produced"
  BY <1>6
<1>9. QED
  BY <1>5, <1>6, <1>7, <1>8, MoveKeepsInv

\* A worker has its result: a scene's version read, or a blob stored.
LEMMA ProduceKeepsInv ==
    ASSUME Inv, NEW w \in Worker, ProduceScene(w) \/ ProduceModel(w)
    PROVE  Inv'
<1>1. PICK n \in 1 .. MaxOutputs :
        /\ Produces(w, n)
        /\ blobs \subseteq blobs' /\ blobs' \subseteq 1 .. MaxOutputs
        /\ IF kind = "geometry" THEN n \in blobs'
                                ELSE n \in 1 .. Cardinality(Numbers) + 1
  <2>1. CASE ProduceModel(w)
    BY <2>1 DEF ProduceModel, Inv, TypeOK
  <2>2. CASE ProduceScene(w)
    <3>1. kind # "geometry" /\ NextVersion <= MaxOutputs /\ Produces(w, NextVersion)
          /\ blobs' = blobs
      BY <2>2 DEF ProduceScene
    <3>2. Cardinality(Numbers) \in Nat /\ NextVersion = Cardinality(Numbers) + 1
      BY <3>1, NextIsCount
    <3>3. NextVersion \in 1 .. MaxOutputs /\ NextVersion \in 1 .. Cardinality(Numbers) + 1
      BY <3>1, <3>2, OutputBound
    <3>4. QED
      BY <3>1, <3>3 DEF Inv, TypeOK
  <2>3. QED
    BY <2>1, <2>2
<1> DEFINE next == [worker[w] EXCEPT !.at = "produced", !.number = n]
<1>2. /\ worker[w].at = "working" /\ Goes(w, next)
      /\ UNCHANGED <<kind, jobs, outputs, handler>>
  BY <1>1 DEF Produces
<1>3. worker[w].at \in Busy /\ worker[w] \in WorkerState
  BY <1>2, WorkerFields DEF Busy, Inv
<1>4. worker[w] \in [at : Busy, job : JobId, seen : Job,
                     number : 0 .. MaxOutputs, late : BOOLEAN]
  BY <1>3, StateFields
<1>5. /\ next \in WorkerState
      /\ next.at = "produced" /\ next.job = worker[w].job
      /\ next.late = worker[w].late /\ next.seen = worker[w].seen
      /\ next.number = n
  <2>1. n \in 0 .. MaxOutputs
    BY OutputBound
  <2>2. QED
    BY <1>4, <2>1 DEF WorkerState, Busy
<1> HIDE DEF next
<1>6. QED
  BY <1>1, <1>2, <1>5, MoveKeepsInv DEF Opened

\* A worker claims a job that is queued or whose lease lapsed.
LEMMA ClaimKeepsInv ==
    ASSUME Inv, NEW w \in Worker, Claim(w)
    PROVE  Inv'
<1>1. PICK j \in JobId : /\ Claimable(j)
                        /\ jobs' = Claimed(j)
                        /\ Goes(w, [At("claimed") EXCEPT !.job = j])
  BY DEF Claim
<1> DEFINE next == [At("claimed") EXCEPT !.job = j]
           new  == [jobs[j] EXCEPT !.status = "processing", !.lease = "live",
                                   !.attempts = @ + 1]
<1>2. /\ worker[w] = Idle
      /\ UNCHANGED <<kind, outputs, blobs, handler>>
  BY DEF Claim
<1>3. Absent \in Job
  BY BoundsOK, OutputBound DEF Absent, Job, Status
<1>4. /\ next \in WorkerState /\ next.at = "claimed" /\ next.job = j
      /\ next.late = FALSE
  <2>1. At("claimed") \in [at : {"claimed"}, job : 0 .. MaxJobs, seen : Job,
                           number : 0 .. MaxOutputs, late : {FALSE}]
    BY <1>3, OutputBound, BoundsOK DEF At
  <2>2. next \in [at : {"claimed"}, job : JobId, seen : Job,
                  number : 0 .. MaxOutputs, late : {FALSE}]
    BY <2>1
  <2>3. next.job = j
    BY <2>1
  <2> HIDE DEF next
  <2>4. QED
    BY <2>2, <2>3 DEF WorkerState
<1>5. jobs[j] \in Job /\ jobs[j].attempts < MaxAttempts /\ jobs[j].attempts \in Nat
  BY <1>1, BoundsOK DEF Claimable, Inv, TypeOK, Job
<1>6. /\ new \in Job /\ new.status = "processing" /\ new.lease = "live"
      /\ new.attempts = jobs[j].attempts + 1
  <2>1. jobs[j].attempts + 1 \in 0 .. MaxAttempts
    BY <1>5, BoundsOK
  <2>2. QED
    BY <1>5, <2>1 DEF Job, Status
<1>7. jobs' = [jobs EXCEPT ![j] = new]
  BY <1>1, <1>5 DEF Claimed, Inv, TypeOK
<1>8. /\ worker' = [worker EXCEPT ![w] = next]
      /\ Goes(w, next)
  BY <1>1 DEF Goes
<1> HIDE DEF next, new
<1>9. /\ worker'[w] = next /\ \A v \in Worker : v # w => worker'[v] = worker[v]
      /\ jobs'[j] = new /\ \A i \in JobId : i # j => jobs'[i] = jobs[i]
  BY <1>7, <1>8 DEF Inv, TypeOK
\* Whoever is still at work on the job has outlived its lease.
<1>10. \A v \in Worker : worker[v].job = j =>
         jobs[j].attempts > 0 /\ worker[v].late
  <2> SUFFICES ASSUME NEW v \in Worker, worker[v].job = j
               PROVE  jobs[j].attempts > 0 /\ worker[v].late
    OBVIOUS
  <2>1. worker[v].at \in Busy
    BY WorkerFields, BoundsOK DEF Inv, JobId
  <2>2. /\ jobs[j].attempts > 0
        /\ jobs[j].lease = "lapsed" => worker[v].late
    BY <2>1 DEF Inv, WorkerInv
  <2>3. jobs[j].status # "queued"
    BY <2>2, <1>5 DEF Inv, RowInv
  <2>4. QED
    BY <1>1, <2>2, <2>3 DEF Claimable
<1>11. worker[w].job = 0 /\ j # 0
  BY <1>2 DEF Idle, At, JobId
<1>12. TypeOK'
  BY <1>2, <1>4, <1>6, <1>7, <1>8 DEF Inv, TypeOK
<1>13. Numbers' = Numbers /\ \A i \in JobId : OutputsOf(i)' = OutputsOf(i)
  BY <1>2 DEF Numbers, OutputsOf
<1>14. RowInv'
  <2>1. \A i \in JobId : IsFiniteSet(WorkersOn(i))'
    BY <1>4, <1>8, WorkersMove
  <2>2. jobs'[j].status = "processing" /\ jobs'[j].attempts # 0
    BY <1>5, <1>6, <1>9
  <2>3. \A i \in JobId :
          jobs'[i].status \in {"absent", "queued"} <=> jobs'[i].attempts = 0
    BY <1>9, <2>2 DEF Inv, RowInv
  <2>4. QED
    BY <2>1, <2>3, <1>13 DEF Inv, RowInv
<1>15. WorkerInv'
  <2> SUFFICES ASSUME NEW v \in Worker, worker'[v].at \in Busy
               PROVE  /\ jobs'[worker'[v].job].attempts > 0
                      /\ jobs'[worker'[v].job].lease = "lapsed" => worker'[v].late
                      /\ jobs'[worker'[v].job].status \in Settled =>
                           jobs'[worker'[v].job].attempts # 1
                      /\ worker'[v].at \in Opened =>
                         /\ worker'[v].seen.status \in Settled \cup {"processing"}
                         /\ worker'[v].seen.status = "processing" <=>
                              worker'[v].seen.lease # "none"
                         /\ worker'[v].seen.status \in Settled =>
                              jobs'[worker'[v].job].status \in Settled
    BY DEF WorkerInv
  <2>1. CASE v = w
    BY <2>1, <1>4, <1>5, <1>6, <1>9 DEF Opened, Settled
  <2>2. CASE v # w /\ worker[v].job # j
    BY <2>2, <1>9, WorkerFields DEF Inv, WorkerInv
  <2>3. CASE v # w /\ worker[v].job = j
    <3>1. worker'[v] = worker[v] /\ worker[v].at \in Busy
      BY <2>3, <1>9
    <3>2. jobs[j].status \notin Settled
      BY <1>1 DEF Claimable, Settled
    <3>3. worker[v].at \in Opened =>
            /\ worker[v].seen.status \in Settled \cup {"processing"}
            /\ worker[v].seen.status = "processing" <=> worker[v].seen.lease # "none"
            /\ worker[v].seen.status \notin Settled
      BY <2>3, <3>1, <3>2 DEF Inv, WorkerInv
    <3>4. /\ jobs'[j].attempts > 0 /\ jobs'[j].lease = "live"
          /\ jobs'[j].status \notin Settled
      BY <1>5, <1>6, <1>9 DEF Settled
    <3>5. QED
      BY <2>3, <3>1, <3>3, <3>4
  <2>4. QED
    BY <2>1, <2>2, <2>3
<1>16. AloneInv'
  <2> SUFFICES ASSUME NEW u \in Worker, NEW v \in Worker,
                      worker'[u].job = worker'[v].job, worker'[u].job # 0,
                      jobs'[worker'[u].job].attempts = 1
               PROVE  u = v
    BY DEF AloneInv
  <2>1. CASE worker'[u].job = j
    <3>1. jobs[j].attempts = 0
      BY <2>1, <1>5, <1>6, <1>9
    <3>2. \A x \in Worker : worker'[x].job = j => x = w
      BY <3>1, <1>9, <1>10
    <3>3. QED
      BY <2>1, <3>2
  <2>2. CASE worker'[u].job # j
    <3>1. u # w /\ v # w
      BY <2>2, <1>4, <1>9
    <3>2. worker[u].job \in JobId
      BY <3>1, <1>9, WorkerFields DEF Inv
    <3>3. QED
      BY <2>2, <3>1, <3>2, <1>9 DEF Inv, AloneInv
  <2>3. QED
    BY <2>1, <2>2
<1>17. OneTimelyWorker'
  BY <1>4, <1>9, <1>10 DEF Inv, OneTimelyWorker
<1>18. NumberInv'
  BY <1>2, <1>4, <1>9, <1>13 DEF Inv, NumberInv
<1>19. ScenesNumbered'
  BY <1>2, <1>13 DEF Inv, ScenesNumbered
<1>20. CompletedHasOutput' /\ ProcessingIsLeased'
  BY <1>2, <1>6, <1>9, <1>13 DEF Inv, CompletedHasOutput, ProcessingIsLeased
<1>21. OutputPerClaim'
  <2> SUFFICES ASSUME NEW i \in JobId
               PROVE  (Cardinality(OutputsOf(i)) + Cardinality(WorkersOn(i))
                         <= jobs[i].attempts)'
    BY DEF OutputPerClaim
  <2>1. /\ Cardinality(OutputsOf(i)) \in Nat
        /\ Cardinality(WorkersOn(i)) \in Nat
        /\ Cardinality(OutputsOf(i)) + Cardinality(WorkersOn(i)) <= jobs[i].attempts
    BY FS_CardinalityType DEF Inv, RowInv, OutputPerClaim
  <2>2. CASE i = j
    <3>1. Cardinality(WorkersOn(j))' = Cardinality(WorkersOn(j)) + 1
      BY <1>4, <1>8, <1>11, WorkersMove
    <3>2. Cardinality(OutputsOf(j))' = Cardinality(OutputsOf(j))
      BY <1>13
    <3>3. jobs'[j].attempts = jobs[j].attempts + 1
      BY <1>6, <1>9
    <3>4. QED
      BY <2>1, <2>2, <3>1, <3>2, <3>3, <1>5
  <2>3. CASE i # j
    <3>1. WorkersOn(i)' = WorkersOn(i)
      BY <2>3, <1>4, <1>9, <1>11 DEF WorkersOn, JobId
    <3>2. Cardinality(WorkersOn(i))' = Cardinality(WorkersOn(i))
          /\ Cardinality(OutputsOf(i))' = Cardinality(OutputsOf(i))
      BY <3>1, <1>13
    <3>3. jobs'[i] = jobs[i]
      BY <2>3, <1>9
    <3>4. QED
      BY <2>1, <3>2, <3>3
  <2>4. QED
    BY <2>2, <2>3
<1>22. QED
  BY <1>12, <1>14, <1>15, <1>16, <1>17, <1>18, <1>19, <1>20, <1>21 DEF Inv

\* What a worker writes over the row, however old what it read: the row is
\* settled, without a lease.
LEMMA WrittenRow ==
    ASSUME Inv, NEW w \in Worker, worker[w].at \in Opened,
           NEW status \in Settled, NEW out \in 0 .. MaxOutputs
    PROVE  LET row == jobs[worker[w].job]
               new == Written(w, status, out)
           IN  /\ row.attempts > 0 /\ row.attempts \in Nat
               /\ new \in Job
               /\ new.status \in Settled /\ new.status \in {status, row.status}
               /\ new.lease = "none"
               /\ new.attempts = row.attempts
               /\ new.output = out
<1> DEFINE row  == jobs[worker[w].job]
           seen == worker[w].seen
           st   == IF seen.status = status THEN row.status ELSE status
           le   == IF seen.lease = "none" THEN row.lease ELSE "none"
<1>1. worker[w].at \in Busy
  BY DEF Opened, Busy
<1>2. worker[w].job \in JobId /\ row \in Job
  BY <1>1, WorkerFields DEF Inv, TypeOK
<1>3. /\ row.attempts > 0
      /\ seen.status \in Settled \cup {"processing"}
      /\ seen.status = "processing" <=> seen.lease # "none"
      /\ seen.status \in Settled => row.status \in Settled
  BY <1>1 DEF Inv, WorkerInv
<1>4. row.status = "processing" <=> row.lease # "none"
  BY <1>2 DEF Inv, ProcessingIsLeased
<1>5. st \in Settled /\ st \in {status, row.status}
  BY <1>3 DEF Settled
<1>6. le = "none"
  BY <1>3, <1>4 DEF Settled
<1>7. Written(w, status, out) =
        [row EXCEPT !.status = st, !.lease = le, !.output = out]
  BY <1>2 DEF Written, Job
<1>8. st \in Status /\ le \in {"none", "live", "lapsed"}
  BY <1>5, <1>6 DEF Settled, Status
<1>9. row.attempts \in Nat
  BY <1>2, BoundsOK DEF Job
<1> HIDE DEF row, st, le
<1>10. [row EXCEPT !.status = st, !.lease = le, !.output = out] \in Job
  BY <1>2, <1>8 DEF Job
<1> DEFINE new == [row EXCEPT !.status = st, !.lease = le, !.output = out]
<1>11. /\ new.status = st /\ new.lease = le
       /\ new.attempts = row.attempts /\ new.output = out
  BY <1>2 DEF Job
<1>12. QED
  BY <1>3, <1>5, <1>6, <1>7, <1>9, <1>10, <1>11 DEF row

\* The end of a job in the hands of one worker, whoever owns the row: the
\* caller says what becomes of the outputs.
LEMMA SettleKeepsInv ==
    ASSUME Inv, NEW w \in Worker, worker[w].at \in Opened,
           NEW status \in Settled, NEW out \in 0 .. MaxOutputs,
           NEW j \in JobId, j = worker[w].job,
           jobs' = [jobs EXCEPT ![j] = Written(w, status, out)],
           Goes(w, Idle), UNCHANGED <<kind, blobs, handler>>,
           outputs \subseteq outputs', outputs' \subseteq Output,
           status = "completed" => [number |-> out, by |-> j] \in outputs',
           status = "failed" => out = jobs[j].output,
           IsFiniteSet(Numbers)', ScenesNumbered',
           kind = "geometry" => Numbers' \subseteq blobs,
           kind # "geometry" =>
             \A n : n \in 1 .. Cardinality(Numbers) + 1
                      => n \in 1 .. Cardinality(Numbers)' + 1,
           \A i \in JobId : i # j => OutputsOf(i)' = OutputsOf(i),
           IsFiniteSet(OutputsOf(j))',
           Cardinality(OutputsOf(j))' <= Cardinality(OutputsOf(j)) + 1
    PROVE  Inv'
<1> DEFINE row == jobs[j]
           new == Written(w, status, out)
<1>1. /\ row.attempts > 0 /\ row.attempts \in Nat
      /\ new \in Job
      /\ new.status \in Settled /\ new.status \in {status, row.status}
      /\ new.lease = "none"
      /\ new.attempts = row.attempts
      /\ new.output = out
  BY WrittenRow
<1>2. jobs' = [jobs EXCEPT ![j] = new]
  OBVIOUS
<1> HIDE DEF new
<1>3. Idle \in WorkerState /\ Idle.job = 0 /\ Idle.at \notin Busy
  BY DEF WorkerState, Idle, At, Busy
<1>4. worker' = [worker EXCEPT ![w] = Idle]
  BY DEF Goes
<1>5. /\ worker'[w] = Idle /\ \A v \in Worker : v # w => worker'[v] = worker[v]
      /\ jobs'[j] = new /\ \A i \in JobId : i # j => jobs'[i] = jobs[i]
  BY <1>2, <1>4 DEF Inv, TypeOK
<1>6. TypeOK'
  BY <1>1, <1>2, <1>3, <1>4 DEF Inv, TypeOK
<1>7. RowInv'
  <2>1. \A i \in JobId : IsFiniteSet(WorkersOn(i))'
    BY <1>3, WorkersMove
  <2>2. jobs'[j].status \notin {"absent", "queued"} /\ jobs'[j].attempts # 0
    BY <1>1, <1>5 DEF Settled
  <2>3. \A i \in JobId :
          jobs'[i].status \in {"absent", "queued"} <=> jobs'[i].attempts = 0
    BY <1>5, <2>2 DEF Inv, RowInv
  <2>4. \A i \in JobId : IsFiniteSet(OutputsOf(i))'
    BY DEF Inv, RowInv
  <2>5. QED
    BY <2>1, <2>3, <2>4 DEF RowInv
<1>8. WorkerInv'
  <2> SUFFICES ASSUME NEW v \in Worker, worker'[v].at \in Busy
               PROVE  /\ jobs'[worker'[v].job].attempts > 0
                      /\ jobs'[worker'[v].job].lease = "lapsed" => worker'[v].late
                      /\ jobs'[worker'[v].job].status \in Settled =>
                           jobs'[worker'[v].job].attempts # 1
                      /\ worker'[v].at \in Opened =>
                         /\ worker'[v].seen.status \in Settled \cup {"processing"}
                         /\ worker'[v].seen.status = "processing" <=>
                              worker'[v].seen.lease # "none"
                         /\ worker'[v].seen.status \in Settled =>
                              jobs'[worker'[v].job].status \in Settled
    BY DEF WorkerInv
  <2>1. v # w /\ worker'[v] = worker[v] /\ worker[v].at \in Busy
    BY <1>3, <1>5
  <2>2. CASE worker[v].job # j
    BY <2>1, <2>2, <1>5, WorkerFields DEF Inv, WorkerInv
  <2>3. CASE worker[v].job = j
    <3>1. row.attempts # 1
      BY <2>1, <2>3 DEF Inv, AloneInv, JobId
    <3>2. worker[v].at \in Opened =>
            /\ worker[v].seen.status \in Settled \cup {"processing"}
            /\ worker[v].seen.status = "processing" <=> worker[v].seen.lease # "none"
      BY <2>1 DEF Inv, WorkerInv
    <3>3. QED
      BY <2>1, <2>3, <3>1, <3>2, <1>1, <1>5
  <2>4. QED
    BY <2>2, <2>3
<1>9. AloneInv'
  <2>1. \A i \in JobId : jobs'[i].attempts = jobs[i].attempts
    BY <1>1, <1>5
  <2>2. \A v \in Worker : worker[v].job # 0 => worker[v].job \in JobId
    BY WorkerFields DEF Inv
  <2>3. QED
    BY <1>3, <1>5, <2>1, <2>2 DEF Inv, AloneInv
<1>10. OneTimelyWorker'
  BY <1>3, <1>5 DEF Inv, OneTimelyWorker
<1>11. NumberInv'
  BY <1>3, <1>5 DEF Inv, NumberInv, Busy
<1>12. CompletedHasOutput'
  <2> SUFFICES ASSUME NEW i \in JobId, jobs'[i].status = "completed"
               PROVE  [number |-> jobs'[i].output, by |-> i] \in outputs'
    BY DEF CompletedHasOutput
  <2>1. CASE i # j
    BY <2>1, <1>5 DEF Inv, CompletedHasOutput
  <2>2. CASE i = j /\ status = "completed"
    BY <2>2, <1>1, <1>5
  <2>3. CASE i = j /\ status = "failed"
    <3>1. row.status = "completed" /\ out = row.output
      BY <2>3, <1>1, <1>5
    <3>2. [number |-> row.output, by |-> j] \in outputs
      BY <3>1 DEF Inv, CompletedHasOutput
    <3>3. QED
      BY <2>3, <3>1, <3>2, <1>1, <1>5
  <2>4. QED
    BY <2>1, <2>2, <2>3 DEF Settled
<1>13. ProcessingIsLeased'
  BY <1>1, <1>5 DEF Inv, ProcessingIsLeased, Settled
<1>14. OutputPerClaim'
  <2> SUFFICES ASSUME NEW i \in JobId
               PROVE  (Cardinality(OutputsOf(i)) + Cardinality(WorkersOn(i))
                         <= jobs[i].attempts)'
    BY DEF OutputPerClaim
  <2>1. /\ Cardinality(OutputsOf(i)) \in Nat
        /\ Cardinality(WorkersOn(i)) \in Nat
        /\ Cardinality(OutputsOf(i)) + Cardinality(WorkersOn(i)) <= jobs[i].attempts
    BY FS_CardinalityType DEF Inv, RowInv, OutputPerClaim
  <2>2. CASE i = j
    <3>1. Cardinality(WorkersOn(j))' = Cardinality(WorkersOn(j)) - 1
      BY <1>3, WorkersMove DEF JobId
    <3>2. jobs'[j].attempts = row.attempts
      BY <1>1, <1>5
    <3>3. Cardinality(OutputsOf(j)') \in Nat
      BY FS_CardinalityType
    <3>4. QED
      BY <2>1, <2>2, <3>1, <3>2, <3>3, <1>1
  <2>3. CASE i # j
    <3>1. WorkersOn(i)' = WorkersOn(i)
      BY <2>3, <1>3, <1>5 DEF WorkersOn, JobId
    <3>2. Cardinality(WorkersOn(i))' = Cardinality(WorkersOn(i))
          /\ Cardinality(OutputsOf(i))' = Cardinality(OutputsOf(i))
      BY <2>3, <3>1
    <3>3. jobs'[i] = jobs[i]
      BY <2>3, <1>5
    <3>4. QED
      BY <2>1, <3>2, <3>3
  <2>4. QED
    BY <2>2, <2>3
<1>15. QED
  BY <1>6, <1>7, <1>8, <1>9, <1>10, <1>11, <1>12, <1>13, <1>14 DEF Inv

\* A worker writes failed over whatever the row is.
LEMMA FailKeepsInv ==
    ASSUME Inv, NEW w \in Worker, Fail(w)
    PROVE  Inv'
<1>1. worker[w].at \in Opened /\ worker[w].at \in Busy
  BY DEF Fail, Opened, Busy
<1>2. PICK j \in JobId : j = worker[w].job
  BY <1>1, WorkerFields DEF Inv
<1>3. PICK out \in 0 .. MaxOutputs : out = jobs[j].output
  BY <1>2 DEF Inv, TypeOK, Job
<1>4. /\ jobs' = [jobs EXCEPT ![j] = Written(w, "failed", out)]
      /\ Goes(w, Idle) /\ UNCHANGED <<kind, blobs, handler>>
      /\ outputs' = outputs
  BY <1>2, <1>3 DEF Fail
<1>5. outputs \subseteq outputs' /\ outputs' \subseteq Output
  BY <1>4 DEF Inv, TypeOK
<1>6. Numbers' = Numbers /\ \A i \in JobId : OutputsOf(i)' = OutputsOf(i)
  BY <1>4 DEF Numbers, OutputsOf
<1>7. IsFiniteSet(Numbers)' /\ ScenesNumbered'
  BY <1>4, <1>6 DEF Inv, RowInv, ScenesNumbered
<1>8. kind = "geometry" => Numbers' \subseteq blobs
  BY <1>6 DEF Inv, CompletedHasOutput
<1>9. \A n : n \in 1 .. Cardinality(Numbers) + 1
               => n \in 1 .. Cardinality(Numbers)' + 1
  BY <1>6
<1>10. /\ IsFiniteSet(OutputsOf(j))'
       /\ Cardinality(OutputsOf(j))' <= Cardinality(OutputsOf(j)) + 1
  <2>1. IsFiniteSet(OutputsOf(j))
    BY DEF Inv, RowInv
  <2>2. Cardinality(OutputsOf(j)) \in Nat
    BY <2>1, FS_CardinalityType
  <2>3. OutputsOf(j)' = OutputsOf(j)
    BY <1>6
  <2>4. QED
    BY <2>1, <2>2, <2>3
<1>11. "failed" \in Settled /\ "failed" # "completed"
  BY DEF Settled
<1>12. QED
  BY <1>1, <1>2, <1>3, <1>4, <1>5, <1>6, <1>7, <1>8, <1>9, <1>10, <1>11,
     SettleKeepsInv

\* What one more output does to the outputs of each job.
LEMMA OutputAdded ==
    ASSUME Inv, NEW j \in JobId, NEW n,
           outputs' = outputs \cup {[number |-> n, by |-> j]}
    PROVE  /\ \A i \in JobId : i # j => OutputsOf(i)' = OutputsOf(i)
           /\ IsFiniteSet(OutputsOf(j))'
           /\ Cardinality(OutputsOf(j))' <= Cardinality(OutputsOf(j)) + 1
<1> DEFINE new == [number |-> n, by |-> j]
<1>1. new.by = j /\ outputs' = outputs \cup {new}
  OBVIOUS
<1> HIDE DEF new
<1>2. \A i \in JobId : i # j => OutputsOf(i)' = OutputsOf(i)
  BY <1>1 DEF OutputsOf
<1>3. IsFiniteSet(OutputsOf(j))
  BY DEF Inv, RowInv
<1>4. Cardinality(OutputsOf(j)) \in Nat
  BY <1>3, FS_CardinalityType
<1>5. OutputsOf(j)' = OutputsOf(j) \cup {new}
  BY <1>1 DEF OutputsOf
<1>6. /\ IsFiniteSet(OutputsOf(j) \cup {new})
      /\ \/ Cardinality(OutputsOf(j) \cup {new}) = Cardinality(OutputsOf(j))
         \/ Cardinality(OutputsOf(j) \cup {new}) = Cardinality(OutputsOf(j)) + 1
  BY <1>3, FS_AddElement
<1>7. QED
  BY <1>2, <1>4, <1>5, <1>6

\* A worker commits the output and completes the job.
LEMMA CompleteKeepsInv ==
    ASSUME Inv, NEW w \in Worker, CompleteScene(w) \/ CompleteModel(w)
    PROVE  Inv'
<1>1. worker[w].at = "produced" /\ worker[w].at \in Opened /\ worker[w].at \in Busy
  BY DEF CompleteScene, CompleteModel, Finish, Opened, Busy
<1>2. PICK j \in JobId : j = worker[w].job
  BY <1>1, WorkerFields DEF Inv
<1>3. PICK n \in 0 .. MaxOutputs : n = worker[w].number
  BY <1>1, WorkerFields DEF Inv
<1> DEFINE new == [number |-> n, by |-> j]
<1>4. /\ jobs' = [jobs EXCEPT ![j] = Written(w, "completed", n)]
      /\ Goes(w, Idle) /\ UNCHANGED <<kind, blobs, handler>>
      /\ outputs' = outputs \cup {new}
  BY <1>2, <1>3 DEF CompleteScene, CompleteModel, Finish
<1>5. /\ kind = "geometry" => n \in blobs
      /\ kind # "geometry" => n \in 1 .. Cardinality(Numbers) + 1 /\ ~Taken(n)
  BY <1>1, <1>3 DEF Inv, NumberInv, CompleteScene, CompleteModel
<1>6. kind # "geometry" => Cardinality(Numbers) \in Nat
  BY NextIsCount
<1>7. n \in 1 .. MaxOutputs
  BY <1>3, <1>5, <1>6, OutputBound DEF Inv, TypeOK
<1>8. outputs \subseteq outputs' /\ outputs' \subseteq Output /\ new \in outputs'
  BY <1>4, <1>7 DEF Inv, TypeOK, Output, JobId
<1>9. /\ \A i \in JobId : i # j => OutputsOf(i)' = OutputsOf(i)
      /\ IsFiniteSet(OutputsOf(j))'
      /\ Cardinality(OutputsOf(j))' <= Cardinality(OutputsOf(j)) + 1
  BY <1>4, OutputAdded
<1>10. /\ IsFiniteSet(Numbers)' /\ ScenesNumbered'
       /\ kind = "geometry" => Numbers' \subseteq blobs
       /\ kind # "geometry" =>
            \A k : k \in 1 .. Cardinality(Numbers) + 1
                     => k \in 1 .. Cardinality(Numbers)' + 1
  <2>1. CASE kind # "geometry"
    <3>1. /\ Cardinality(Numbers)' = Cardinality(Numbers) + 1
          /\ IsFiniteSet(Numbers)'
          /\ Numbers' = 1 .. Cardinality(Numbers)'
          /\ \A o, q \in outputs' : o.number = q.number => o = q
      BY <2>1, <1>4, <1>5, SceneTakesNext
    <3>2. QED
      BY <2>1, <3>1, <1>6 DEF ScenesNumbered
  <2>2. CASE kind = "geometry"
    <3>1. new.number = n
      OBVIOUS
    <3> HIDE DEF new
    <3>2. Numbers' = Numbers \cup {n}
      BY <1>4, <3>1 DEF Numbers
    <3>3. IsFiniteSet(Numbers \cup {n})
      BY FS_AddElement DEF Inv, RowInv
    <3>4. Numbers \subseteq blobs
      BY <2>2 DEF Inv, CompletedHasOutput
    <3>5. QED
      BY <2>2, <1>4, <1>5, <3>2, <3>3, <3>4 DEF ScenesNumbered
  <2>3. QED
    BY <2>1, <2>2
<1> HIDE DEF new
<1>11. "completed" \in Settled /\ "completed" # "failed"
  BY DEF Settled
<1>12. new = [number |-> n, by |-> j]
  BY DEF new
<1>13. QED
  BY <1>1, <1>2, <1>3, <1>4, <1>8, <1>9, <1>10, <1>11, <1>12, SettleKeepsInv

\* A lease that runs out finds every worker of the job late.
LEMMA LeaseLapsesKeepsInv ==
    ASSUME Inv, NEW j \in JobId, LeaseLapses(j)
    PROVE  Inv'
<1> DEFINE new == [jobs[j] EXCEPT !.lease = "lapsed"]
<1>1. /\ jobs[j].lease = "live" /\ jobs[j] \in Job
      /\ UNCHANGED <<kind, outputs, blobs, handler>>
      /\ jobs' = [jobs EXCEPT ![j] = new]
  BY DEF LeaseLapses, Inv, TypeOK
<1>2. /\ new \in Job /\ new.lease = "lapsed" /\ new.status = jobs[j].status
      /\ new.attempts = jobs[j].attempts /\ new.output = jobs[j].output
  BY <1>1 DEF Job
<1> HIDE DEF new
<1>3. jobs'[j] = new /\ \A i \in JobId : i # j => jobs'[i] = jobs[i]
  BY <1>1 DEF Inv, TypeOK
<1>4. \A i \in JobId : /\ jobs'[i].status = jobs[i].status
                       /\ jobs'[i].attempts = jobs[i].attempts
                       /\ jobs'[i].output = jobs[i].output
  BY <1>2, <1>3
<1>5. worker' = [w \in Worker |->
                   IF worker[w].job = j
                     THEN [worker[w] EXCEPT !.late = TRUE] ELSE worker[w]]
  BY DEF LeaseLapses
<1>6. \A w \in Worker : worker[w].job = j =>
        /\ worker'[w] \in WorkerState /\ worker'[w].late = TRUE
        /\ worker'[w].at = worker[w].at /\ worker'[w].job = worker[w].job
        /\ worker'[w].seen = worker[w].seen /\ worker'[w].number = worker[w].number
  <2> SUFFICES ASSUME NEW w \in Worker, worker[w].job = j
               PROVE  /\ worker'[w] \in WorkerState /\ worker'[w].late = TRUE
                      /\ worker'[w].at = worker[w].at /\ worker'[w].job = worker[w].job
                      /\ worker'[w].seen = worker[w].seen
                      /\ worker'[w].number = worker[w].number
    OBVIOUS
  <2>1. worker[w] \in WorkerState /\ worker[w].job # 0
    BY BoundsOK DEF Inv, TypeOK, JobId
  <2>2. worker[w] \in [at : Busy, job : JobId, seen : Job,
                       number : 0 .. MaxOutputs, late : BOOLEAN]
    BY <2>1, StateFields
  <2> DEFINE next == [worker[w] EXCEPT !.late = TRUE]
  <2>3. worker'[w] = next
    BY <1>5
  <2>4. /\ next \in [at : Busy, job : JobId, seen : Job,
                     number : 0 .. MaxOutputs, late : BOOLEAN]
        /\ next.late = TRUE /\ next.at = worker[w].at
        /\ next.job = worker[w].job /\ next.seen = worker[w].seen
        /\ next.number = worker[w].number
    BY <2>2
  <2> HIDE DEF next
  <2>5. QED
    BY <2>3, <2>4 DEF WorkerState, Busy
<1>7. \A w \in Worker : worker[w].job # j => worker'[w] = worker[w]
  BY <1>5
<1>8. \A w \in Worker : /\ worker'[w].at = worker[w].at
                        /\ worker'[w].job = worker[w].job
                        /\ worker'[w].seen = worker[w].seen
                        /\ worker'[w].number = worker[w].number
                        /\ worker[w].late = TRUE => worker'[w].late = TRUE
  BY <1>6, <1>7
<1>9. TypeOK'
  <2>1. worker' \in [Worker -> WorkerState]
    BY <1>5, <1>6, <1>7 DEF Inv, TypeOK
  <2>2. QED
    BY <2>1, <1>1, <1>2 DEF Inv, TypeOK
<1>10. \A i \in JobId : WorkersOn(i)' = WorkersOn(i) /\ OutputsOf(i)' = OutputsOf(i)
  BY <1>1, <1>8 DEF WorkersOn, OutputsOf
<1>11. RowInv'
  BY <1>1, <1>4, <1>10 DEF Inv, RowInv, Numbers
<1>12. WorkerInv'
  <2> SUFFICES ASSUME NEW v \in Worker, worker'[v].at \in Busy
               PROVE  /\ jobs'[worker'[v].job].attempts > 0
                      /\ jobs'[worker'[v].job].lease = "lapsed" => worker'[v].late
                      /\ jobs'[worker'[v].job].status \in Settled =>
                           jobs'[worker'[v].job].attempts # 1
                      /\ worker'[v].at \in Opened =>
                         /\ worker'[v].seen.status \in Settled \cup {"processing"}
                         /\ worker'[v].seen.status = "processing" <=>
                              worker'[v].seen.lease # "none"
                         /\ worker'[v].seen.status \in Settled =>
                              jobs'[worker'[v].job].status \in Settled
    BY DEF WorkerInv
  <2>1. worker[v].at \in Busy /\ worker[v].job \in JobId
    BY <1>8, WorkerFields DEF Inv
  <2>2. CASE worker[v].job = j
    <3>1. worker'[v].late = TRUE
      BY <2>2, <1>6
    <3>2. /\ jobs[j].attempts > 0
          /\ jobs[j].status \in Settled => jobs[j].attempts # 1
          /\ worker[v].at \in Opened =>
             /\ worker[v].seen.status \in Settled \cup {"processing"}
             /\ worker[v].seen.status = "processing" <=> worker[v].seen.lease # "none"
             /\ worker[v].seen.status \in Settled => jobs[j].status \in Settled
      BY <2>1, <2>2 DEF Inv, WorkerInv
    <3>3. QED
      BY <2>2, <3>1, <3>2, <1>4, <1>8
  <2>3. CASE worker[v].job # j
    BY <2>1, <2>3, <1>3, <1>7 DEF Inv, WorkerInv
  <2>4. QED
    BY <2>2, <2>3
<1>13. AloneInv'
  <2>1. \A w \in Worker : worker[w].job # 0 => worker[w].job \in JobId
    BY WorkerFields DEF Inv
  <2>2. QED
    BY <2>1, <1>4, <1>8 DEF Inv, AloneInv
<1>14. OneTimelyWorker'
  <2> SUFFICES ASSUME NEW u \in Worker, NEW v \in Worker,
                      worker'[u].job = worker'[v].job, worker'[u].job # 0, u # v
               PROVE  worker'[u].late \/ worker'[v].late
    BY DEF OneTimelyWorker
  <2>1. worker[u].late \/ worker[v].late
    BY <1>8 DEF Inv, OneTimelyWorker
  <2>2. worker[u].late \in BOOLEAN /\ worker[v].late \in BOOLEAN
    BY <1>8, WorkerFields DEF Inv
  <2>3. QED
    BY <2>1, <2>2, <1>8
<1>15. NumberInv' /\ ScenesNumbered'
  BY <1>1, <1>8 DEF Inv, NumberInv, ScenesNumbered, Numbers
<1>16. CompletedHasOutput'
  BY <1>1, <1>4 DEF Inv, CompletedHasOutput, Numbers
<1>17. ProcessingIsLeased'
  BY <1>1, <1>2, <1>3 DEF Inv, ProcessingIsLeased
<1>18. OutputPerClaim'
  BY <1>4, <1>10 DEF Inv, OutputPerClaim
<1>19. QED
  BY <1>9, <1>11, <1>12, <1>13, <1>14, <1>15, <1>16, <1>17, <1>18 DEF Inv

-----------------------------------------------------------------------------
\* A step that changes nothing.
LEMMA StutterKeepsInv ==
    ASSUME Inv, UNCHANGED vars
    PROVE  Inv'
<1>1. UNCHANGED <<kind, jobs, outputs, blobs, worker, handler>>
  BY DEF vars
<1>2. TypeOK' /\ WorkerInv' /\ AloneInv' /\ OneTimelyWorker' /\ ProcessingIsLeased'
  BY <1>1 DEF Inv, TypeOK, WorkerInv, AloneInv, OneTimelyWorker, ProcessingIsLeased
<1>3. RowInv' /\ OutputPerClaim'
  BY <1>1 DEF Inv, RowInv, OutputPerClaim, WorkersOn, OutputsOf, Numbers
<1>4. NumberInv' /\ ScenesNumbered' /\ CompletedHasOutput'
  BY <1>1 DEF Inv, NumberInv, ScenesNumbered, CompletedHasOutput, Numbers
<1>5. QED
  BY <1>2, <1>3, <1>4 DEF Inv

\* Each step of a worker, a request or the clock keeps the invariant.
THEOREM NextInv == Inv /\ [Next]_vars => Inv'
<1> SUFFICES ASSUME Inv, [Next]_vars PROVE Inv'
  OBVIOUS
<1>1. CASE UNCHANGED vars
  BY <1>1, StutterKeepsInv
<1>2. ASSUME NEW h \in Handler,
             \/ EnqueueReads(h) \/ Enqueue(h) \/ DrawReads(h) \/ Draw(h)
             \/ HandlerAborts(h)
      PROVE  Inv'
  BY <1>2, HandlerReadsKeepInv, EnqueueKeepsInv, DrawKeepsInv
<1>3. ASSUME NEW w \in Worker, Claim(w) \/ Work(w) \/ Die(w) \/ Restart(w)
      PROVE  Inv'
  BY <1>3, ClaimKeepsInv, OpenKeepsInv, ProduceKeepsInv, CompleteKeepsInv,
     FailKeepsInv, LeaveKeepsInv DEF Work
<1>4. ASSUME NEW j \in JobId, LeaseLapses(j) PROVE Inv'
  BY <1>4, LeaseLapsesKeepsInv
<1>5. QED
  BY <1>1, <1>2, <1>3, <1>4 DEF Next

\* The inductive invariant holds of every reachable state.
THEOREM Invariance == Spec => []Inv
BY InitInv, NextInv, PTL DEF Spec

\* The rows, and what workers and requests hold of them, are always well formed.
THEOREM TypeCorrect == Spec => []TypeOK
<1>1. Inv => TypeOK
  BY DEF Inv
<1>2. QED
  BY <1>1, Invariance, PTL

\* Scene versions are 1, 2, 3 ... whoever reads the latest one when.
THEOREM ScenesAreNumbered == Spec => []ScenesNumbered
<1>1. Inv => ScenesNumbered
  BY DEF Inv
<1>2. QED
  BY <1>1, Invariance, PTL

\* A completed job points to its own output, and an asset to its blob.
THEOREM CompletedIsBacked == Spec => []CompletedHasOutput
<1>1. Inv => CompletedHasOutput
  BY DEF Inv
<1>2. QED
  BY <1>1, Invariance, PTL

\* No write of a stale row leaves a job in processing that no claim can find.
THEOREM NoJobStranded == Spec => []ProcessingIsLeased
<1>1. Inv => ProcessingIsLeased
  BY DEF Inv
<1>2. QED
  BY <1>1, Invariance, PTL

\* Two workers share a job only after the lease of one of them ran out.
THEOREM TimelyWorkerUnique == Spec => []OneTimelyWorker
<1>1. Inv => OneTimelyWorker
  BY DEF Inv
<1>2. QED
  BY <1>1, Invariance, PTL

\* A job yields at most one output for each claim of it.
THEOREM ClaimsBoundOutputs == Spec => []OutputPerClaim
<1>1. Inv => OutputPerClaim
  BY DEF Inv
<1>2. QED
  BY <1>1, Invariance, PTL

\* No step takes a settled job out of its settled states, and none changes
\* the row of one that was claimed only once.
LEMMA SettledStep ==
    ASSUME Inv, [Next]_vars, NEW j \in JobId, jobs[j].status \in Settled
    PROVE  /\ jobs'[j].status \in Settled
           /\ jobs[j].attempts = 1 => jobs'[j] = jobs[j]
<1>1. CASE jobs' = jobs
  BY <1>1
<1>2. ASSUME NEW h \in Handler, Enqueue(h)
      PROVE  jobs'[j] = jobs[j]
  <2>1. PICK k \in JobId : /\ \A i \in JobId : jobs[i].status = "absent" <=> i >= k
                          /\ jobs' = [jobs EXCEPT ![k].status = "queued"]
    BY <1>2 DEF Enqueue
  <2>2. k >= k
    BY BoundsOK DEF JobId
  <2>3. k # j
    BY <2>1, <2>2 DEF Settled
  <2>4. QED
    BY <2>1, <2>3 DEF Inv, TypeOK
<1>3. ASSUME NEW w \in Worker, Claim(w)
      PROVE  jobs'[j] = jobs[j]
  BY <1>3 DEF Claim, Claimable, Claimed, Settled, Inv, TypeOK
<1>4. ASSUME NEW w \in Worker, Finish(w) \/ Fail(w)
      PROVE  /\ jobs'[j].status \in Settled
             /\ jobs[j].attempts = 1 => jobs'[j] = jobs[j]
  <2>1. worker[w].at \in Opened /\ worker[w].at \in Busy
    BY <1>4 DEF Finish, Fail, Opened, Busy
  <2>2. PICK k \in JobId : k = worker[w].job
    BY <2>1, WorkerFields DEF Inv
  <2>3. CASE k # j
    BY <1>4, <2>2, <2>3 DEF Finish, Fail, Inv, TypeOK
  <2>4. CASE k = j
    <3>1. jobs[j].attempts # 1
      BY <2>1, <2>2, <2>4 DEF Inv, WorkerInv
    <3>2. PICK status \in Settled, out \in 0 .. MaxOutputs :
            jobs' = [jobs EXCEPT ![j] = Written(w, status, out)]
      <4>1. worker[w].number \in 0 .. MaxOutputs /\ jobs[j].output \in 0 .. MaxOutputs
        BY <2>1, WorkerFields DEF Inv, TypeOK, Job
      <4>2. QED
        BY <1>4, <2>2, <2>4, <4>1 DEF Finish, Fail, Settled
    <3>3. Written(w, status, out).status \in Settled
      BY <2>1, <3>2, WrittenRow
    <3>4. QED
      BY <3>1, <3>2, <3>3 DEF Inv, TypeOK
  <2>5. QED
    BY <2>3, <2>4
<1>5. ASSUME NEW i \in JobId, LeaseLapses(i)
      PROVE  jobs'[j] = jobs[j]
  <2>1. jobs[j].lease # "live"
    BY DEF Inv, ProcessingIsLeased, Settled
  <2>2. QED
    BY <1>5, <2>1 DEF LeaseLapses, Inv, TypeOK
<1>6. QED
  <2>1. CASE UNCHANGED vars
    BY <2>1, <1>1 DEF vars
  <2>2. CASE \E h \in Handler :
               EnqueueReads(h) \/ Enqueue(h) \/ DrawReads(h) \/ Draw(h)
               \/ HandlerAborts(h)
    BY <2>2, <1>1, <1>2 DEF EnqueueReads, DrawReads, Draw, HandlerAborts
  <2>3. CASE \E w \in Worker : Claim(w) \/ Work(w) \/ Die(w) \/ Restart(w)
    <3>1. ASSUME NEW w \in Worker,
                 \/ Open(w) \/ ProduceScene(w) \/ ProduceModel(w)
                 \/ RefusedIFC(w) \/ RefusedDXF(w) \/ Die(w) \/ Restart(w)
          PROVE  jobs' = jobs
      BY <3>1 DEF Open, ProduceScene, ProduceModel, Produces, RefusedIFC, RefusedDXF,
                  Die, Restart
    <3>2. ASSUME NEW w \in Worker, CompleteScene(w) \/ CompleteModel(w)
          PROVE  Finish(w)
      BY <3>2 DEF CompleteScene, CompleteModel
    <3>3. QED
      BY <2>3, <3>1, <3>2, <1>1, <1>3, <1>4 DEF Work
  <2>4. CASE \E i \in JobId : LeaseLapses(i)
    BY <2>4, <1>5
  <2>5. QED
    BY <2>1, <2>2, <2>3, <2>4 DEF Next

\* A job once settled stays settled, and its outcome is final unless it was
\* taken over.
THEOREM SettledIsFinal == Spec => SettledStays
<1>1. Inv /\ [Next]_vars =>
        [\A j \in JobId : jobs[j].status \in Settled =>
           /\ jobs'[j].status \in Settled
           /\ jobs[j].attempts = 1 => jobs'[j] = jobs[j]]_vars
  BY SettledStep
<1>2. QED
  BY <1>1, Invariance, PTL DEF Spec, SettledStays
=============================================================================
