--------------------------- MODULE ExtractionJobs ---------------------------
(***************************************************************************)
(* The three job queues of one uploaded source: semantic extraction of IFC  *)
(* (bim/service.py) and DXF (cad/service.py) models into scenes, and builds *)
(* of a preview model from a scene (geometry/service.py), with the loops of *)
(* scripts/process_*_jobs.py that work them off.                            *)
(*                                                                          *)
(* A worker claims the oldest job that is queued, or whose lease lapsed, in *)
(* one transaction (FOR UPDATE SKIP LOCKED), and processes it in another    *)
(* session that reads the row again and writes the result by primary key:   *)
(* nothing checks there that the lease is still its own.                    *)
(*                                                                          *)
(* Abstractions.  kind says which of the three queues it is.  An output is  *)
(* a scene, numbered by its version, or an asset of a build, numbered by    *)
(* its blob.  The status of the source and the usage event are written with *)
(* the output of a job.  Jobs are numbered in the order of created_at.      *)
(* Another error of the database than the conflict of two scenes leaves the *)
(* rows as the death of the worker does.                                    *)
(***************************************************************************)
EXTENDS Integers, FiniteSets, FiniteSetsExt

CONSTANTS
    Worker,       \* worker processes
    Handler,      \* request threads of the API
    MaxJobs,      \* bound on the job rows
    MaxAttempts,  \* bound on the claims of a job
    MaxScenes     \* bound on the scenes people draw

ASSUME BoundsOK ==
    /\ MaxJobs \in Nat
    /\ MaxAttempts \in Nat
    /\ MaxScenes \in Nat

VARIABLES
    kind,     \* "bim", "cad" or "geometry"
    jobs,     \* the job rows, in order of creation
    outputs,  \* the scenes of the source, or the assets of its builds
    blobs,    \* the blobs the builds stored
    worker,   \* where each worker process is, and what it has read
    handler   \* where each request thread is, and what it has read

vars == <<kind, jobs, outputs, blobs, worker, handler>>

-----------------------------------------------------------------------------
JobId      == 1 .. MaxJobs
MaxOutputs == MaxScenes + MaxJobs * MaxAttempts

\* The three tables of jobs, which have these columns in common.
Kind    == {"bim", "cad", "geometry"}
Status  == {"absent", "queued", "processing", "completed", "failed"}
Settled == {"completed", "failed"}

\* The lease of a row: lease_expires_at is NULL, in the future, in the past.
Job == [status : Status, lease : {"none", "live", "lapsed"},
        attempts : 0 .. MaxAttempts, output : 0 .. MaxOutputs]

Absent == [status |-> "absent", lease |-> "none", attempts |-> 0, output |-> 0]

\* by is the job that made the output, 0 for a person.
Output == [number : 1 .. MaxOutputs, by : 0 .. MaxJobs]

\* seen is the row as work_db.get loaded it; late is a history variable: the
\* lease of the claim ran out.
At(where) == [at |-> where, job |-> 0, seen |-> Absent, number |-> 0,
              late |-> FALSE]
Idle == At("idle")
Down == At("down")

WorkerState ==
    {Idle, Down}
    \cup [at : {"claimed", "working", "produced"}, job : JobId, seen : Job,
          number : 0 .. MaxOutputs, late : BOOLEAN]

\* number is the version a person's scene will take.
Resting    == [op |-> "none", number |-> 0]
Submission == [op : {"none", "enqueue", "draw"}, number : 0 .. MaxOutputs]

TypeOK ==
    /\ kind \in Kind
    /\ jobs \in [JobId -> Job]
    /\ outputs \subseteq Output
    /\ blobs \subseteq 1 .. MaxOutputs
    /\ worker \in [Worker -> WorkerState]
    /\ handler \in [Handler -> Submission]

Init ==
    /\ kind \in Kind
    /\ jobs = [j \in JobId |-> Absent]
    /\ outputs = {}
    /\ blobs = {}
    /\ worker = [w \in Worker |-> Idle]
    /\ handler = [h \in Handler |-> Resting]

-----------------------------------------------------------------------------
Goes(w, next)  == worker' = [worker EXCEPT ![w] = next]
Turns(h, next) == handler' = [handler EXCEPT ![h] = next]

Numbers == {o.number : o \in outputs}

\* Mutant: no unique constraint on the version.
NeverTaken(n) == n < 0

\* uq_arch_scene_source_version.
Taken(n) == n \in Numbers

\* Mutant: versions count from zero.
NextVersionFromZero == Cardinality(Numbers)

NextVersion == Max(Numbers \cup {0}) + 1

-----------------------------------------------------------------------------
(* Requests: enqueue_*, create_architecture_scene.                          *)

\* A job that is queued, running or completed answers the request; a failed
\* one does not.
EnqueueReads(h) ==
    /\ handler[h] = Resting
    /\ \A j \in JobId : jobs[j].status \in {"absent", "failed"}
    /\ Turns(h, [op |-> "enqueue", number |-> 0])
    /\ UNCHANGED <<kind, jobs, outputs, blobs, worker>>

\* No constraint tells whether another request inserted one meanwhile.
Enqueue(h) ==
    /\ handler[h].op = "enqueue"
    /\ \E j \in JobId :
         /\ \A i \in JobId : jobs[i].status = "absent" <=> i >= j
         /\ jobs' = [jobs EXCEPT ![j].status = "queued"]
    /\ Turns(h, Resting)
    /\ UNCHANGED <<kind, outputs, blobs, worker>>

DrawReads(h) ==
    /\ handler[h] = Resting
    /\ kind # "geometry"
    /\ Cardinality({o \in outputs : o.by = 0}) < MaxScenes
    /\ NextVersion <= MaxOutputs
    /\ Turns(h, [op |-> "draw", number |-> NextVersion])
    /\ UNCHANGED <<kind, jobs, outputs, blobs, worker>>

Draw(h) ==
    /\ handler[h].op = "draw"
    /\ ~Taken(handler[h].number)
    /\ Cardinality({o \in outputs : o.by = 0}) < MaxScenes
    /\ outputs' = outputs \cup {[number |-> handler[h].number, by |-> 0]}
    /\ Turns(h, Resting)
    /\ UNCHANGED <<kind, jobs, blobs, worker>>

\* An IntegrityError the handler does not catch, or the thread dies.
HandlerAborts(h) ==
    /\ handler[h] # Resting
    /\ Turns(h, Resting)
    /\ UNCHANGED <<kind, jobs, outputs, blobs, worker>>

-----------------------------------------------------------------------------
(* Workers: claim_next_*_job, process_*_job, main.                          *)

\* Mutant: any row in processing is up for a new worker.
ClaimableHeld(j) ==
    jobs[j].status \in {"queued", "processing"} /\ jobs[j].attempts < MaxAttempts

\* Mutant: a failed job is retried.
ClaimableFailed(j) ==
    /\ \/ jobs[j].status \in {"queued", "failed"}
       \/ jobs[j].status = "processing" /\ jobs[j].lease = "lapsed"
    /\ jobs[j].attempts < MaxAttempts

\* Mutant: a job whose worker died is not taken over.
ClaimableQueued(j) ==
    jobs[j].status = "queued" /\ jobs[j].attempts < MaxAttempts

Claimable(j) ==
    /\ \/ jobs[j].status = "queued"
       \/ jobs[j].status = "processing" /\ jobs[j].lease = "lapsed"
    /\ jobs[j].attempts < MaxAttempts

\* Mutant: the lease is left for the processing transaction to write.
ClaimedUnleased(j) ==
    [jobs EXCEPT ![j].status = "processing", ![j].attempts = @ + 1]

Claimed(j) ==
    [jobs EXCEPT ![j].status = "processing", ![j].lease = "live",
                 ![j].attempts = @ + 1]

\* The oldest job, and the commit of the claim.
Claim(w) ==
    /\ worker[w] = Idle
    /\ \E j \in JobId :
         /\ Claimable(j)
         /\ \A i \in JobId : Claimable(i) => j <= i
         /\ jobs' = Claimed(j)
         /\ Goes(w, [At("claimed") EXCEPT !.job = j])
    /\ UNCHANGED <<kind, outputs, blobs, handler>>

\* The session of the work: work_db.get reads the row, whoever owns it now.
Open(w) ==
    /\ worker[w].at = "claimed"
    /\ Goes(w, [worker[w] EXCEPT !.at = "working",
                                 !.seen = jobs[worker[w].job]])
    /\ UNCHANGED <<kind, jobs, outputs, blobs, handler>>

Produces(w, n) ==
    /\ worker[w].at = "working"
    /\ Goes(w, [worker[w] EXCEPT !.at = "produced", !.number = n])
    /\ UNCHANGED <<kind, jobs, outputs, handler>>

\* The engine is done, and _persist_scene has read the latest version.
ProduceScene(w) ==
    /\ kind # "geometry"
    /\ NextVersion <= MaxOutputs
    /\ Produces(w, NextVersion)
    /\ UNCHANGED blobs

\* The engine is done, and its model is stored under a new key.
ProduceModel(w) ==
    /\ kind = "geometry"
    /\ \E n \in 1 .. MaxOutputs :
         /\ n = Max(blobs \cup {0}) + 1
         /\ Produces(w, n)
         /\ blobs' = blobs \cup {n}

\* What the session writes over the row: the columns that differ from those
\* it loaded, by primary key.
Written(w, status, output) ==
    LET row  == jobs[worker[w].job]
        seen == worker[w].seen
    IN  [row EXCEPT
          !.status = IF seen.status = status THEN @ ELSE status,
          !.lease  = IF seen.lease = "none" THEN @ ELSE "none",
          !.output = output]

\* Output, completed job, source and usage event, in one transaction.
Finish(w) ==
    /\ worker[w].at = "produced"
    /\ outputs' = outputs \cup
                    {[number |-> worker[w].number, by |-> worker[w].job]}
    /\ jobs' = [jobs EXCEPT ![worker[w].job] =
                  Written(w, "completed", worker[w].number)]
    /\ Goes(w, Idle)
    /\ UNCHANGED <<kind, blobs, handler>>

CompleteScene(w) ==
    kind # "geometry" /\ ~Taken(worker[w].number) /\ Finish(w)

CompleteModel(w) == kind = "geometry" /\ Finish(w)

\* Another scene took the version.  The session that failed to flush accepts
\* no further write, so the attempt to record a failure fails as well.
Conflicts(w) ==
    /\ worker[w].at = "produced"
    /\ Taken(worker[w].number)

\* Mutant: the failed flush is ignored and the row committed as completed.
RefusedCommitted(w) ==
    /\ kind = "bim" /\ Conflicts(w)
    /\ jobs' = [jobs EXCEPT ![worker[w].job] =
                  Written(w, "completed", worker[w].number)]
    /\ Goes(w, Idle)
    /\ UNCHANGED <<kind, outputs, blobs, handler>>

\* The IFC worker goes on to the next job.
RefusedIFC(w) ==
    /\ kind = "bim" /\ Conflicts(w)
    /\ Goes(w, Idle)
    /\ UNCHANGED <<kind, jobs, outputs, blobs, handler>>

\* The DXF worker ends.
RefusedDXF(w) ==
    /\ kind = "cad" /\ Conflicts(w)
    /\ Goes(w, Down)
    /\ UNCHANGED <<kind, jobs, outputs, blobs, handler>>

\* The source is corrupt, too large or not readable, or its blob is not.  The
\* exits before the engine begins (no such source or scene, another format,
\* engine or kind of build), which keep the lease, are left out: the handlers
\* insert only jobs of what they have just read, and nothing deletes it.
Fail(w) ==
    /\ worker[w].at = "working"
    /\ jobs' = [jobs EXCEPT ![worker[w].job] =
                  Written(w, "failed", jobs[worker[w].job].output)]
    /\ Goes(w, Idle)
    /\ UNCHANGED <<kind, outputs, blobs, handler>>

Die(w) ==
    /\ worker[w].at # "down"
    /\ Goes(w, Down)
    /\ UNCHANGED <<kind, jobs, outputs, blobs, handler>>

Restart(w) ==
    /\ worker[w] = Down
    /\ Goes(w, Idle)
    /\ UNCHANGED <<kind, jobs, outputs, blobs, handler>>

\* Time passes lease_expires_at.
LeaseLapses(j) ==
    /\ jobs[j].lease = "live"
    /\ jobs' = [jobs EXCEPT ![j].lease = "lapsed"]
    /\ worker' = [w \in Worker |->
                    IF worker[w].job = j
                      THEN [worker[w] EXCEPT !.late = TRUE] ELSE worker[w]]
    /\ UNCHANGED <<kind, outputs, blobs, handler>>

-----------------------------------------------------------------------------
Work(w) ==
    \/ Open(w) \/ ProduceScene(w) \/ ProduceModel(w)
    \/ CompleteScene(w) \/ CompleteModel(w)
    \/ RefusedIFC(w) \/ RefusedDXF(w) \/ Fail(w)

Next ==
    \/ \E h \in Handler :
         EnqueueReads(h) \/ Enqueue(h) \/ DrawReads(h) \/ Draw(h)
         \/ HandlerAborts(h)
    \/ \E w \in Worker : Claim(w) \/ Work(w) \/ Die(w) \/ Restart(w)
    \/ \E j \in JobId : LeaseLapses(j)

Spec == Init /\ [][Next]_vars

\* A worker is scheduled and started again, time passes, and the workers do
\* not die every time they are about to claim.  Nothing is assumed of deaths
\* later on: each of them costs an attempt.
Fairness ==
    /\ \A w \in Worker : WF_vars(Work(w)) /\ WF_vars(Restart(w))
    /\ SF_vars(\E w \in Worker : Claim(w))
    /\ WF_vars(\E j \in JobId : LeaseLapses(j))

FairSpec == Spec /\ Fairness

-----------------------------------------------------------------------------
(* Properties.                                                              *)

\* The versions of the scenes are 1, 2, 3 ... without gap or duplicate, although
\* workers and people number them from what they read (_persist_scene,
\* create_architecture_scene).
ScenesNumbered ==
    kind # "geometry" =>
        /\ Numbers = 1 .. Cardinality(Numbers)
        /\ \A o, q \in outputs : o.number = q.number => o = q

\* A completed job points to an output it made, whoever completed it last and
\* whatever conflicts came before; an asset has its blob.
CompletedHasOutput ==
    /\ \A j \in JobId : jobs[j].status = "completed" =>
         [number |-> jobs[j].output, by |-> j] \in outputs
    /\ kind = "geometry" => Numbers \subseteq blobs

\* A job in processing has a lease, without which no claim would ever find it
\* again, and no other job has one, whatever stale rows are written back.
ProcessingIsLeased ==
    \A j \in JobId : jobs[j].status = "processing" <=> jobs[j].lease # "none"

\* Of two workers on one job, one has outlived its lease.
OneTimelyWorker ==
    \A v, w \in Worker :
        worker[v].job = worker[w].job /\ worker[v].job # 0 /\ v # w =>
            worker[v].late \/ worker[w].late

OutputsOf(j) == {o \in outputs : o.by = j}
WorkersOn(j) == {w \in Worker : worker[w].job = j}

\* What a job bills for is bounded by its claims: however workers overlap, one
\* claim yields at most one output and with it one usage event.
OutputPerClaim ==
    \A j \in JobId :
        Cardinality(OutputsOf(j)) + Cardinality(WorkersOn(j)) <= jobs[j].attempts

\* A settled job stays settled, and its outcome is final unless it was taken
\* over from a worker that was still running.
SettledStays ==
    [][\A j \in JobId : jobs[j].status \in Settled =>
         /\ jobs'[j].status \in Settled
         /\ jobs[j].attempts = 1 => jobs'[j] = jobs[j]]_vars

\* A queued job is settled, through deaths of its workers and conflicts over
\* versions, unless it used up its attempts (the code has no such bound).
JobsSettle ==
    \A j \in JobId :
        jobs[j].status = "queued" ~>
            jobs[j].status \in Settled \/ jobs[j].attempts = MaxAttempts
=============================================================================
