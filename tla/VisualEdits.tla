---------------------------- MODULE VisualEdits ----------------------------
(***************************************************************************)
(* The visual studies of one tenant: uploads, edit requests under a daily   *)
(* quota and reviews (visual_ai_routes.py), and the workers that claim a    *)
(* requested edit, pay for one call of the image provider and store its     *)
(* result (visual_ai_worker.py, scripts/process_visual_ai_jobs.py).         *)
(*                                                                          *)
(* A blob and its row are two stores: the blob is put first, and deleted    *)
(* when the transaction of the row fails.  A commit may be applied and its  *)
(* answer lost: the handler takes it for a failure.                         *)
(*                                                                          *)
(* Abstractions.  An image is the number of its uuid; bytes, sizes and      *)
(* prompts are left out, a request they invalidate changes nothing.  The    *)
(* project stays active.  Where a handler deletes a blob and the storage    *)
(* refuses, or dies before, the blob stays.                                 *)
(***************************************************************************)
EXTENDS Integers, FiniteSets, FiniteSetsExt

CONSTANTS
    Thread,     \* request threads
    Worker,     \* worker processes
    Quota,      \* visual_ai_max_daily_edits
    MaxImages,  \* bound on the images stored
    MaxJobs     \* bound on the edits requested

ASSUME BoundsOK == Quota \in Nat /\ MaxImages \in Nat \ {0} /\ MaxJobs \in Nat

VARIABLES
    image,    \* the rows of artifact_assets, by image
    blob,     \* the images whose bytes are in the storage
    drawn,    \* how many uuids have been drawn
    job,      \* the rows of artifact_jobs
    usage,    \* the usage events of each job
    reviews,  \* the review events of each image
    txn,      \* what each request thread is doing
    step,     \* what each worker is doing
    calls,    \* history: calls of the provider, by job
    lost      \* history: images whose commit was applied and not answered

vars == <<image, blob, drawn, job, usage, reviews, txn, step, calls, lost>>

-----------------------------------------------------------------------------
Image == 1 .. MaxImages
Job   == 1 .. MaxJobs

Verdict == {"approved", "rejected"}
Review  == {"none", "pending_review"} \cup Verdict

ImageRow == [kind : {"absent", "original", "derived"}, of : 0 .. MaxJobs,
             review : Review]
NoImage  == [kind |-> "absent", of |-> 0, review |-> "none"]

\* recent: created_at is within the last day.
JobRow == [status : {"absent", "queued", "processing", "completed", "failed"},
           source : 0 .. MaxImages, recent : BOOLEAN]
NoJob  == [status |-> "absent", source |-> 0, recent |-> FALSE]

Resting == [at |-> "rest"]
Request == [at : {"uploading", "asking", "admitted"}, image : Image]
Verdicts == [at : {"deciding", "locked"}, image : Image, verdict : Verdict,
             seen : Review]

Claim   == [at : {"claiming"}, job : Job, held : SUBSET Job]
Process == [at : {"claimed", "ready", "called", "failing"}, job : Job]
Stored  == [at : {"stored"}, job : Job, image : Image]

TypeOK ==
    /\ image \in [Image -> ImageRow]
    /\ blob \subseteq Image
    /\ drawn \in 0 .. MaxImages
    /\ job \in [Job -> JobRow]
    /\ usage \in [Job -> Nat]
    /\ reviews \in [Image -> Nat]
    /\ txn \in [Thread -> {Resting} \cup Request \cup Verdicts]
    /\ step \in [Worker -> {Resting} \cup Claim \cup Process \cup Stored]
    /\ calls \in [Job -> Nat]
    /\ lost \subseteq Image

\* One image has been uploaded.
Init ==
    /\ image = [i \in Image |->
                  IF i = 1 THEN [NoImage EXCEPT !.kind = "original"] ELSE NoImage]
    /\ blob = {1}
    /\ drawn = 1
    /\ job = [j \in Job |-> NoJob]
    /\ usage = [j \in Job |-> 0]
    /\ reviews = [i \in Image |-> 0]
    /\ txn = [t \in Thread |-> Resting]
    /\ step = [w \in Worker |-> Resting]
    /\ calls = [j \in Job |-> 0]
    /\ lost = {}

-----------------------------------------------------------------------------
files   == <<blob, drawn>>
jobRows == <<job, usage>>
imgRows == <<image, reviews>>
history == <<calls, lost>>

Turns(t, next)   == txn' = [txn EXCEPT ![t] = next] /\ UNCHANGED step
Proceeds(w, next) == step' = [step EXCEPT ![w] = next] /\ UNCHANGED txn

InDb(i) == image[i].kind # "absent"

\* image_content, and the worker's read of the source.
Readable(i) == i \in blob

\* uuid4, and put_if_absent under a key no one else has.
Put(i) ==
    /\ drawn < MaxImages
    /\ i = drawn + 1
    /\ drawn' = i
    /\ blob' = blob \cup {i}

\* The deletion of a blob after a failure, which may fail in its turn.
Cleanup(i) == blob' \in {blob, blob \ {i}} /\ UNCHANGED drawn

-----------------------------------------------------------------------------
(* upload_image.                                                            *)

UploadStores(t) ==
    /\ txn[t] = Resting
    /\ \E i \in Image :
         /\ Put(i)
         /\ Turns(t, [at |-> "uploading", image |-> i])
    /\ UNCHANGED <<imgRows, jobRows, history>>

AddsOriginal(i) ==
    image' = [image EXCEPT ![i] = [NoImage EXCEPT !.kind = "original"]]

UploadCommits(t) ==
    /\ txn[t].at = "uploading"
    /\ AddsOriginal(txn[t].image)
    /\ Turns(t, Resting)
    /\ UNCHANGED <<files, reviews, jobRows, history>>

UploadFails(t) ==
    /\ txn[t].at = "uploading"
    /\ Cleanup(txn[t].image)
    /\ Turns(t, Resting)
    /\ UNCHANGED <<imgRows, jobRows, history>>

UploadUnanswered(t) ==
    /\ txn[t].at = "uploading"
    /\ AddsOriginal(txn[t].image)
    /\ Cleanup(txn[t].image)
    /\ lost' = lost \cup {txn[t].image}
    /\ Turns(t, Resting)
    /\ UNCHANGED <<reviews, jobRows, calls>>

-----------------------------------------------------------------------------
(* request_edit.                                                            *)

EditBegins(t) ==
    /\ txn[t] = Resting
    /\ \E i \in Image : InDb(i) /\ Turns(t, [at |-> "asking", image |-> i])
    /\ UNCHANGED <<files, imgRows, jobRows, history>>

\* Mutant: the row of the tenant is read without FOR UPDATE.
TenantUnlocked(t) == TRUE

\* FOR UPDATE on the row of the tenant.
TenantFree(t) == \A u \in Thread \ {t} : txn[u].at # "admitted"

Recent == {j \in Job : job[j].recent}

EditAdmitted(t) ==
    /\ txn[t].at = "asking"
    /\ TenantFree(t)
    /\ Cardinality(Recent) < Quota
    /\ Turns(t, [txn[t] EXCEPT !.at = "admitted"])
    /\ UNCHANGED <<files, imgRows, jobRows, history>>

EditRefused(t) ==
    /\ txn[t].at = "asking"
    /\ TenantFree(t)
    /\ Cardinality(Recent) >= Quota
    /\ Turns(t, Resting)
    /\ UNCHANGED <<files, imgRows, jobRows, history>>

EditCommits(t) ==
    /\ txn[t].at = "admitted"
    /\ \E j \in Job :
         /\ job[j] = NoJob
         /\ \A k \in 1 .. j - 1 : job[k] # NoJob
         /\ job' = [job EXCEPT ![j] = [status |-> "queued", recent |-> TRUE,
                                       source |-> txn[t].image]]
    /\ Turns(t, Resting)
    /\ UNCHANGED <<files, imgRows, usage, history>>

\* The job is a day old, and out of the count.
DayPasses ==
    /\ \E j \in Job :
         job[j].recent /\ job' = [job EXCEPT ![j].recent = FALSE]
    /\ UNCHANGED <<files, imgRows, usage, txn, step, history>>

-----------------------------------------------------------------------------
(* decide.                                                                  *)

DecisionBegins(t) ==
    /\ txn[t] = Resting
    /\ \E i \in Image, v \in Verdict :
         /\ image[i].kind = "derived"
         /\ Turns(t, [at |-> "deciding", image |-> i, verdict |-> v,
                      seen |-> image[i].review])
    /\ UNCHANGED <<files, imgRows, jobRows, history>>

ImageFree(t) ==
    \A u \in Thread \ {t} : txn[u].at = "locked" => txn[u].image # txn[t].image

\* Mutant: FOR UPDATE without populate_existing keeps what was read before.
AsReadBefore(t) == txn[t].seen

\* populate_existing.
AsLocked(t) == image[txn[t].image].review

DecisionLocks(t) ==
    /\ txn[t].at = "deciding"
    /\ ImageFree(t)
    /\ Turns(t, [txn[t] EXCEPT !.at = "locked", !.seen = AsLocked(t)])
    /\ UNCHANGED <<files, imgRows, jobRows, history>>

Decides(t) ==
    /\ txn[t].at = "locked"
    /\ txn[t].seen = "pending_review"
    /\ image' = [image EXCEPT ![txn[t].image].review = txn[t].verdict]
    /\ reviews' = [reviews EXCEPT ![txn[t].image] = @ + 1]
    /\ Turns(t, Resting)
    /\ UNCHANGED <<files, jobRows, history>>

\* visual_already_reviewed.
DecisionRefused(t) ==
    /\ txn[t].at = "locked"
    /\ txn[t].seen # "pending_review"
    /\ Turns(t, Resting)
    /\ UNCHANGED <<files, imgRows, jobRows, history>>

\* A request dies or its transaction fails: what it has not committed is gone.
RequestDies(t) ==
    /\ txn[t].at \notin {"rest", "uploading"}
    /\ Turns(t, Resting)
    /\ UNCHANGED <<files, imgRows, jobRows, history>>

-----------------------------------------------------------------------------
(* claim_visual_job.                                                        *)

\* Mutant: FOR UPDATE SKIP LOCKED is left out of the claim.
AnyQueued == {j \in Job : job[j].status = "queued"}

\* SKIP LOCKED: the statement has no LIMIT, and locks every queued row it finds.
Claimable ==
    {j \in Job : /\ job[j].status = "queued"
                 /\ \A w \in Worker :
                      step[w].at = "claiming" => j \notin step[w].held}

ClaimLocks(w) ==
    /\ step[w] = Resting
    /\ Claimable # {}
    /\ Proceeds(w, [at |-> "claiming", job |-> Min(Claimable),
                    held |-> Claimable])
    /\ UNCHANGED <<files, imgRows, jobRows, history>>

ClaimCommits(w) ==
    /\ step[w].at = "claiming"
    /\ job' = [job EXCEPT ![step[w].job].status = "processing"]
    /\ Proceeds(w, [at |-> "claimed", job |-> step[w].job])
    /\ UNCHANGED <<files, imgRows, usage, history>>

(* process_visual_job.                                                      *)

\* The job, its source and the bytes of the source.
Opens(w) ==
    /\ step[w].at = "claimed"
    /\ LET j == job[step[w].job] IN
         /\ j.status = "processing"
         /\ InDb(j.source)
         /\ Readable(j.source)
    /\ Proceeds(w, [step[w] EXCEPT !.at = "ready"])
    /\ UNCHANGED <<files, imgRows, jobRows, history>>

\* Whatever of it is missing, or a storage that does not answer.
OpeningFails(w) ==
    /\ step[w].at = "claimed"
    /\ Proceeds(w, [step[w] EXCEPT !.at = "failing"])
    /\ UNCHANGED <<files, imgRows, jobRows, history>>

CallsProvider(w) ==
    /\ step[w].at = "ready"
    /\ calls' = [calls EXCEPT ![step[w].job] = @ + 1]
    /\ Proceeds(w, [step[w] EXCEPT !.at = "called"])
    /\ UNCHANGED <<files, imgRows, jobRows, lost>>

\* An HTTP error, an answer that is no image of the right kind, a failed put.
CallFails(w) ==
    /\ step[w].at = "called"
    /\ Proceeds(w, [step[w] EXCEPT !.at = "failing"])
    /\ UNCHANGED <<files, imgRows, jobRows, history>>

StoresStudy(w) ==
    /\ step[w].at = "called"
    /\ \E i \in Image :
         /\ Put(i)
         /\ Proceeds(w, [at |-> "stored", job |-> step[w].job, image |-> i])
    /\ UNCHANGED <<imgRows, jobRows, history>>

\* Mutant: the usage event is left to a later transaction.
StudyOnly(w) ==
    /\ image' = [image EXCEPT ![step[w].image] =
                   [kind |-> "derived", of |-> step[w].job,
                    review |-> "pending_review"]]
    /\ job' = [job EXCEPT ![step[w].job].status = "completed"]
    /\ UNCHANGED usage

\* The row, the usage event and the status, in one transaction.
AddsStudy(w) ==
    /\ image' = [image EXCEPT ![step[w].image] =
                   [kind |-> "derived", of |-> step[w].job,
                    review |-> "pending_review"]]
    /\ job' = [job EXCEPT ![step[w].job].status = "completed"]
    /\ usage' = [usage EXCEPT ![step[w].job] = @ + 1]

Completes(w) ==
    /\ step[w].at = "stored"
    /\ AddsStudy(w)
    /\ Proceeds(w, Resting)
    /\ UNCHANGED <<files, reviews, history>>

CompletionFails(w) ==
    /\ step[w].at = "stored"
    /\ Cleanup(step[w].image)
    /\ Proceeds(w, [at |-> "failing", job |-> step[w].job])
    /\ UNCHANGED <<imgRows, jobRows, history>>

CompletionUnanswered(w) ==
    /\ step[w].at = "stored"
    /\ AddsStudy(w)
    /\ Cleanup(step[w].image)
    /\ lost' = lost \cup {step[w].image}
    /\ Proceeds(w, [at |-> "failing", job |-> step[w].job])
    /\ UNCHANGED <<reviews, calls>>

(* The worker's main.                                                       *)

\* The job is read again: only one still in processing is failed.
FailedIfProcessing(j) ==
    job' = [job EXCEPT ![j].status = IF @ = "processing" THEN "failed" ELSE @]

MarksFailed(w) ==
    /\ step[w].at = "failing"
    /\ FailedIfProcessing(step[w].job)
    /\ Proceeds(w, Resting)
    /\ UNCHANGED <<files, imgRows, usage, history>>

\* The process dies and is started again: its job stays in processing.
WorkerDies(w) ==
    /\ step[w] # Resting
    /\ Proceeds(w, Resting)
    /\ UNCHANGED <<files, imgRows, jobRows, history>>

-----------------------------------------------------------------------------
Handles(t) ==
    \/ UploadStores(t) \/ UploadCommits(t) \/ UploadFails(t)
    \/ UploadUnanswered(t)
    \/ EditBegins(t) \/ EditAdmitted(t) \/ EditRefused(t) \/ EditCommits(t)
    \/ DecisionBegins(t) \/ DecisionLocks(t) \/ Decides(t)
    \/ DecisionRefused(t) \/ RequestDies(t)

Works(w) ==
    \/ ClaimLocks(w) \/ ClaimCommits(w) \/ Opens(w) \/ OpeningFails(w)
    \/ CallsProvider(w) \/ CallFails(w) \/ StoresStudy(w) \/ Completes(w)
    \/ CompletionFails(w) \/ CompletionUnanswered(w) \/ MarksFailed(w)

Next ==
    \/ \E t \in Thread : Handles(t)
    \/ \E w \in Worker : Works(w) \/ WorkerDies(w)
    \/ DayPasses

Spec == Init /\ [][Next]_vars

-----------------------------------------------------------------------------
(* Properties.                                                              *)

\* An edit is paid for at most once, whatever dies and whoever claims: two
\* workers never process one job, and a failed or abandoned one is not retried.
PaidOnce == \A j \in Job : calls[j] <= 1

StudiesOf(j) == {i \in Image : image[i].of = j}

\* A completed job, and no other, has its study and its usage event, one of
\* each; and the bytes of every image the database lists are in the storage,
\* but for those whose commit was not answered.
StudiesAccounted ==
    /\ \A j \in Job :
         LET n == IF job[j].status = "completed" THEN 1 ELSE 0 IN
           Cardinality(StudiesOf(j)) = n /\ usage[j] = n
    /\ \A i \in Image : InDb(i) => Readable(i) \/ i \in lost

\* The daily quota holds for the edits of the last day, with any number of
\* requests in flight.
QuotaKept == Cardinality(Recent) <= Quota

\* A study is reviewed at most once, and keeps the verdict it was given.
VerdictIsFinal ==
    [][\A i \in Image :
         image[i].review \in Verdict => image'[i] = image[i]]_vars
=============================================================================
