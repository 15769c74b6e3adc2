------------------------- MODULE VisualEditsProofs -------------------------
(***************************************************************************)
(* Proofs about VisualEdits: its invariants and its action property, for    *)
(* any threads, workers, quota and bounds.                                  *)
(*                                                                          *)
(* PaidOnce rests on who may have a job.  The claims that are open hold     *)
(* disjoint sets of queued jobs (HeldQueued, what SKIP LOCKED gives), so    *)
(* that no two workers come to be engaged in one job (OneEngaged); a job    *)
(* leaves "queued" once and never returns, and nothing is paid for it       *)
(* before (Unpaid).  QuotaKept is kept by the lock under which the day is   *)
(* counted: one thread is past the count, and the count still leaves it     *)
(* room (OneAdmitted).  StudiesAccounted needs that bytes without a row are *)
(* in one hand, so that what a failure deletes is no one else's             *)
(* (ImagesOwned), and that a job is completed by its one worker.            *)
(* VerdictIsFinal needs that under the row lock what a thread has read is   *)
(* what is there (LockedAsSeen).                                            *)
(***************************************************************************)
EXTENDS VisualEdits, FiniteSetTheorems, WellFoundedInduction, TLAPS

\* An image put but not yet listed: whoever holds it may drop it again.
Fresh(i) == i <= drawn /\ i \in blob /\ image[i] = NoImage

\* A thread, or a worker, that has bytes in the storage and no row for them.
Uploads(t) == txn[t].at = "uploading"
Stores(w)  == step[w].at = "stored"

\* Ids are drawn in order, and an unlisted image is in one hand only.
ImagesOwned ==
    /\ \A i \in Image : i > drawn => image[i] = NoImage
    /\ \A t \in Thread : Uploads(t) => Fresh(txn[t].image)
    /\ \A w \in Worker : Stores(w) => Fresh(step[w].image)
    /\ \A t, u \in Thread :
         Uploads(t) /\ Uploads(u) /\ txn[t].image = txn[u].image => t = u
    /\ \A w, v \in Worker :
         Stores(w) /\ Stores(v) /\ step[w].image = step[v].image => w = v
    /\ \A t \in Thread, w \in Worker :
         Uploads(t) /\ Stores(w) => txn[t].image # step[w].image

\* A thread that has passed the count of the day and has yet to insert its job.
Admits(t) == txn[t].at = "admitted"

\* The lock of the count admits one thread at a time, and leaves it room.
OneAdmitted ==
    /\ \A t \in Thread : Admits(t) => Cardinality(Recent) < Quota
    /\ \A t, u \in Thread : Admits(t) /\ Admits(u) => t = u

\* A thread that holds the row lock of a study.
Locks(t) == txn[t].at = "locked"

\* Only studies are reviewed; under the lock what was read is what is there.
LockedAsSeen ==
    /\ \A t \in Thread : txn[t].at \in {"deciding", "locked"} =>
         image[txn[t].image].kind = "derived"
    /\ \A t \in Thread : Locks(t) => txn[t].seen = image[txn[t].image].review
    /\ \A t, u \in Thread :
         Locks(t) /\ Locks(u) /\ txn[t].image = txn[u].image => t = u

\* A worker between the SELECT FOR UPDATE SKIP LOCKED and its commit; one that
\* has a job from that commit on.
Claims(w)  == step[w].at = "claiming"
Engaged(w) == step[w].at \in {"claimed", "ready", "called", "failing", "stored"}

\* The jobs a claim has locked are queued, and no other claim has them.
HeldQueued ==
    /\ \A w \in Worker : Claims(w) =>
         /\ step[w].job \in step[w].held
         /\ \A j \in step[w].held : job[j].status = "queued"
    /\ \A w, v \in Worker :
         Claims(w) /\ Claims(v) /\ w # v => step[w].held \cap step[v].held = {}

\* A worker's job is processing, unless its failure may find it completed; no
\* two workers have the same.
OneEngaged ==
    /\ \A w \in Worker : Engaged(w) =>
         IF step[w].at = "failing"
           THEN job[step[w].job].status \in {"processing", "completed"}
           ELSE job[step[w].job].status = "processing"
    /\ \A w, v \in Worker :
         Engaged(w) /\ Engaged(v) /\ step[w].job = step[v].job => w = v

\* Nothing was paid for a job before its worker calls.
Unpaid ==
    /\ \A j \in Job : job[j].status \in {"absent", "queued"} => calls[j] = 0
    /\ \A w \in Worker :
         step[w].at \in {"claimed", "ready"} => calls[step[w].job] = 0

\* The inductive invariant.
IInv ==
    /\ TypeOK /\ ImagesOwned /\ OneAdmitted /\ LockedAsSeen
    /\ HeldQueued /\ OneEngaged /\ Unpaid
    /\ PaidOnce /\ StudiesAccounted /\ QuotaKept

-----------------------------------------------------------------------------
\* What a request thread, and a worker, has at each of its steps.
LEMMA ThreadShape ==
    ASSUME TypeOK, NEW t \in Thread
    PROVE  /\ txn[t] # Resting => txn[t].image \in Image
           /\ txn[t].at \in {"uploading", "asking", "admitted"} => txn[t] \in Request
           /\ txn[t].at \in {"deciding", "locked"} => txn[t] \in Verdicts
           /\ txn[t].at = "rest" <=> txn[t] = Resting
  BY DEF TypeOK, Resting, Request, Verdicts

\* And a worker.
LEMMA WorkerShape ==
    ASSUME TypeOK, NEW w \in Worker
    PROVE  /\ step[w] # Resting => step[w].job \in Job
           /\ step[w].at = "claiming" => step[w].held \in SUBSET Job /\ step[w] \in Claim
           /\ step[w].at \in {"claimed", "ready", "called", "failing"} => step[w] \in Process
           /\ step[w].at = "stored" => step[w] \in Stored /\ step[w].image \in Image
           /\ step[w].at = "rest" <=> step[w] = Resting
  BY DEF TypeOK, Resting, Claim, Process, Stored

\* A thread, or a worker, that steps: the functions stay well formed.
LEMMA TurnsType ==
    ASSUME TypeOK, NEW t \in Thread, NEW next, Turns(t, next),
           next \in {Resting} \cup Request \cup Verdicts
    PROVE  /\ txn' \in [Thread -> {Resting} \cup Request \cup Verdicts]
           /\ step' \in [Worker -> {Resting} \cup Claim \cup Process \cup Stored]
           /\ txn'[t] = next
           /\ \A u \in Thread \ {t} : txn'[u] = txn[u]
           /\ step' = step
  BY DEF TypeOK, Turns

LEMMA ProceedsType ==
    ASSUME TypeOK, NEW w \in Worker, NEW next, Proceeds(w, next),
           next \in {Resting} \cup Claim \cup Process \cup Stored
    PROVE  /\ txn' \in [Thread -> {Resting} \cup Request \cup Verdicts]
           /\ step' \in [Worker -> {Resting} \cup Claim \cup Process \cup Stored]
           /\ step'[w] = next
           /\ \A v \in Worker \ {w} : step'[v] = step[v]
           /\ txn' = txn
  BY DEF TypeOK, Proceeds

\* Every set of natural numbers that is not empty has a least element: the
\* intervals up to its elements are ordered by inclusion, which is well founded.
LEMMA LeastNatural ==
    ASSUME NEW S \in SUBSET Nat, S # {}
    PROVE  \E x \in S : \A y \in S : x <= y
<1> DEFINE T == {0 .. n : n \in S}
<1>1. T \subseteq FiniteSubsetsOf(Nat) /\ T # {}
  <2>1. \A n \in S : 0 .. n \in SUBSET Nat /\ IsFiniteSet(0 .. n)
    BY FS_Interval
  <2> QED
    BY <2>1 DEF FiniteSubsetsOf
<1>2. PICK s \in T : \A r \in T : ~ (<<r, s>> \in StrictSubsetOrdering(Nat))
  BY <1>1, FS_StrictSubsetOrderingWellFounded, WFMin
<1>3. PICK x \in S : s = 0 .. x
  OBVIOUS
<1>4. ASSUME NEW y \in S, y < x PROVE FALSE
  <2>1. /\ 0 .. y \in SUBSET Nat /\ 0 .. x \in SUBSET Nat
        /\ 0 .. y \subseteq 0 .. x /\ 0 .. y # 0 .. x
    <3>1. x \in 0 .. x /\ x \notin 0 .. y
      BY <1>4
    <3>2. 0 .. y \subseteq 0 .. x
      BY <1>4
    <3> QED
      BY <3>1, <3>2
  <2> DEFINE p == <<0 .. y, 0 .. x>>
  <2>2. p \in (SUBSET Nat) \X (SUBSET Nat) /\ p[1] = 0 .. y /\ p[2] = 0 .. x
    BY <2>1
  <2>3. p \in StrictSubsetOrdering(Nat)
    BY <2>1, <2>2 DEF StrictSubsetOrdering
  <2>4. 0 .. y \in T
    OBVIOUS
  <2> HIDE DEF T
  <2> QED
    BY <1>2, <1>3, <2>3, <2>4
<1> QED
  BY <1>4

\* The claim takes the least of the jobs it may take: there is one.
LEMMA LeastJob ==
    ASSUME NEW S \in SUBSET Job, S # {}
    PROVE  Min(S) \in S
<1>1. \E x \in S : \A y \in S : x <= y
  BY LeastNatural, BoundsOK DEF Job
<1> QED
  BY <1>1 DEF Min

\* Where each step of a thread goes.
LEMMA ThreadNext ==
    ASSUME TypeOK, NEW t \in Thread, Handles(t)
    PROVE  \E next \in {Resting} \cup Request \cup Verdicts : Turns(t, next)
<1>1. CASE UploadStores(t)
  BY <1>1 DEF UploadStores, Request
<1>2. CASE EditBegins(t)
  BY <1>2 DEF EditBegins, Request
<1>3. CASE EditAdmitted(t)
  <2>1. [txn[t] EXCEPT !.at = "admitted"] \in Request
    BY <1>3, ThreadShape DEF EditAdmitted, Request
  <2> QED
    BY <1>3, <2>1 DEF EditAdmitted
<1>4. CASE DecisionBegins(t)
  BY <1>4 DEF DecisionBegins, Verdicts, TypeOK, ImageRow
<1>5. CASE DecisionLocks(t)
  <2>1. [txn[t] EXCEPT !.at = "locked", !.seen = AsLocked(t)] \in Verdicts
    BY <1>5, ThreadShape DEF DecisionLocks, Verdicts, AsLocked, TypeOK, ImageRow
  <2> QED
    BY <1>5, <2>1 DEF DecisionLocks
<1>6. CASE \/ UploadCommits(t) \/ UploadFails(t) \/ UploadUnanswered(t)
           \/ EditRefused(t) \/ EditCommits(t) \/ Decides(t)
           \/ DecisionRefused(t) \/ RequestDies(t)
  BY <1>6 DEF UploadCommits, UploadFails, UploadUnanswered, EditRefused,
     EditCommits, Decides, DecisionRefused, RequestDies
<1> QED
  BY <1>1, <1>2, <1>3, <1>4, <1>5, <1>6 DEF Handles

\* And of a worker.
LEMMA WorkerNext ==
    ASSUME TypeOK, NEW w \in Worker, Works(w) \/ WorkerDies(w)
    PROVE  \E next \in {Resting} \cup Claim \cup Process \cup Stored :
               Proceeds(w, next)
<1>1. CASE ClaimLocks(w)
  <2>1. Claimable \subseteq Job /\ Claimable # {}
    BY <1>1 DEF ClaimLocks, Claimable
  <2>2. \A x, y \in Claimable : x <= y \/ y <= x
    BY <2>1 DEF Job
  <2>3. Min(Claimable) \in Job
    BY <2>1, LeastJob
  <2> QED
    BY <1>1, <2>1, <2>3 DEF ClaimLocks, Claim
<1>2. CASE ClaimCommits(w)
  BY <1>2, WorkerShape DEF ClaimCommits, Process, Resting
<1>3. CASE Opens(w)
  <2>1. [step[w] EXCEPT !.at = "ready"] \in Process
    BY <1>3, WorkerShape DEF Opens, Process
  <2> QED
    BY <1>3, <2>1 DEF Opens
<1>4. CASE OpeningFails(w)
  <2>1. [step[w] EXCEPT !.at = "failing"] \in Process
    BY <1>4, WorkerShape DEF OpeningFails, Process
  <2> QED
    BY <1>4, <2>1 DEF OpeningFails
<1>5. CASE CallsProvider(w)
  <2>1. [step[w] EXCEPT !.at = "called"] \in Process
    BY <1>5, WorkerShape DEF CallsProvider, Process
  <2> QED
    BY <1>5, <2>1 DEF CallsProvider
<1>6. CASE CallFails(w)
  <2>1. [step[w] EXCEPT !.at = "failing"] \in Process
    BY <1>6, WorkerShape DEF CallFails, Process
  <2> QED
    BY <1>6, <2>1 DEF CallFails
<1>7. CASE StoresStudy(w)
  BY <1>7, WorkerShape DEF StoresStudy, Stored, Resting
<1>8. CASE CompletionFails(w) \/ CompletionUnanswered(w)
  BY <1>8, WorkerShape DEF CompletionFails, CompletionUnanswered, Process, Resting
<1>9. CASE Completes(w) \/ MarksFailed(w) \/ WorkerDies(w)
  BY <1>9 DEF Completes, MarksFailed, WorkerDies
<1> QED
  BY <1>1, <1>2, <1>3, <1>4, <1>5, <1>6, <1>7, <1>8, <1>9 DEF Works

\* The state stays well formed.
LEMMA ThreadType ==
    ASSUME TypeOK, NEW t \in Thread, Handles(t)
    PROVE  TypeOK'
<1>1. /\ txn' \in [Thread -> {Resting} \cup Request \cup Verdicts]
      /\ step' \in [Worker -> {Resting} \cup Claim \cup Process \cup Stored]
  BY ThreadNext, TurnsType
<1>2. \A i \in Image : [NoImage EXCEPT !.kind = "original"] \in ImageRow
  BY BoundsOK DEF ImageRow, NoImage, Review
<1>3. CASE UploadStores(t)
  BY <1>1, <1>3 DEF UploadStores, Put, TypeOK, Image, imgRows, jobRows, history
<1>4. CASE UploadCommits(t) \/ UploadFails(t) \/ UploadUnanswered(t)
  <2>1. txn[t].image \in Image
    BY <1>4, ThreadShape DEF UploadCommits, UploadFails, UploadUnanswered
  <2> QED
    BY <1>1, <1>2, <1>4, <2>1
       DEF UploadCommits, UploadFails, UploadUnanswered, AddsOriginal, Cleanup,
           TypeOK, imgRows, jobRows, history, files
<1>5. CASE EditCommits(t)
  <2>1. txn[t].image \in 0 .. MaxImages
    BY <1>5, ThreadShape DEF EditCommits, Image, Resting
  <2>2. [status |-> "queued", recent |-> TRUE, source |-> txn[t].image] \in JobRow
    BY <2>1 DEF JobRow
  <2> QED
    BY <1>1, <1>5, <2>2 DEF EditCommits, TypeOK, files, imgRows, history
<1>6. CASE Decides(t)
  <2>1. txn[t] \in Verdicts
    BY <1>6, ThreadShape DEF Decides
  <2>2. txn[t].image \in Image /\ txn[t].verdict \in Review
    BY <2>1 DEF Verdicts, Review
  <2>3. [image[txn[t].image] EXCEPT !.review = txn[t].verdict] \in ImageRow
    BY <2>2 DEF TypeOK, ImageRow
  <2>4. image' \in [Image -> ImageRow]
    BY <1>6, <2>2, <2>3 DEF Decides, TypeOK
  <2>5. reviews' \in [Image -> Nat]
    BY <1>6, <2>2 DEF Decides, TypeOK
  <2> QED
    BY <1>1, <1>6, <2>4, <2>5 DEF Decides, TypeOK, files, jobRows, history
<1>7. CASE \/ EditBegins(t) \/ EditAdmitted(t) \/ EditRefused(t)
           \/ DecisionBegins(t) \/ DecisionLocks(t) \/ DecisionRefused(t)
           \/ RequestDies(t)
  BY <1>1, <1>7 DEF EditBegins, EditAdmitted, EditRefused, DecisionBegins,
     DecisionLocks, DecisionRefused, RequestDies, TypeOK, files, imgRows,
     jobRows, history
<1> QED
  BY <1>3, <1>4, <1>5, <1>6, <1>7 DEF Handles

\* And with a worker.
LEMMA WorkerType ==
    ASSUME TypeOK, NEW w \in Worker, Works(w) \/ WorkerDies(w)
    PROVE  TypeOK'
<1>1. /\ txn' \in [Thread -> {Resting} \cup Request \cup Verdicts]
      /\ step' \in [Worker -> {Resting} \cup Claim \cup Process \cup Stored]
  BY WorkerNext, ProceedsType
<1>2. ASSUME step[w] # Resting, NEW status \in {"processing", "completed", "failed"},
             job' = [job EXCEPT ![step[w].job].status = status]
      PROVE  job' \in [Job -> JobRow]
  <2>1. step[w].job \in Job
    BY <1>2, WorkerShape
  <2>2. [job[step[w].job] EXCEPT !.status = status] \in JobRow
    BY <2>1 DEF TypeOK, JobRow
  <2> QED
    BY <1>2, <2>1, <2>2 DEF TypeOK
<1>3. CASE ClaimCommits(w)
  BY <1>1, <1>2, <1>3 DEF ClaimCommits, Resting, TypeOK, files, imgRows, history
<1>4. CASE CallsProvider(w)
  BY <1>1, <1>4, WorkerShape
     DEF CallsProvider, Resting, TypeOK, files, imgRows, jobRows
<1>5. CASE StoresStudy(w)
  BY <1>1, <1>5 DEF StoresStudy, Put, Image, TypeOK, imgRows, jobRows, history
<1>6. CASE Completes(w) \/ CompletionUnanswered(w)
  <2>1. step[w] # Resting /\ step[w].job \in Job /\ step[w].image \in Image /\ AddsStudy(w)
    BY <1>6, WorkerShape DEF Completes, CompletionUnanswered, Resting
  <2>2. [kind |-> "derived", of |-> step[w].job, review |-> "pending_review"] \in ImageRow
    BY <2>1, BoundsOK DEF ImageRow, Review, Job
  <2>3. image' \in [Image -> ImageRow] /\ usage' \in [Job -> Nat]
    BY <2>1, <2>2 DEF AddsStudy, TypeOK
  <2>4. job' \in [Job -> JobRow]
    BY <2>1, <1>2 DEF AddsStudy
  <2> QED
    BY <1>1, <1>6, <2>1, <2>3, <2>4 DEF Completes, CompletionUnanswered, Cleanup,
       TypeOK, files, history
<1>7. CASE CompletionFails(w)
  BY <1>1, <1>7 DEF CompletionFails, Cleanup, TypeOK, imgRows, jobRows, history
<1>8. CASE MarksFailed(w)
  <2>1. step[w].job \in Job
    BY <1>8, WorkerShape DEF MarksFailed, Resting
  <2>2. [job[step[w].job] EXCEPT !.status = IF @ = "processing" THEN "failed" ELSE @]
           \in JobRow
    BY <2>1 DEF TypeOK, JobRow
  <2> QED
    BY <1>1, <1>8, <2>1, <2>2
       DEF MarksFailed, FailedIfProcessing, TypeOK, files, imgRows, history
<1>9. CASE \/ ClaimLocks(w) \/ Opens(w) \/ OpeningFails(w) \/ CallFails(w)
           \/ WorkerDies(w)
  BY <1>1, <1>9 DEF ClaimLocks, Opens, OpeningFails, CallFails, WorkerDies,
     TypeOK, files, imgRows, jobRows, history
<1> QED
  BY <1>3, <1>4, <1>5, <1>6, <1>7, <1>8, <1>9 DEF Works

\* And when a day passes.
LEMMA DayType ==
    ASSUME TypeOK, DayPasses
    PROVE  TypeOK'
<1>1. PICK j \in Job : job' = [job EXCEPT ![j].recent = FALSE]
  BY DEF DayPasses
<1>2. [job[j] EXCEPT !.recent = FALSE] \in JobRow
  BY DEF TypeOK, JobRow
<1> QED
  BY <1>1, <1>2 DEF DayPasses, TypeOK, files, imgRows, history

-----------------------------------------------------------------------------
(* The bytes.                                                               *)

\* After a step nobody but those who had one before has an image in hand, and
\* only image i has changed, which none of them has.
OthersKeep(i) ==
    /\ drawn' = drawn
    /\ \A k \in Image \ {i} : image'[k] = image[k] /\ (k \in blob => k \in blob')
    /\ \A t \in Thread : Uploads(t)' =>
         Uploads(t) /\ txn'[t].image = txn[t].image /\ txn[t].image # i
    /\ \A w \in Worker : Stores(w)' =>
         Stores(w) /\ step'[w].image = step[w].image /\ step[w].image # i

\* Such a step keeps the ownership of the bytes.
LEMMA OthersKept ==
    ASSUME TypeOK, ImagesOwned, NEW i \in Image, i <= drawn, OthersKeep(i)
    PROVE  ImagesOwned'
<1>1. \A k \in Image : k > drawn' => image'[k] = NoImage
  BY DEF TypeOK, ImagesOwned, OthersKeep, Image
<1>2. \A k \in Image \ {i} : Fresh(k) => Fresh(k)'
  BY DEF OthersKeep, Fresh
<1>3. \A t \in Thread : Uploads(t) => txn[t].image \in Image
  BY ThreadShape DEF Uploads, Resting
<1>4. \A w \in Worker : Stores(w) => step[w].image \in Image
  BY WorkerShape DEF Stores
<1>5. \A t \in Thread : Uploads(t)' => Fresh(txn[t].image)'
  BY <1>2, <1>3 DEF ImagesOwned, OthersKeep
<1>6. \A w \in Worker : Stores(w)' => Fresh(step[w].image)'
  BY <1>2, <1>4 DEF ImagesOwned, OthersKeep
<1> QED
  BY <1>1, <1>5, <1>6 DEF ImagesOwned, OthersKeep, Fresh

\* A thread or a worker has put a new image.
LEMMA PutKept ==
    ASSUME TypeOK, ImagesOwned, NEW i \in Image, Put(i), UNCHANGED image,
           \/ \E t \in Thread :
                 /\ Turns(t, [at |-> "uploading", image |-> i])
           \/ \E w \in Worker, j \in Job :
                 /\ Proceeds(w, [at |-> "stored", job |-> j, image |-> i])
    PROVE  ImagesOwned'
<1>1. /\ i = drawn + 1 /\ drawn' = i /\ drawn \in Nat
      /\ blob' = blob \cup {i} /\ image' = image
  BY DEF Put, TypeOK
<1>2. image[i] = NoImage /\ \A k \in Image : k > drawn' => image'[k] = NoImage
  BY <1>1 DEF ImagesOwned, Image
<1>3. Fresh(i)' /\ \A k \in Image : Fresh(k) => Fresh(k)' /\ k # i
  BY <1>1, <1>2 DEF Fresh, Image
<1>4. \A t \in Thread : Uploads(t) => txn[t].image \in Image
  BY ThreadShape DEF Uploads, Resting
<1>5. \A w \in Worker : Stores(w) => step[w].image \in Image
  BY WorkerShape DEF Stores
<1>6. CASE \E t \in Thread : Turns(t, [at |-> "uploading", image |-> i])
  <2>1. PICK t \in Thread : Turns(t, [at |-> "uploading", image |-> i])
    BY <1>6
  <2>2. /\ txn'[t].at = "uploading" /\ txn'[t].image = i /\ step' = step
        /\ \A u \in Thread \ {t} : txn'[u] = txn[u]
    BY <2>1 DEF Turns, TypeOK
  <2>3. \A u \in Thread : Uploads(u)' => u = t \/ Uploads(u)
    BY <2>2 DEF Uploads
  <2>4. \A u \in Thread : Uploads(u)' => Fresh(txn[u].image)'
    BY <1>3, <1>4, <2>2, <2>3 DEF ImagesOwned, Fresh
  <2>5. \A w \in Worker : Stores(w)' => Stores(w) /\ Fresh(step[w].image)' /\ step'[w].image # i
    BY <1>3, <1>5, <2>2 DEF ImagesOwned, Fresh, Stores
  <2>6. \A u \in Thread : u # t /\ Uploads(u)' => Uploads(u) /\ txn'[u].image # i
    BY <1>3, <1>4, <2>2 DEF ImagesOwned, Uploads
  <2> QED
    BY <1>2, <2>2, <2>3, <2>4, <2>5, <2>6 DEF ImagesOwned
<1>7. CASE \E w \in Worker, j \in Job :
               Proceeds(w, [at |-> "stored", job |-> j, image |-> i])
  <2>1. PICK w \in Worker, j \in Job :
               Proceeds(w, [at |-> "stored", job |-> j, image |-> i])
    BY <1>7
  <2>2. /\ step'[w].at = "stored" /\ step'[w].image = i /\ txn' = txn
        /\ \A v \in Worker \ {w} : step'[v] = step[v]
    BY <2>1 DEF Proceeds, TypeOK
  <2>3. \A v \in Worker : Stores(v)' => v = w \/ Stores(v)
    BY <2>2 DEF Stores
  <2>4. \A v \in Worker : Stores(v)' => Fresh(step[v].image)'
    BY <1>3, <1>5, <2>2, <2>3 DEF ImagesOwned, Fresh
  <2>5. \A t \in Thread : Uploads(t)' => Uploads(t) /\ Fresh(txn[t].image)' /\ txn'[t].image # i
    BY <1>3, <1>4, <2>2 DEF ImagesOwned, Fresh, Uploads
  <2>6. \A v \in Worker : v # w /\ Stores(v)' => Stores(v) /\ step'[v].image # i
    BY <1>3, <1>5, <2>2 DEF ImagesOwned, Stores
  <2> QED
    BY <1>2, <2>2, <2>3, <2>4, <2>5, <2>6 DEF ImagesOwned
<1> QED
  BY <1>6, <1>7

\* A step of one thread or worker leaves the others where they are.
LEMMA ThreadAlone ==
    ASSUME TypeOK, NEW t \in Thread, Handles(t)
    PROVE  step' = step /\ \A u \in Thread \ {t} : txn'[u] = txn[u]
  BY ThreadNext, TurnsType

\* And the other way round.
LEMMA WorkerAlone ==
    ASSUME TypeOK, NEW w \in Worker, Works(w) \/ WorkerDies(w)
    PROVE  txn' = txn /\ \A v \in Worker \ {w} : step'[v] = step[v]
  BY WorkerNext, ProceedsType

\* Every step of a thread keeps the ownership of the bytes.
LEMMA ImagesThread ==
    ASSUME IInv, NEW t \in Thread, Handles(t)
    PROVE  ImagesOwned'
<1>1. TypeOK /\ ImagesOwned
  BY DEF IInv
<1>2. step' = step /\ \A u \in Thread \ {t} : txn'[u] = txn[u]
  BY <1>1, ThreadAlone
<1>3. CASE UploadStores(t)
  BY <1>1, <1>3, PutKept DEF UploadStores, imgRows
<1>4. CASE UploadCommits(t) \/ UploadFails(t) \/ UploadUnanswered(t)
  <2> DEFINE i == txn[t].image
  <2>1. i \in Image /\ Uploads(t)
    BY <1>1, <1>4, ThreadShape
       DEF UploadCommits, UploadFails, UploadUnanswered, Uploads, Resting
  <2>2. txn'[t] = Resting
    BY <1>1, <1>4, TurnsType DEF UploadCommits, UploadFails, UploadUnanswered
  <2>3. drawn' = drawn /\ \A k \in Image \ {i} : k \in blob => k \in blob'
    BY <1>4 DEF UploadCommits, UploadFails, UploadUnanswered, Cleanup, files
  <2>4. \A k \in Image \ {i} : image'[k] = image[k]
    BY <1>1, <1>4
       DEF UploadCommits, UploadFails, UploadUnanswered, AddsOriginal, imgRows, TypeOK
  <2>5. OthersKeep(i)
    BY <1>1, <1>2, <2>1, <2>2, <2>3, <2>4
       DEF OthersKeep, ImagesOwned, Uploads, Stores, Resting
  <2> QED
    BY <1>1, <2>1, <2>5, OthersKept DEF ImagesOwned, Fresh
<1>5. ASSUME UNCHANGED <<blob, drawn>>, ~Uploads(t)',
             NEW i \in Image, image[i] # NoImage,
             \A k \in Image \ {i} : image'[k] = image[k]
      PROVE  ImagesOwned'
  <2>1. \A u \in Thread : Uploads(u)' => Uploads(u) /\ txn'[u].image = txn[u].image
    BY <1>2, <1>5 DEF Uploads
  <2>2. i <= drawn
    BY <1>1, <1>5 DEF ImagesOwned, TypeOK, Image
  <2>3. OthersKeep(i)
    BY <1>1, <1>2, <1>5, <2>1 DEF OthersKeep, ImagesOwned, Fresh, Stores
  <2> QED
    BY <1>1, <2>2, <2>3, OthersKept
<1>6. CASE Decides(t)
  <2>1. txn[t].image \in Image /\ txn[t].at = "locked"
    BY <1>1, <1>6, ThreadShape DEF Decides, Resting
  <2>2. image[txn[t].image].kind = "derived"
    BY <2>1 DEF IInv, LockedAsSeen
  <2>3. image[txn[t].image] # NoImage
    BY <2>2 DEF NoImage
  <2>4. ~Uploads(t)'
    BY <1>1, <1>6, TurnsType DEF Decides, Uploads, Resting
  <2>5. \A k \in Image \ {txn[t].image} : image'[k] = image[k]
    BY <1>1, <1>6 DEF Decides, TypeOK
  <2> QED
    BY <1>5, <1>6, <2>1, <2>3, <2>4, <2>5 DEF Decides, files
<1>7. CASE \/ EditBegins(t) \/ EditAdmitted(t) \/ EditRefused(t) \/ EditCommits(t)
           \/ DecisionBegins(t) \/ DecisionLocks(t) \/ DecisionRefused(t)
           \/ RequestDies(t)
  <2>1. UNCHANGED <<blob, drawn, image>>
    BY <1>7 DEF EditBegins, EditAdmitted, EditRefused, EditCommits,
       DecisionBegins, DecisionLocks, DecisionRefused, RequestDies, files, imgRows
  <2>2. ~Uploads(t)'
    <3>1. CASE EditAdmitted(t)
      BY <1>1, <3>1, ThreadShape DEF EditAdmitted, Turns, Uploads, TypeOK, Request
    <3>2. CASE DecisionLocks(t)
      BY <1>1, <3>2, ThreadShape DEF DecisionLocks, Turns, Uploads, TypeOK, Verdicts
    <3> QED
      BY <1>1, <1>7, <3>1, <3>2 DEF EditBegins, EditRefused, EditCommits,
         DecisionBegins, DecisionRefused, RequestDies, Turns, Uploads, Resting,
         TypeOK
  <2>3. \A u \in Thread : Uploads(u)' => Uploads(u) /\ txn'[u] = txn[u]
    BY <1>2, <2>2 DEF Uploads
  <2> QED
    BY <1>1, <1>2, <2>1, <2>3 DEF ImagesOwned, Fresh, Stores
<1> QED
  BY <1>3, <1>4, <1>6, <1>7 DEF Handles

\* And every step of a worker.
LEMMA ImagesWorker ==
    ASSUME IInv, NEW w \in Worker, Works(w) \/ WorkerDies(w)
    PROVE  ImagesOwned'
<1>1. TypeOK /\ ImagesOwned
  BY DEF IInv
<1>2. txn' = txn /\ \A v \in Worker \ {w} : step'[v] = step[v]
  BY <1>1, WorkerAlone
<1>3. CASE StoresStudy(w)
  <2>1. step[w].job \in Job
    BY <1>1, <1>3, WorkerShape DEF StoresStudy, Resting
  <2> QED
    BY <1>1, <1>3, <2>1, PutKept DEF StoresStudy, imgRows
<1>4. CASE Completes(w) \/ CompletionFails(w) \/ CompletionUnanswered(w)
  <2> DEFINE i == step[w].image
  <2>1. i \in Image /\ Stores(w)
    BY <1>1, <1>4, WorkerShape
       DEF Completes, CompletionFails, CompletionUnanswered, Stores
  <2>2. ~Stores(w)'
    BY <1>1, <1>4 DEF Completes, CompletionFails, CompletionUnanswered,
       Proceeds, Stores, Resting, TypeOK
  <2>3. drawn' = drawn /\ \A k \in Image \ {i} : k \in blob => k \in blob'
    BY <1>4 DEF Completes, CompletionFails, CompletionUnanswered, Cleanup, files
  <2>4. \A k \in Image \ {i} : image'[k] = image[k]
    BY <1>1, <1>4 DEF Completes, CompletionFails, CompletionUnanswered, AddsStudy,
       imgRows, TypeOK
  <2>5. \A v \in Worker : Stores(v)' => v # w /\ Stores(v) /\ step'[v] = step[v]
    BY <1>2, <2>2 DEF Stores
  <2>6. OthersKeep(i)
    BY <1>1, <1>2, <2>1, <2>3, <2>4, <2>5 DEF OthersKeep, ImagesOwned, Uploads
  <2> QED
    BY <1>1, <2>1, <2>6, OthersKept DEF ImagesOwned, Fresh
<1>5. CASE \/ ClaimLocks(w) \/ ClaimCommits(w) \/ Opens(w) \/ OpeningFails(w)
           \/ CallsProvider(w) \/ CallFails(w) \/ MarksFailed(w) \/ WorkerDies(w)
  <2>1. UNCHANGED <<blob, drawn, image>>
    BY <1>5 DEF ClaimLocks, ClaimCommits, Opens, OpeningFails, CallsProvider,
       CallFails, MarksFailed, WorkerDies, files, imgRows
  <2>2. ~Stores(w)'
    BY <1>1, <1>5, WorkerShape DEF ClaimLocks, ClaimCommits, Opens, OpeningFails,
       CallsProvider, CallFails, MarksFailed, WorkerDies, Proceeds, Stores,
       Resting, TypeOK, Claim, Process
  <2>3. \A v \in Worker : Stores(v)' => Stores(v) /\ step'[v] = step[v]
    BY <1>2, <2>2 DEF Stores
  <2> QED
    BY <1>1, <1>2, <2>1, <2>3 DEF ImagesOwned, Fresh, Uploads
<1> QED
  BY <1>3, <1>4, <1>5 DEF Works

-----------------------------------------------------------------------------
(* The quota.                                                               *)

\* The jobs are numbered up to a bound.
LEMMA RecentFinite == IsFiniteSet(Recent) /\ Cardinality(Recent) \in Nat
<1>1. IsFiniteSet(Job) /\ Recent \in SUBSET Job
  BY FS_Interval, BoundsOK DEF Job, Recent
<1> QED
  BY <1>1, FS_Subset, FS_CardinalityType

\* Where no job gets recent and nobody is admitted, nothing is to be shown.
LEMMA QuotaFrame ==
    ASSUME TypeOK, OneAdmitted, QuotaKept,
           Recent' \subseteq Recent,
           \A t \in Thread : Admits(t)' => Admits(t)
    PROVE  OneAdmitted' /\ QuotaKept'
<1>1. Cardinality(Recent') <= Cardinality(Recent) /\ Cardinality(Recent') \in Nat
  BY RecentFinite, FS_Subset, FS_CardinalityType
<1>2. Cardinality(Recent) \in Nat /\ Quota \in Nat
  BY RecentFinite, BoundsOK
<1> QED
  BY <1>1, <1>2 DEF OneAdmitted, QuotaKept

\* A job is inserted by the one thread admitted, into the room it was left.
LEMMA QuotaThread ==
    ASSUME IInv, NEW t \in Thread, Handles(t)
    PROVE  OneAdmitted' /\ QuotaKept'
<1>1. TypeOK /\ OneAdmitted /\ QuotaKept
  BY DEF IInv
<1>2. \A u \in Thread \ {t} : txn'[u] = txn[u]
  BY <1>1, ThreadAlone
<1>3. Cardinality(Recent) \in Nat /\ Quota \in Nat
  BY RecentFinite, BoundsOK
<1>4. CASE EditAdmitted(t)
  <2>1. Recent' = Recent
    BY <1>4 DEF EditAdmitted, Recent, jobRows
  <2>2. \A u \in Thread : Admits(u)' => u = t
    BY <1>2, <1>4 DEF EditAdmitted, TenantFree, Admits
  <2> QED
    BY <1>1, <1>4, <2>1, <2>2 DEF OneAdmitted, QuotaKept, EditAdmitted
<1>5. CASE EditCommits(t)
  <2>1. PICK j \in Job :
          job' = [job EXCEPT ![j] = [status |-> "queued", recent |-> TRUE,
                                     source |-> txn[t].image]]
    BY <1>5 DEF EditCommits
  <2>2. Recent' = Recent \cup {j}
    BY <1>1, <2>1 DEF Recent, TypeOK
  <2>3. Admits(t) /\ Cardinality(Recent) < Quota
    BY <1>1, <1>5 DEF EditCommits, Admits, OneAdmitted
  <2>4. Cardinality(Recent \cup {j}) \in {Cardinality(Recent), Cardinality(Recent) + 1}
    <3> DEFINE S == Recent
    <3>1. IsFiniteSet(S)
      BY RecentFinite
    <3> HIDE DEF S
    <3>2. Cardinality(S \cup {j}) = IF j \in S THEN Cardinality(S) ELSE Cardinality(S) + 1
      BY <3>1, FS_AddElement
    <3> QED
      BY <3>2 DEF S
  <2>5. Cardinality(Recent') \in Nat /\ Cardinality(Recent') <= Cardinality(Recent) + 1
    BY <2>2, <2>4, <1>3
  <2>6. \A u \in Thread : ~Admits(u)'
    <3>1. ~Admits(t)'
      BY <1>1, <1>5, TurnsType DEF EditCommits, Admits, Resting
    <3> QED
      BY <1>1, <1>2, <2>3, <3>1 DEF Admits, OneAdmitted
  <2> QED
    BY <1>3, <2>3, <2>5, <2>6 DEF OneAdmitted, QuotaKept
<1>6. CASE \/ UploadStores(t) \/ UploadCommits(t) \/ UploadFails(t)
           \/ UploadUnanswered(t) \/ EditBegins(t) \/ EditRefused(t)
           \/ DecisionBegins(t) \/ DecisionLocks(t) \/ Decides(t)
           \/ DecisionRefused(t) \/ RequestDies(t)
  <2>1. Recent' = Recent
    BY <1>6 DEF UploadStores, UploadCommits, UploadFails, UploadUnanswered,
       EditBegins, EditRefused, DecisionBegins, DecisionLocks, Decides,
       DecisionRefused, RequestDies, jobRows, Recent
  <2>2. ~Admits(t)'
    <3>1. CASE DecisionLocks(t)
      BY <1>1, <3>1, ThreadShape DEF DecisionLocks, Turns, Admits, TypeOK, Verdicts
    <3> QED
      BY <1>1, <1>6, <3>1 DEF UploadStores, UploadCommits, UploadFails,
         UploadUnanswered, EditBegins, EditRefused, DecisionBegins, Decides,
         DecisionRefused, RequestDies, Turns, Admits, Resting, TypeOK
  <2> QED
    BY <1>1, <1>2, <2>1, <2>2, QuotaFrame DEF Admits
<1> QED
  BY <1>4, <1>5, <1>6 DEF Handles

\* Nobody else adds a recent job.
LEMMA QuotaOthers ==
    ASSUME IInv, DayPasses \/ \E w \in Worker : Works(w) \/ WorkerDies(w)
    PROVE  OneAdmitted' /\ QuotaKept'
<1>1. TypeOK /\ OneAdmitted /\ QuotaKept
  BY DEF IInv
<1>2. txn' = txn
  BY <1>1, WorkerAlone DEF DayPasses
<1>3. Recent' \subseteq Recent
  <2>1. CASE DayPasses
    BY <1>1, <2>1 DEF DayPasses, Recent, TypeOK
  <2>2. ASSUME NEW w \in Worker, Works(w) \/ WorkerDies(w)
        PROVE  Recent' \subseteq Recent
    <3>1. ASSUME NEW status, job' = [job EXCEPT ![step[w].job].status = status]
          PROVE  Recent' \subseteq Recent
      BY <1>1, <3>1 DEF Recent, TypeOK, JobRow
    <3>2. CASE ClaimCommits(w)
      BY <3>1, <3>2 DEF ClaimCommits
    <3>3. CASE Completes(w) \/ CompletionUnanswered(w)
      BY <3>1, <3>3 DEF Completes, CompletionUnanswered, AddsStudy
    <3>4. CASE MarksFailed(w)
      BY <3>1, <3>4 DEF MarksFailed, FailedIfProcessing
    <3>5. CASE UNCHANGED job
      BY <3>5 DEF Recent
    <3> QED
      BY <2>2, <3>2, <3>3, <3>4, <3>5 DEF Works, ClaimLocks, Opens, OpeningFails,
         CallsProvider, CallFails, StoresStudy, CompletionFails, WorkerDies, jobRows
  <2> QED
    BY <2>1, <2>2
<1> QED
  BY <1>1, <1>2, <1>3, QuotaFrame DEF Admits

-----------------------------------------------------------------------------
(* The reviews.                                                             *)

\* A study stays a study, and nobody but the thread that has the lock of its
\* row gives it a verdict.
LEMMA ReviewsThread ==
    ASSUME IInv, NEW t \in Thread, Handles(t)
    PROVE  /\ LockedAsSeen'
           /\ \A i \in Image :
                image[i].review \in Verdict => image'[i] = image[i]
<1>1. TypeOK /\ LockedAsSeen /\ ImagesOwned
  BY DEF IInv
<1>2. \A u \in Thread \ {t} : txn'[u] = txn[u]
  BY <1>1, ThreadAlone
<1>3. \A u \in Thread : txn[u].at \in {"deciding", "locked"} => txn[u].image \in Image
  BY <1>1, ThreadShape DEF Resting
<1>4. CASE UploadCommits(t) \/ UploadUnanswered(t)
  <2>1. txn[t].image \in Image /\ image[txn[t].image] = NoImage
    BY <1>1, <1>4, ThreadShape
       DEF UploadCommits, UploadUnanswered, ImagesOwned, Uploads, Fresh, Resting
  <2>2. \A i \in Image : image[i] # NoImage => image'[i] = image[i]
    BY <1>1, <1>4, <2>1 DEF UploadCommits, UploadUnanswered, AddsOriginal, TypeOK
  <2>3. txn'[t].at = "rest"
    BY <1>1, <1>4, TurnsType DEF UploadCommits, UploadUnanswered, Resting
  <2>4. \A u \in Thread : txn'[u].at \in {"deciding", "locked"} =>
          u # t /\ txn'[u] = txn[u] /\ image'[txn[u].image] = image[txn[u].image]
    BY <1>1, <1>2, <1>3, <2>2, <2>3 DEF LockedAsSeen, NoImage
  <2> QED
    BY <1>1, <2>2, <2>4 DEF LockedAsSeen, Locks, Verdict, NoImage
<1>5. CASE Decides(t)
  <2> DEFINE i == txn[t].image
  <2>1. i \in Image /\ Locks(t) /\ image[i].review = "pending_review"
    BY <1>1, <1>3, <1>5 DEF Decides, LockedAsSeen, Locks
  <2>2. \A k \in Image \ {i} : image'[k] = image[k]
    BY <1>1, <1>5 DEF Decides, TypeOK
  <2>3. image'[i].kind = image[i].kind
    BY <1>1, <1>5, <2>1 DEF Decides, TypeOK, ImageRow
  <2>4. txn'[t].at = "rest"
    BY <1>1, <1>5, TurnsType DEF Decides, Resting
  <2>5. \A u \in Thread : txn'[u].at \in {"deciding", "locked"} =>
          /\ u # t /\ txn'[u] = txn[u]
          /\ txn[u].image \in Image
          /\ image'[txn[u].image].kind = image[txn[u].image].kind
    BY <1>2, <1>3, <2>2, <2>3, <2>4
  <2>6. \A u \in Thread : Locks(u)' => Locks(u) /\ txn[u].image # i
    BY <1>1, <2>1, <2>5 DEF LockedAsSeen, Locks
  <2> QED
    BY <1>1, <2>1, <2>2, <2>5, <2>6 DEF LockedAsSeen, Locks, Verdict
<1>6. CASE DecisionBegins(t)
  <2>1. image' = image /\ txn'[t].at = "deciding" /\ image[txn'[t].image].kind = "derived"
    BY <1>1, <1>6 DEF DecisionBegins, Turns, TypeOK, imgRows
  <2> QED
    BY <1>1, <1>2, <2>1 DEF LockedAsSeen, Locks
<1>7. CASE DecisionLocks(t)
  <2>1. txn[t] \in Verdicts /\ txn[t].at = "deciding"
    BY <1>1, <1>7, ThreadShape DEF DecisionLocks
  <2>2. /\ image' = image /\ txn'[t].at = "locked" /\ txn'[t].image = txn[t].image
        /\ txn'[t].seen = image[txn[t].image].review
    BY <1>1, <1>7, <2>1 DEF DecisionLocks, AsLocked, Turns, TypeOK, Verdicts, imgRows
  <2>3. \A u \in Thread \ {t} : Locks(u) => txn[u].image # txn[t].image
    BY <1>7 DEF DecisionLocks, ImageFree, Locks
  <2> QED
    BY <1>1, <1>2, <2>1, <2>2, <2>3 DEF LockedAsSeen, Locks
<1>8. CASE \/ UploadStores(t) \/ UploadFails(t) \/ EditBegins(t)
           \/ EditAdmitted(t) \/ EditRefused(t) \/ EditCommits(t)
           \/ DecisionRefused(t) \/ RequestDies(t)
  <2>1. image' = image
    BY <1>8 DEF UploadStores, UploadFails, EditBegins, EditAdmitted,
       EditRefused, EditCommits, DecisionRefused, RequestDies, imgRows
  <2>2. txn'[t].at \notin {"deciding", "locked"}
    <3>1. CASE EditAdmitted(t)
      BY <1>1, <3>1, ThreadShape DEF EditAdmitted, Turns, TypeOK, Request
    <3> QED
      BY <1>1, <1>8, <3>1 DEF UploadStores, UploadFails, EditBegins, EditRefused,
         EditCommits, DecisionRefused, RequestDies, Turns, Resting, TypeOK
  <2> QED
    BY <1>1, <1>2, <2>1, <2>2 DEF LockedAsSeen, Locks
<1> QED
  BY <1>4, <1>5, <1>6, <1>7, <1>8 DEF Handles

\* Workers add studies and review none.
LEMMA ReviewsOthers ==
    ASSUME IInv, DayPasses \/ \E w \in Worker : Works(w) \/ WorkerDies(w)
    PROVE  /\ LockedAsSeen'
           /\ \A i \in Image :
                image[i].review \in Verdict => image'[i] = image[i]
<1>1. TypeOK /\ LockedAsSeen /\ ImagesOwned
  BY DEF IInv
<1>2. txn' = txn
  BY <1>1, WorkerAlone DEF DayPasses
<1>3. \A i \in Image : image[i] # NoImage => image'[i] = image[i]
  <2>1. CASE UNCHANGED image
    BY <2>1
  <2>2. ASSUME NEW w \in Worker, Completes(w) \/ CompletionUnanswered(w)
        PROVE  \A i \in Image : image[i] # NoImage => image'[i] = image[i]
    <3>1. image[step[w].image] = NoImage
      BY <1>1, <2>2 DEF Completes, CompletionUnanswered, ImagesOwned, Stores, Fresh
    <3> QED
      BY <1>1, <2>2, <3>1 DEF Completes, CompletionUnanswered, AddsStudy, TypeOK
  <2> QED
    BY <2>1, <2>2 DEF DayPasses, Works, ClaimLocks, ClaimCommits, Opens,
       OpeningFails, CallsProvider, CallFails, StoresStudy, CompletionFails,
       MarksFailed, WorkerDies, imgRows
<1>4. \A u \in Thread : txn[u].at \in {"deciding", "locked"} =>
        image'[txn[u].image] = image[txn[u].image]
  BY <1>1, <1>3, ThreadShape DEF LockedAsSeen, NoImage, Resting
<1> QED
  BY <1>1, <1>2, <1>3, <1>4 DEF LockedAsSeen, Locks, Verdict, NoImage

-----------------------------------------------------------------------------
(* The claims and what is paid for.                                         *)

\* The part of the invariant that is about claims and calls.
Paying == HeldQueued /\ OneEngaged /\ Unpaid /\ PaidOnce

\* The claims and engagements of workers that do not move.
LEMMA HeldFrame ==
    ASSUME HeldQueued,
           \A v \in Worker : Claims(v)' =>
               /\ Claims(v) /\ step'[v] = step[v]
               /\ \A j \in step[v].held : job'[j].status = "queued"
    PROVE  HeldQueued'
<1>1. \A v \in Worker : Claims(v)' =>
        /\ step'[v].job \in step'[v].held
        /\ \A j \in step'[v].held : job'[j].status = "queued"
  BY DEF HeldQueued
<1>2. \A u, v \in Worker : Claims(u)' /\ Claims(v)' /\ u # v =>
        step'[u].held \cap step'[v].held = {}
  BY DEF HeldQueued
<1> QED
  BY <1>1, <1>2 DEF HeldQueued

\* What OneEngaged says of one worker.
Fits(at, status) ==
    IF at = "failing" THEN status \in {"processing", "completed"}
                      ELSE status = "processing"

\* Workers that keep the job they have, at the status they left it.
LEMMA EngagedFrame ==
    ASSUME OneEngaged,
           \A v \in Worker : Engaged(v)' =>
               /\ Engaged(v) /\ step'[v] = step[v]
               /\ job'[step[v].job].status = job[step[v].job].status
    PROVE  OneEngaged'
<1>1. \A v \in Worker : Engaged(v)' => Fits(step'[v].at, job'[step'[v].job].status)
  BY DEF OneEngaged, Fits
<1>2. \A u, v \in Worker : Engaged(u)' /\ Engaged(v)' /\ step'[u].job = step'[v].job
        => u = v
  BY DEF OneEngaged
<1> QED
  BY <1>1, <1>2 DEF OneEngaged, Fits

\* A step outside the workers leaves every status as it is, but for a job that
\* is requested.
LEMMA PayingOthers ==
    ASSUME IInv, DayPasses \/ \E t \in Thread : Handles(t)
    PROVE  Paying'
<1>1. TypeOK /\ HeldQueued /\ OneEngaged /\ Unpaid /\ PaidOnce
  BY DEF IInv
<1>2. step' = step
  BY <1>1, ThreadAlone DEF DayPasses
<1>3. calls' = calls
  BY DEF DayPasses, Handles, UploadStores, UploadCommits, UploadFails,
     UploadUnanswered, EditBegins, EditAdmitted, EditRefused, EditCommits,
     DecisionBegins, DecisionLocks, Decides, DecisionRefused, RequestDies, history
<1>4. \A j \in Job : job'[j].status = job[j].status
          \/ (job[j].status = "absent" /\ job'[j].status = "queued")
  <2>1. CASE DayPasses
    <3>1. PICK k \in Job : job' = [job EXCEPT ![k].recent = FALSE]
      BY <2>1 DEF DayPasses
    <3>2. job'[k] = [job[k] EXCEPT !.recent = FALSE]
      BY <1>1, <3>1 DEF TypeOK
    <3>3. job'[k].status = job[k].status
      BY <1>1, <3>2 DEF TypeOK, JobRow
    <3> QED
      BY <1>1, <3>1, <3>3 DEF TypeOK
  <2>2. ASSUME NEW t \in Thread, EditCommits(t)
        PROVE  \A j \in Job : job'[j].status = job[j].status
          \/ (job[j].status = "absent" /\ job'[j].status = "queued")
    <3>1. PICK k \in Job :
            /\ job[k] = NoJob
            /\ job' = [job EXCEPT ![k] = [status |-> "queued", recent |-> TRUE,
                                         source |-> txn[t].image]]
      BY <2>2 DEF EditCommits
    <3>2. job[k].status = "absent" /\ job'[k].status = "queued"
      BY <1>1, <3>1 DEF TypeOK, NoJob
    <3> QED
      BY <1>1, <3>1, <3>2 DEF TypeOK
  <2>3. CASE UNCHANGED job
    BY <2>3
  <2> QED
    BY <2>1, <2>2, <2>3 DEF Handles, UploadStores, UploadCommits, UploadFails,
     UploadUnanswered, EditBegins, EditAdmitted, EditRefused,
     DecisionBegins, DecisionLocks, Decides, DecisionRefused, RequestDies, jobRows
<1>5. \A w \in Worker : /\ Claims(w) => step[w].held \subseteq Job
                        /\ Engaged(w) => step[w].job \in Job
  BY <1>1, WorkerShape DEF Claims, Engaged, Resting
<1>6. HeldQueued'
  <2>1. \A v \in Worker : Claims(v) =>
          \A j \in step[v].held : job'[j].status = "queued"
    <3> SUFFICES ASSUME NEW v \in Worker, Claims(v), NEW j \in step[v].held
                 PROVE  job'[j].status = "queued"
      OBVIOUS
    <3>1. j \in Job /\ job[j].status = "queued"
      BY <1>1, <1>5 DEF HeldQueued
    <3> QED
      BY <1>4, <3>1
  <2> QED
    BY <1>1, <1>2, <2>1, HeldFrame DEF Claims
<1>7. OneEngaged'
  <2>1. \A v \in Worker : Engaged(v) =>
          job'[step[v].job].status = job[step[v].job].status
    <3> SUFFICES ASSUME NEW v \in Worker, Engaged(v)
                 PROVE  job'[step[v].job].status = job[step[v].job].status
      OBVIOUS
    <3>1. step[v].job \in Job /\ job[step[v].job].status # "absent"
      BY <1>1, <1>5 DEF OneEngaged
    <3> QED
      BY <1>4, <3>1
  <2> QED
    BY <1>1, <1>2, <2>1, EngagedFrame DEF Engaged
<1>8. Unpaid' /\ PaidOnce'
  BY <1>1, <1>2, <1>3, <1>4 DEF Unpaid, PaidOnce
<1> QED
  BY <1>6, <1>7, <1>8 DEF Paying

\* A worker leaves its claim, or the edit it is engaged in, or goes on with it:
\* the job it has, and no other, may change.
LEMMA PayingMoves ==
    ASSUME IInv, NEW w \in Worker, Engaged(w), TypeOK',
           \A v \in Worker \ {w} : step'[v] = step[v],
           ~Claims(w)',
           Engaged(w)' => step'[w].job = step[w].job,
           \A j \in Job \ {step[w].job} :
               job'[j].status = job[j].status /\ calls'[j] = calls[j],
           job'[step[w].job].status \in {"processing", "completed", "failed"},
           step'[w].at = "failing" => job'[step[w].job].status # "failed",
           step'[w].at \in {"claimed", "ready", "called", "stored"} =>
               job'[step[w].job].status = "processing",
           step'[w].at \in {"claimed", "ready"} => calls'[step[w].job] = 0,
           calls'[step[w].job] <= 1
    PROVE  Paying'
<1> DEFINE k == step[w].job
<1>1. TypeOK /\ HeldQueued /\ OneEngaged /\ Unpaid /\ PaidOnce
  BY DEF IInv
<1>2. k \in Job /\ job[k].status \in {"processing", "completed"}
  BY <1>1, WorkerShape DEF Engaged, OneEngaged, Resting
<1>3. \A v \in Worker : /\ Claims(v) => step[v].held \subseteq Job
                        /\ Engaged(v) => step[v].job \in Job
  BY <1>1, WorkerShape DEF Claims, Engaged, Resting
<1>4. \A v \in Worker : Claims(v)' => v # w /\ Claims(v) /\ step'[v] = step[v]
  BY DEF Claims
<1>5. \A v \in Worker \ {w} : Engaged(v)' =>
        /\ Engaged(v) /\ step'[v] = step[v] /\ step[v].job # k
  BY <1>1 DEF OneEngaged, Engaged
<1>6. HeldQueued'
  <2>1. \A v \in Worker : Claims(v)' => k \notin step[v].held
    BY <1>1, <1>2, <1>4 DEF HeldQueued
  <2>2. \A v \in Worker : Claims(v)' =>
          \A j \in step[v].held : job'[j].status = "queued"
    BY <1>1, <1>3, <1>4, <2>1 DEF HeldQueued
  <2> QED
    BY <1>1, <1>4, <2>2, HeldFrame
<1>7. OneEngaged'
  <2>1. \A v \in Worker : Engaged(v)' =>
          Fits(step'[v].at, job'[step'[v].job].status)
    <3> SUFFICES ASSUME NEW v \in Worker, Engaged(v)'
                 PROVE  Fits(step'[v].at, job'[step'[v].job].status)
      OBVIOUS
    <3>1. CASE v = w
      BY <1>2, <3>1 DEF Fits, Engaged
    <3>2. CASE v # w
      <4>1. /\ Engaged(v) /\ step'[v] = step[v]
            /\ step[v].job \in Job \ {k}
        BY <1>3, <1>5, <3>2
      <4>2. Fits(step[v].at, job[step[v].job].status)
        BY <1>1, <4>1 DEF OneEngaged, Fits
      <4> QED
        BY <4>1, <4>2
    <3> QED
      BY <3>1, <3>2
  <2>2. \A u, v \in Worker : Engaged(u)' /\ Engaged(v)' /\ step'[u].job = step'[v].job
           => u = v
    BY <1>1, <1>5 DEF OneEngaged, Engaged
  <2> QED
    BY <2>1, <2>2 DEF OneEngaged, Fits
<1>8. Unpaid' /\ PaidOnce'
  <2>1. \A v \in Worker \ {w} : step'[v].at \in {"claimed", "ready"} =>
           step'[v] = step[v] /\ step[v].job \in Job \ {k}
    <3> SUFFICES ASSUME NEW v \in Worker \ {w}, step'[v].at \in {"claimed", "ready"}
                 PROVE  step'[v] = step[v] /\ step[v].job \in Job \ {k}
      OBVIOUS
    <3>1. Engaged(v)'
      BY DEF Engaged
    <3> QED
      BY <1>3, <1>5, <3>1
  <2>2. \A v \in Worker : step'[v].at \in {"claimed", "ready"} => calls'[step'[v].job] = 0
    BY <1>1, <2>1 DEF Unpaid, Engaged
  <2> QED
    BY <1>1, <1>2, <2>2 DEF Unpaid, PaidOnce
<1> QED
  BY <1>6, <1>7, <1>8 DEF Paying

\* Every step of a worker keeps the claims apart and pays once at most.
LEMMA PayingWorker ==
    ASSUME IInv, NEW w \in Worker, Works(w) \/ WorkerDies(w)
    PROVE  Paying'
<1>1. TypeOK /\ TypeOK' /\ HeldQueued /\ OneEngaged /\ Unpaid /\ PaidOnce
  BY WorkerType DEF IInv
<1>2. \A v \in Worker \ {w} : step'[v] = step[v]
  BY <1>1, WorkerAlone
<1>3. step[w] # Resting => step[w].job \in Job
  BY <1>1, WorkerShape
<1>4. \A v \in Worker : /\ Claims(v) => step[v].held \subseteq Job
                        /\ Engaged(v) => step[v].job \in Job
  BY <1>1, WorkerShape DEF Claims, Engaged, Resting
<1>5. CASE ClaimLocks(w)
  <2>1. /\ step'[w].at = "claiming" /\ step'[w].held = Claimable
        /\ step'[w].job = Min(Claimable)
        /\ UNCHANGED <<job, calls>>
    BY <1>1, <1>5 DEF ClaimLocks, Proceeds, TypeOK, jobRows, history
  <2>2. Min(Claimable) \in Claimable
    BY <1>5, LeastJob DEF ClaimLocks, Claimable
  <2>3. \A v \in Worker \ {w} : Claims(v) => step[v].held \cap Claimable = {}
    BY DEF Claimable, Claims
  <2>4. HeldQueued'
    <3>1. \A v \in Worker : Claims(v)' =>
            /\ step'[v].job \in step'[v].held
            /\ \A j \in step'[v].held : job'[j].status = "queued"
      <4>1. \A j \in Claimable : job[j].status = "queued"
        BY DEF Claimable
      <4> QED
        BY <1>1, <1>2, <2>1, <2>2, <4>1 DEF HeldQueued, Claims
    <3>2. \A v \in Worker \ {w} : Claims(v)' => Claims(v) /\ step'[v].held = step[v].held
      BY <1>2 DEF Claims
    <3>3. \A u, v \in Worker : Claims(u)' /\ Claims(v)' /\ u # v =>
            step'[u].held \cap step'[v].held = {}
      BY <1>1, <2>1, <2>3, <3>2 DEF HeldQueued
    <3> QED
      BY <3>1, <3>3 DEF HeldQueued
  <2>5. OneEngaged' /\ Unpaid' /\ PaidOnce'
    BY <1>1, <1>2, <2>1 DEF OneEngaged, Engaged, Unpaid, PaidOnce
  <2> QED
    BY <2>4, <2>5 DEF Paying
<1>6. CASE ClaimCommits(w)
  <2> DEFINE k == step[w].job
  <2>1. /\ step'[w].at = "claimed" /\ step'[w].job = k /\ calls' = calls
        /\ Claims(w)
    BY <1>1, <1>6 DEF ClaimCommits, Proceeds, TypeOK, history, Claims
  <2>2. k \in step[w].held /\ k \in Job /\ job[k].status = "queued" /\ calls[k] = 0
    BY <1>1, <1>3, <2>1 DEF HeldQueued, Claims, Unpaid, Resting
  <2>3. /\ job'[k].status = "processing"
        /\ \A j \in Job \ {k} : job'[j].status = job[j].status
    BY <1>1, <1>6, <2>2 DEF ClaimCommits, TypeOK, JobRow
  <2>4. \A v \in Worker : Claims(v)' => v # w /\ Claims(v) /\ step'[v] = step[v]
                                          /\ k \notin step[v].held
    BY <1>1, <1>2, <2>1, <2>2 DEF HeldQueued, Claims
  <2>5. \A v \in Worker \ {w} : Engaged(v)' =>
          Engaged(v) /\ step'[v] = step[v] /\ step[v].job \in Job \ {k}
    <3> SUFFICES ASSUME NEW v \in Worker \ {w}, Engaged(v)'
                 PROVE  Engaged(v) /\ step'[v] = step[v] /\ step[v].job \in Job \ {k}
      OBVIOUS
    <3>1. Engaged(v) /\ step'[v] = step[v] /\ step[v].job \in Job
      BY <1>2, <1>4 DEF Engaged
    <3>2. job[step[v].job].status # "queued"
      BY <1>1, <3>1 DEF OneEngaged
    <3> QED
      BY <2>2, <3>1, <3>2
  <2>6. HeldQueued'
    <3>1. \A v \in Worker : Claims(v)' =>
            \A j \in step[v].held : job'[j].status = "queued"
      BY <1>1, <1>4, <2>3, <2>4 DEF HeldQueued
    <3> QED
      BY <1>1, <2>4, <3>1, HeldFrame
  <2>7. OneEngaged'
    <3>1. \A v \in Worker : Engaged(v)' =>
            Fits(step'[v].at, job'[step'[v].job].status)
      <4> SUFFICES ASSUME NEW v \in Worker, Engaged(v)'
                   PROVE  Fits(step'[v].at, job'[step'[v].job].status)
        OBVIOUS
      <4>1. CASE v = w
        BY <2>1, <2>3, <4>1 DEF Fits
      <4>2. CASE v # w
        <5>1. Fits(step[v].at, job[step[v].job].status)
          BY <1>1, <2>5, <4>2 DEF OneEngaged, Fits
        <5> QED
          BY <2>3, <2>5, <4>2, <5>1
      <4> QED
        BY <4>1, <4>2
    <3>2. \A u, v \in Worker : Engaged(u)' /\ Engaged(v)' /\ step'[u].job = step'[v].job
           => u = v
      BY <1>1, <2>1, <2>5 DEF OneEngaged, Engaged
    <3> QED
      BY <3>1, <3>2 DEF OneEngaged, Fits
  <2>8. Unpaid' /\ PaidOnce'
    <3>1. \A v \in Worker : step'[v].at \in {"claimed", "ready"} => calls'[step'[v].job] = 0
      BY <1>1, <2>1, <2>2, <2>5 DEF Unpaid, Engaged
    <3> QED
      BY <1>1, <2>1, <2>2, <2>3, <3>1 DEF Unpaid, PaidOnce
  <2> QED
    BY <2>6, <2>7, <2>8 DEF Paying
<1>7. CASE Opens(w) \/ OpeningFails(w) \/ CallFails(w)
  <2>1. Engaged(w) /\ step[w] \in Process /\ step[w].job \in Job
    BY <1>1, <1>3, <1>7, WorkerShape
       DEF Opens, OpeningFails, CallFails, Engaged, Resting
  <2>2. UNCHANGED <<job, calls>>
    BY <1>7 DEF Opens, OpeningFails, CallFails, jobRows, history
  <2>3. /\ step'[w].job = step[w].job
        /\ step'[w].at \in {"ready", "failing"}
        /\ step'[w].at = "ready" => step[w].at = "claimed"
    BY <1>1, <1>7, <2>1 DEF Opens, OpeningFails, CallFails, Proceeds, TypeOK, Process
  <2>4. job[step[w].job].status = "processing" /\ calls[step[w].job] <= 1
    BY <1>1, <1>7, <2>1 DEF OneEngaged, Opens, OpeningFails, CallFails, PaidOnce
  <2>5. step'[w].at = "ready" => calls[step[w].job] = 0
    BY <1>1, <2>3 DEF Unpaid
  <2> QED
    BY <1>1, <1>2, <2>1, <2>2, <2>3, <2>4, <2>5, PayingMoves DEF Claims
<1>8. CASE CallsProvider(w)
  <2>1. Engaged(w) /\ step[w] \in Process /\ step[w].job \in Job
    BY <1>1, <1>3, <1>8, WorkerShape DEF CallsProvider, Engaged, Resting
  <2>2. /\ job' = job /\ calls'[step[w].job] = 1
        /\ \A j \in Job \ {step[w].job} : calls'[j] = calls[j]
    BY <1>1, <1>8, <2>1 DEF CallsProvider, jobRows, TypeOK, Unpaid
  <2>3. step'[w].job = step[w].job /\ step'[w].at = "called"
    BY <1>1, <1>8, <2>1 DEF CallsProvider, Proceeds, TypeOK, Process
  <2>4. job[step[w].job].status = "processing"
    BY <1>1, <1>8, <2>1 DEF OneEngaged, CallsProvider
  <2> QED
    BY <1>1, <1>2, <2>1, <2>2, <2>3, <2>4, PayingMoves DEF Claims
<1>9. CASE StoresStudy(w) \/ CompletionFails(w)
  <2>1. Engaged(w) /\ step[w].job \in Job
    BY <1>1, <1>3, <1>9 DEF StoresStudy, CompletionFails, Engaged, Resting
  <2>2. UNCHANGED <<job, calls>>
    BY <1>9 DEF StoresStudy, CompletionFails, jobRows, history
  <2>3. step'[w].job = step[w].job /\ step'[w].at \in {"stored", "failing"}
    BY <1>1, <1>9 DEF StoresStudy, CompletionFails, Proceeds, TypeOK
  <2>4. job[step[w].job].status = "processing" /\ calls[step[w].job] <= 1
    BY <1>1, <1>9, <2>1 DEF OneEngaged, StoresStudy, CompletionFails, PaidOnce
  <2> QED
    BY <1>1, <1>2, <2>1, <2>2, <2>3, <2>4, PayingMoves DEF Claims
<1>10. CASE Completes(w) \/ CompletionUnanswered(w)
  <2>1. Engaged(w) /\ step[w].job \in Job
    BY <1>1, <1>3, <1>10 DEF Completes, CompletionUnanswered, Engaged, Resting
  <2>2. /\ calls' = calls /\ job'[step[w].job].status = "completed"
        /\ \A j \in Job \ {step[w].job} : job'[j].status = job[j].status
    BY <1>1, <1>10, <2>1 DEF Completes, CompletionUnanswered, AddsStudy, history,
       TypeOK, JobRow
  <2>3. /\ step'[w].at \in {"rest", "failing"}
        /\ step'[w].at = "failing" => step'[w].job = step[w].job
    BY <1>1, <1>10 DEF Completes, CompletionUnanswered, Proceeds, TypeOK, Resting
  <2>4. calls[step[w].job] <= 1
    BY <1>1, <2>1 DEF PaidOnce
  <2> QED
    BY <1>1, <1>2, <2>1, <2>2, <2>3, <2>4, PayingMoves DEF Claims, Engaged
<1>11. CASE MarksFailed(w)
  <2>1. Engaged(w) /\ step[w].job \in Job
    BY <1>1, <1>3, <1>11 DEF MarksFailed, Engaged, Resting
  <2>2. job[step[w].job].status \in {"processing", "completed"} /\ calls[step[w].job] <= 1
    BY <1>1, <2>1, <1>11 DEF OneEngaged, MarksFailed, PaidOnce
  <2>3. /\ calls' = calls /\ job'[step[w].job].status \in {"completed", "failed"}
        /\ \A j \in Job \ {step[w].job} : job'[j].status = job[j].status
    BY <1>1, <1>11, <2>1, <2>2
       DEF MarksFailed, FailedIfProcessing, history, TypeOK, JobRow
  <2>4. step'[w].at = "rest"
    BY <1>1, <1>11 DEF MarksFailed, Proceeds, TypeOK, Resting
  <2> QED
    BY <1>1, <1>2, <2>1, <2>2, <2>3, <2>4, PayingMoves DEF Claims, Engaged
<1>12. CASE WorkerDies(w)
  <2>1. step'[w].at = "rest" /\ UNCHANGED <<job, calls>>
    BY <1>1, <1>12 DEF WorkerDies, Proceeds, TypeOK, Resting, jobRows, history
  <2>2. \A v \in Worker : /\ Claims(v)' => Claims(v) /\ step'[v] = step[v]
                          /\ Engaged(v)' => Engaged(v) /\ step'[v] = step[v]
    BY <1>2, <2>1 DEF Claims, Engaged
  <2>3. HeldQueued'
    <3>1. \A v \in Worker : Claims(v) =>
            \A j \in step[v].held : job'[j].status = "queued"
      BY <1>1, <2>1 DEF HeldQueued
    <3> QED
      BY <1>1, <2>2, <3>1, HeldFrame
  <2>4. OneEngaged'
    BY <1>1, <2>1, <2>2, EngagedFrame
  <2>5. Unpaid' /\ PaidOnce'
    <3>1. \A v \in Worker : step'[v].at \in {"claimed", "ready"} =>
            step'[v] = step[v]
      BY <1>2, <2>1
    <3> QED
      BY <1>1, <2>1, <3>1 DEF Unpaid, PaidOnce
  <2> QED
    BY <2>3, <2>4, <2>5 DEF Paying
<1> QED
  BY <1>5, <1>6, <1>7, <1>8, <1>9, <1>10, <1>11, <1>12 DEF Works

-----------------------------------------------------------------------------
(* The studies, their usage events and their bytes.                         *)

\* StudiesAccounted in two parts: what is counted of each job, and the bytes.
Completed(j) == IF job[j].status = "completed" THEN 1 ELSE 0
Counted == \A j \in Job :
               Cardinality(StudiesOf(j)) = Completed(j) /\ usage[j] = Completed(j)
Backed  == \A i \in Image : InDb(i) => i \in blob \/ i \in lost

\* The two parts are the property, now and in the next state.
LEMMA AccountedParts == StudiesAccounted <=> Counted /\ Backed
  BY DEF StudiesAccounted, Counted, Backed, Completed, Readable

LEMMA AccountedNext == Counted' /\ Backed' => StudiesAccounted'
  BY DEF StudiesAccounted, Counted, Backed, Completed, Readable

\* Nothing is counted anew while no image is a study of another job than it was
\* and no job becomes or ceases to be completed.
LEMMA CountedFrame ==
    ASSUME Counted, usage' = usage,
           \A i \in Image : image'[i].of = image[i].of,
           \A j \in Job : job'[j].status = "completed" <=> job[j].status = "completed"
    PROVE  Counted'
<1>1. \A j \in Job : StudiesOf(j)' = StudiesOf(j)
  BY DEF StudiesOf
<1>2. \A j \in Job : Completed(j)' = Completed(j)
  BY DEF Completed
<1> QED
  BY <1>1, <1>2 DEF Counted

\* A step that touches the bytes of image i alone, and lists no other.
LEMMA BackedFrame ==
    ASSUME Backed, NEW i,
           \A k \in Image \ {i} :
               /\ InDb(k)' => InDb(k)
               /\ k \in blob => k \in blob'
               /\ k \in lost => k \in lost',
           i \in Image /\ InDb(i)' => i \in blob' \/ i \in lost'
    PROVE  Backed'
  BY DEF Backed

\* No step of a thread makes or unmakes a study.
LEMMA StudiesThread ==
    ASSUME IInv, NEW t \in Thread, Handles(t)
    PROVE  StudiesAccounted'
<1>1. TypeOK /\ ImagesOwned /\ Counted /\ Backed
  BY AccountedParts DEF IInv
<1>2. CASE UploadStores(t)
  <2>1. UNCHANGED <<image, job, usage, lost>> /\ blob \subseteq blob'
    BY <1>2 DEF UploadStores, imgRows, jobRows, history, Put
  <2>2. Counted'
    BY <1>1, <2>1, CountedFrame
  <2>3. Backed'
    BY <1>1, <2>1 DEF Backed, InDb
  <2> QED
    BY <2>2, <2>3, AccountedNext
<1>3. CASE UploadCommits(t) \/ UploadFails(t) \/ UploadUnanswered(t)
  <2>1. PICK i \in Image : i = txn[t].image /\ image[i] = NoImage /\ i \in blob
    BY <1>1, <1>3, ThreadShape DEF UploadCommits, UploadFails, UploadUnanswered,
       ImagesOwned, Uploads, Fresh, Resting
  <2>2. UNCHANGED <<job, usage>>
    BY <1>3 DEF UploadCommits, UploadFails, UploadUnanswered, jobRows
  <2>3. \A k \in Image \ {i} : image'[k] = image[k]
    BY <1>1, <1>3, <2>1
       DEF UploadCommits, UploadFails, UploadUnanswered, AddsOriginal, imgRows, TypeOK
  <2>4. image'[i].of = image[i].of
    BY <1>1, <1>3, <2>1 DEF UploadCommits, UploadFails, UploadUnanswered,
       AddsOriginal, imgRows, TypeOK, NoImage
  <2>5. Counted'
    BY <1>1, <2>2, <2>3, <2>4, CountedFrame
  <2>6. /\ \A k \in Image \ {i} : k \in blob => k \in blob'
        /\ \A k \in Image : k \in lost => k \in lost'
    BY <1>3, <2>1
       DEF UploadCommits, UploadFails, UploadUnanswered, Cleanup, files, history
  <2>7. InDb(i)' => i \in blob' \/ i \in lost'
    <3>1. CASE UploadFails(t)
      BY <2>1, <3>1 DEF UploadFails, imgRows, InDb, NoImage
    <3>2. CASE UploadCommits(t) \/ UploadUnanswered(t)
      BY <2>1, <3>2 DEF UploadCommits, UploadUnanswered, files
    <3> QED
      BY <1>3, <3>1, <3>2
  <2>8. Backed'
    <3>1. \A k \in Image \ {i} : InDb(k)' => InDb(k)
      BY <2>3 DEF InDb
    <3> QED
      BY <1>1, <2>6, <2>7, <3>1, BackedFrame
  <2> QED
    BY <2>5, <2>8, AccountedNext
<1>4. CASE EditCommits(t)
  <2>1. UNCHANGED <<image, usage, blob, lost>>
    BY <1>4 DEF EditCommits, files, imgRows, history
  <2>2. PICK k \in Job :
          /\ job[k] = NoJob
          /\ job' = [job EXCEPT ![k] = [status |-> "queued", recent |-> TRUE,
                                        source |-> txn[t].image]]
    BY <1>4 DEF EditCommits
  <2>3. job[k].status = "absent" /\ job'[k].status = "queued"
    BY <1>1, <2>2 DEF TypeOK, NoJob
  <2>4. \A j \in Job : job'[j].status = "completed" <=> job[j].status = "completed"
    BY <1>1, <2>2, <2>3 DEF TypeOK
  <2>5. Counted'
    BY <1>1, <2>1, <2>4, CountedFrame
  <2>6. Backed'
    BY <1>1, <2>1 DEF Backed, InDb
  <2> QED
    BY <2>5, <2>6, AccountedNext
<1>5. CASE Decides(t)
  <2>1. UNCHANGED <<job, usage, blob, lost>>
    BY <1>5 DEF Decides, files, jobRows, history
  <2>2. \A k \in Image : image'[k].of = image[k].of /\ image'[k].kind = image[k].kind
    <3>1. txn[t].image \in Image
      BY <1>1, <1>5, ThreadShape DEF Decides, Resting
    <3>2. image'[txn[t].image] = [image[txn[t].image] EXCEPT !.review = txn[t].verdict]
      BY <1>1, <1>5, <3>1 DEF Decides, TypeOK
    <3>3. /\ image'[txn[t].image].of = image[txn[t].image].of
          /\ image'[txn[t].image].kind = image[txn[t].image].kind
      BY <1>1, <3>1, <3>2 DEF TypeOK, ImageRow
    <3> QED
      BY <1>1, <1>5, <3>3 DEF Decides, TypeOK
  <2>3. Counted'
    BY <1>1, <2>1, <2>2, CountedFrame
  <2>4. Backed'
    BY <1>1, <2>1, <2>2 DEF Backed, InDb
  <2> QED
    BY <2>3, <2>4, AccountedNext
<1>6. CASE \/ EditBegins(t) \/ EditAdmitted(t) \/ EditRefused(t)
           \/ DecisionBegins(t) \/ DecisionLocks(t) \/ DecisionRefused(t)
           \/ RequestDies(t)
  <2>1. UNCHANGED <<image, job, usage, blob, lost>>
    BY <1>6 DEF EditBegins, EditAdmitted, EditRefused, DecisionBegins,
       DecisionLocks, DecisionRefused, RequestDies, files, imgRows, jobRows, history
  <2>2. Counted'
    BY <1>1, <2>1, CountedFrame
  <2>3. Backed'
    BY <1>1, <2>1 DEF Backed, InDb
  <2> QED
    BY <2>2, <2>3, AccountedNext
<1> QED
  BY <1>2, <1>3, <1>4, <1>5, <1>6 DEF Handles

\* A worker commits study, usage event and status together.
LEMMA StudiesWorker ==
    ASSUME IInv, NEW w \in Worker, Works(w) \/ WorkerDies(w)
    PROVE  StudiesAccounted'
<1>1. TypeOK /\ ImagesOwned /\ OneEngaged /\ HeldQueued /\ Counted /\ Backed
  BY AccountedParts DEF IInv
<1>2. step[w] # Resting => step[w].job \in Job
  BY <1>1, WorkerShape
<1>3. CASE Completes(w) \/ CompletionUnanswered(w)
  <2>1. PICK i \in Image, k \in Job :
          i = step[w].image /\ k = step[w].job /\ image[i] = NoImage /\ i \in blob
    BY <1>1, <1>2, <1>3, WorkerShape DEF Completes, CompletionUnanswered,
       ImagesOwned, Stores, Fresh, Resting
  <2>2. job[k].status = "processing"
    BY <1>1, <1>3, <2>1 DEF Completes, CompletionUnanswered, OneEngaged, Engaged
  <2>3. /\ image'[i].of = k
        /\ \A m \in Image \ {i} : image'[m] = image[m]
        /\ job'[k].status = "completed"
        /\ \A j \in Job \ {k} : job'[j] = job[j] /\ usage'[j] = usage[j]
        /\ usage'[k] = usage[k] + 1
    BY <1>1, <1>3, <2>1 DEF Completes, CompletionUnanswered, AddsStudy, TypeOK, JobRow
  <2>4. image[i].of = 0
    BY <2>1 DEF NoImage
  <2>5. StudiesOf(k) = {} /\ usage[k] = 0
    <3>1. IsFiniteSet(StudiesOf(k))
      <4>1. IsFiniteSet(Image) /\ StudiesOf(k) \in SUBSET Image
        BY FS_Interval, BoundsOK DEF Image, StudiesOf
      <4> QED
        BY <4>1, FS_Subset
    <3>2. Cardinality(StudiesOf(k)) = 0 /\ usage[k] = 0
      BY <1>1, <2>1, <2>2 DEF Counted, Completed
    <3> QED
      BY <3>1, <3>2, FS_EmptySet
  <2>6. StudiesOf(k)' = {i} /\ \A j \in Job \ {k} : StudiesOf(j)' = StudiesOf(j)
    <3>1. StudiesOf(k)' = {i}
      BY <2>1, <2>3, <2>5 DEF StudiesOf
    <3>2. ASSUME NEW j \in Job \ {k} PROVE StudiesOf(j)' = StudiesOf(j)
      <4>1. j # 0
        BY BoundsOK DEF Job
      <4> QED
        BY <2>1, <2>3, <2>4, <4>1 DEF StudiesOf
    <3> QED
      BY <3>1, <3>2
  <2>7. Counted'
    <3> SUFFICES ASSUME NEW j \in Job
                 PROVE  Cardinality(StudiesOf(j)') = Completed(j)' /\ usage'[j] = Completed(j)'
      BY DEF Counted
    <3>1. CASE j = k
      <4>1. Cardinality({i}) = 1
        BY FS_Singleton
      <4> QED
        BY <2>3, <2>5, <2>6, <3>1, <4>1 DEF Completed
    <3>2. CASE j # k
      BY <1>1, <2>3, <2>6, <3>2 DEF Counted, Completed
    <3> QED
      BY <3>1, <3>2
  <2>8. Backed'
    <3>1. /\ \A m \in Image \ {i} : m \in blob => m \in blob'
          /\ \A m \in Image : m \in lost => m \in lost'
      BY <1>3, <2>1 DEF Completes, CompletionUnanswered, Cleanup, files, history
    <3>2. i \in blob' \/ i \in lost'
      BY <1>3, <2>1 DEF Completes, CompletionUnanswered, files
    <3>3. \A m \in Image \ {i} : InDb(m)' => InDb(m)
      BY <2>3 DEF InDb
    <3> QED
      BY <1>1, <3>1, <3>2, <3>3, BackedFrame
  <2> QED
    BY <2>7, <2>8, AccountedNext
<1>4. CASE ClaimCommits(w) \/ MarksFailed(w)
  <2> DEFINE k == step[w].job
  <2>1. UNCHANGED <<image, usage, blob, lost>>
    BY <1>4 DEF ClaimCommits, MarksFailed, files, imgRows, history
  <2>2. k \in Job
    BY <1>2, <1>4 DEF ClaimCommits, MarksFailed, Resting
  <2>3. ClaimCommits(w) => job[k].status = "queued"
    BY <1>1 DEF ClaimCommits, HeldQueued, Claims
  <2>4. /\ \A j \in Job \ {k} : job'[j] = job[j]
        /\ job'[k].status = "completed" <=> job[k].status = "completed"
    BY <1>1, <1>4, <2>2, <2>3 DEF ClaimCommits, MarksFailed, FailedIfProcessing,
       TypeOK, JobRow
  <2>5. Counted'
    BY <1>1, <2>1, <2>4, CountedFrame
  <2>6. Backed'
    BY <1>1, <2>1 DEF Backed, InDb
  <2> QED
    BY <2>5, <2>6, AccountedNext
<1>5. CASE CompletionFails(w)
  <2>1. UNCHANGED <<image, job, usage, lost>>
    BY <1>5 DEF CompletionFails, imgRows, jobRows, history
  <2>2. image[step[w].image].kind = "absent"
    BY <1>1, <1>5 DEF CompletionFails, ImagesOwned, Stores, Fresh, NoImage
  <2>3. \A m \in Image \ {step[w].image} : m \in blob => m \in blob'
    BY <1>5 DEF CompletionFails, Cleanup
  <2>4. Counted'
    BY <1>1, <2>1, CountedFrame
  <2>5. Backed'
    BY <1>1, <2>1, <2>2, <2>3 DEF Backed, InDb
  <2> QED
    BY <2>4, <2>5, AccountedNext
<1>6. CASE \/ ClaimLocks(w) \/ Opens(w) \/ OpeningFails(w) \/ CallsProvider(w)
           \/ CallFails(w) \/ StoresStudy(w) \/ WorkerDies(w)
  <2>1. UNCHANGED <<image, job, usage, lost>> /\ blob \subseteq blob'
    BY <1>6 DEF ClaimLocks, Opens, OpeningFails, CallsProvider, CallFails,
       StoresStudy, Put, WorkerDies, files, imgRows, jobRows, history
  <2>2. Counted'
    BY <1>1, <2>1, CountedFrame
  <2>3. Backed'
    BY <1>1, <2>1 DEF Backed, InDb
  <2> QED
    BY <2>2, <2>3, AccountedNext
<1> QED
  BY <1>3, <1>4, <1>5, <1>6 DEF Works

-----------------------------------------------------------------------------
\* A day that passes takes jobs out of the count and touches nothing else.
LEMMA DayKeeps ==
    ASSUME IInv, DayPasses
    PROVE  IInv'
<1>1. TypeOK /\ TypeOK' /\ ImagesOwned /\ Counted /\ Backed
  BY DayType, AccountedParts DEF IInv
<1>2. UNCHANGED <<image, blob, drawn, usage, txn, step, lost>>
  BY DEF DayPasses, files, imgRows, history
<1>3. ImagesOwned'
  BY <1>1, <1>2 DEF ImagesOwned, Uploads, Stores, Fresh
<1>4. \A j \in Job : job'[j].status = job[j].status
  <2>1. PICK k \in Job : job' = [job EXCEPT ![k].recent = FALSE]
    BY DEF DayPasses
  <2>2. job'[k].status = job[k].status
    BY <1>1, <2>1 DEF TypeOK, JobRow
  <2> QED
    BY <1>1, <2>1, <2>2 DEF TypeOK
<1>5. StudiesAccounted'
  <2>1. Counted'
    BY <1>1, <1>2, <1>4, CountedFrame
  <2>2. Backed'
    BY <1>1, <1>2 DEF Backed, InDb
  <2> QED
    BY <2>1, <2>2, AccountedNext
<1> QED
  BY <1>1, <1>3, <1>5, QuotaOthers, ReviewsOthers, PayingOthers DEF IInv, Paying

\* The empty tables satisfy the invariant.
LEMMA InitInv == Init => IInv
<1> SUFFICES ASSUME Init PROVE IInv
  OBVIOUS
<1>1. 1 \in Image /\ MaxImages \in Nat /\ MaxJobs \in Nat
  BY BoundsOK DEF Image
<1>2. /\ [NoImage EXCEPT !.kind = "original"] \in ImageRow /\ NoImage \in ImageRow
      /\ NoJob \in JobRow
  BY <1>1 DEF NoImage, ImageRow, Review, NoJob, JobRow
<1>3. TypeOK
  <2>1. drawn \in 0 .. MaxImages /\ blob \subseteq Image
    BY BoundsOK DEF Init, Image
  <2>2. image \in [Image -> ImageRow] /\ reviews \in [Image -> Nat]
    BY <1>2 DEF Init
  <2>3. job \in [Job -> JobRow] /\ usage \in [Job -> Nat] /\ calls \in [Job -> Nat]
    BY <1>2 DEF Init
  <2> QED
    BY <2>1, <2>2, <2>3 DEF Init, TypeOK
<1>4. /\ \A t \in Thread : txn[t].at = "rest"
      /\ \A w \in Worker : step[w].at = "rest"
  BY DEF Init, Resting
<1>5. /\ \A i \in Image : image[i].of = 0 /\ (i > drawn => image[i] = NoImage)
      /\ \A i \in Image : InDb(i) => i \in blob
      /\ \A j \in Job : job[j] = NoJob /\ usage[j] = 0 /\ calls[j] = 0
  BY <1>1 DEF Init, NoImage, InDb, Image
<1>6. ImagesOwned /\ OneAdmitted /\ LockedAsSeen /\ HeldQueued /\ OneEngaged
  BY <1>4, <1>5 DEF ImagesOwned, OneAdmitted, LockedAsSeen, HeldQueued, OneEngaged,
     Uploads, Stores, Admits, Locks, Claims, Engaged
<1>7. Unpaid /\ PaidOnce
  BY <1>4, <1>5 DEF Unpaid, PaidOnce
<1>8. Counted
  <2>1. \A j \in Job : StudiesOf(j) = {}
    BY <1>5, BoundsOK DEF StudiesOf, Job
  <2> QED
    BY <1>5, <2>1, FS_EmptySet DEF Counted, Completed, NoJob
<1>9. Backed
  BY <1>5 DEF Backed
<1>10. QuotaKept
  <2>1. Recent = {}
    BY <1>5 DEF Recent, NoJob
  <2> QED
    BY <2>1, FS_EmptySet, BoundsOK DEF QuotaKept
<1> QED
  BY <1>3, <1>6, <1>7, <1>8, <1>9, <1>10, AccountedParts DEF IInv

\* Every step keeps it.
LEMMA NextInv == IInv /\ [Next]_vars => IInv'
<1> SUFFICES ASSUME IInv, [Next]_vars PROVE IInv'
  OBVIOUS
<1>1. CASE UNCHANGED vars
  <2>1. TypeOK' /\ ImagesOwned' /\ LockedAsSeen'
    BY <1>1 DEF vars, IInv, TypeOK, ImagesOwned, LockedAsSeen, Uploads, Stores,
       Locks, Fresh
  <2>2. HeldQueued' /\ OneEngaged' /\ Unpaid' /\ PaidOnce'
    BY <1>1 DEF vars, IInv, HeldQueued, OneEngaged, Unpaid, PaidOnce, Claims, Engaged
  <2>3. OneAdmitted' /\ QuotaKept'
    BY <1>1, QuotaFrame DEF vars, IInv, Admits, Recent
  <2>4. StudiesAccounted'
    BY <1>1 DEF vars, IInv, StudiesAccounted, StudiesOf, InDb, Readable
  <2> QED
    BY <2>1, <2>2, <2>3, <2>4 DEF IInv
<1>2. ASSUME NEW t \in Thread, Handles(t) PROVE IInv'
  <2>1. TypeOK /\ TypeOK'
    BY <1>2, ThreadType DEF IInv
  <2> QED
    BY <1>2, <2>1, ImagesThread, QuotaThread, ReviewsThread, PayingOthers,
       StudiesThread DEF IInv, Paying
<1>3. ASSUME NEW w \in Worker, Works(w) \/ WorkerDies(w) PROVE IInv'
  <2>1. TypeOK /\ TypeOK'
    BY <1>3, WorkerType DEF IInv
  <2> QED
    BY <1>3, <2>1, ImagesWorker, QuotaOthers, ReviewsOthers, PayingWorker,
       StudiesWorker DEF IInv, Paying
<1> QED
  BY <1>1, <1>2, <1>3, DayKeeps DEF Next

\* The inductive invariant holds in every reachable state.
LEMMA Invariance == Spec => []IInv
  BY InitInv, NextInv, PTL DEF Spec

\* The state is well formed.
THEOREM TypeCorrect == Spec => []TypeOK
<1>1. IInv => TypeOK
  BY DEF IInv
<1> QED
  BY <1>1, Invariance, PTL

\* No edit is paid for twice.
THEOREM EditsPaidOnce == Spec => []PaidOnce
<1>1. IInv => PaidOnce
  BY DEF IInv
<1> QED
  BY <1>1, Invariance, PTL

\* Study, usage event and status of an edit go together, and what the database
\* lists has its bytes.
THEOREM StudiesAreAccounted == Spec => []StudiesAccounted
<1>1. IInv => StudiesAccounted
  BY DEF IInv
<1> QED
  BY <1>1, Invariance, PTL

\* The daily quota is kept.
THEOREM QuotaIsKept == Spec => []QuotaKept
<1>1. IInv => QuotaKept
  BY DEF IInv
<1> QED
  BY <1>1, Invariance, PTL

\* No step changes an image that has its verdict.
THEOREM VerdictsStand == Spec => VerdictIsFinal
<1>1. IInv /\ [Next]_vars =>
        [\A i \in Image : image[i].review \in Verdict => image'[i] = image[i]]_vars
  BY ReviewsThread, ReviewsOthers DEF Next
<1> QED
  BY <1>1, Invariance, PTL DEF Spec, VerdictIsFinal
=============================================================================
