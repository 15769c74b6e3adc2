\* Two workers and two request threads: a worker that outlives its lease and the
\* one that takes over, two jobs for one source, a person numbering a scene.
CONSTANTS
    Worker = {w1, w2}
    Handler = {h1, h2}
    MaxJobs = 2
    MaxAttempts = 2
    MaxScenes = 1
SPECIFICATION FairSpec
INVARIANTS
    CompletedHasOutput
    OneTimelyWorker
    ScenesNumbered
PROPERTIES
    SettledStays
    JobsSettle
