------------------------------ MODULE JobStore ------------------------------
(***************************************************************************)
(* The job queue of services/perception_jobs.py: one JSON file per job,    *)
(* written by web processes (enqueue) and by worker processes (claim_next, *)
(* complete, release_for_retry), and erased with its project by            *)
(* services/case_workspace.py (delete_document_shop_job).                  *)
(*                                                                         *)
(* The store's own lock is a threading.Lock of one PerceptionJobStore      *)
(* object; every request and every worker process builds its own, so it    *)
(* excludes nobody here.  What is exclusive between processes is the       *)
(* project's lifecycle lock (flock), held around one write with its        *)
(* liveness test, and around a whole erasure.  A read followed by a write  *)
(* is therefore two steps.                                                 *)
(***************************************************************************)
EXTENDS Naturals, FiniteSets

CONSTANTS
    Jobs,           \* job identities: the sha256 that names the file
    Projects,       \* workspaces the jobs belong to
    ProjectOf,      \* job["workspace_id"]
    Web,            \* web processes that may enqueue
    Workers,        \* worker processes that claim from this directory
    Allowed,        \* jobs whose processing_version this queue's workers accept
    Unanswerable,   \* jobs on which the readiness predicate raises
    MaxAttempts,    \* MAX_ATTEMPTS
    LeaseOverrun,   \* TRUE: a worker may still be running when its lease expires
    EraserCrashes,  \* TRUE: the purge process may die during an erasure
    MaxEnqueues,    \* bound: enqueue calls that find no file
    MaxCrashes,     \* bound: worker deaths
    NoFile, NoOne

ASSUME JobStoreAssumption ==
    /\ ProjectOf \in [Jobs -> Projects]
    /\ Allowed \subseteq Jobs
    /\ Unanswerable \subseteq Jobs
    /\ MaxAttempts \in Nat \ {0}
    /\ LeaseOverrun \in BOOLEAN
    /\ EraserCrashes \in BOOLEAN
    /\ MaxEnqueues \in Nat
    /\ MaxCrashes \in Nat
    /\ NoOne \notin Projects \cup Jobs \cup Workers

VARIABLES
    files,      \* the queue directory: files[j] is the record on disk or NoFile
    ready,      \* jobs for which the readiness predicate answers yes
    shelved,    \* projects whose workspace file carries removed_at
    present,    \* projects whose workspace file is on disk
    marker,     \* projects with a committed deletion marker
    erasing,    \* the project whose lifecycle lock the purge process holds
    web,        \* enqueue calls in flight, one per web process
    worker,     \* what each worker process has in hand
    clock,      \* source of created_at stamps
    crashes,    \* worker deaths so far
    submitted,  \* history: enqueue calls that put the job on disk
    handouts    \* history: times each job was handed to a worker (saturating)

vars == <<files, ready, shelved, present, marker, erasing, web, worker,
          clock, crashes, submitted, handouts>>
projectVars == <<shelved, present, marker, erasing>>
history == <<submitted, handouts>>

-----------------------------------------------------------------------------
Terminal == {"completed", "needs_attention", "failed"}
Open     == {"queued", "running"}

JobRecord == [state    : Terminal \cup Open,
              attempts : 0..MaxAttempts,
              created  : Nat,
              lease    : {"none", "held", "expired"},
              by       : Workers \cup {NoOne}]

ASSUME NoFileAssumption == NoFile \notin JobRecord

\* A process with nothing in hand.
Idle == [pc |-> "idle", job |-> NoOne, rec |-> NoFile]

Hand(pcs) == [pc : pcs, job : Jobs, rec : JobRecord]

TypeOK ==
    /\ files \in [Jobs -> JobRecord \cup {NoFile}]
    /\ ready \subseteq Jobs
    /\ shelved \subseteq Projects
    /\ present \subseteq Projects
    /\ marker \subseteq Projects
    /\ erasing \in Projects \cup {NoOne}
    /\ web \in [Web -> {Idle} \cup Hand({"writing"})]
    /\ worker \in [Workers -> {Idle} \cup Hand({"claiming", "working", "settling"})]
    /\ clock \in Nat
    /\ crashes \in Nat
    /\ submitted \in [Jobs -> Nat] /\ handouts \in [Jobs -> Nat]

Init ==
    /\ files = [j \in Jobs |-> NoFile]
    /\ ready = {}
    /\ shelved = {}
    /\ present = Projects
    /\ marker = {}
    /\ erasing = NoOne
    /\ web = [u \in Web |-> Idle]
    /\ worker = [w \in Workers |-> Idle]
    /\ clock = 0
    /\ crashes = 0
    /\ submitted = [j \in Jobs |-> 0]
    /\ handouts = [j \in Jobs |-> 0]

-----------------------------------------------------------------------------
\* lifecycle_lock: nobody else holds the flock of the job's project.
LockFree(j) == erasing # ProjectOf[j]

\* require_live: the project has no deletion marker.
Live(j) == ProjectOf[j] \notin marker

\* Mutant of Write: the liveness test is forgotten.
WriteUnchecked(j, rec) ==
    /\ LockFree(j)
    /\ files' = [files EXCEPT ![j] = rec]

\* _write: inside the lock, refuse a deleted project (ValueError, nothing
\* written), else replace the file.
Write(j, rec) ==
    /\ LockFree(j)
    /\ files' = IF Live(j) THEN [files EXCEPT ![j] = rec] ELSE files

FreshRecord ==
    [state |-> "queued", attempts |-> 0, created |-> clock,
     lease |-> "none", by |-> NoOne]

\* Mutant of EnqueueRead: the existing file is not looked for.
EnqueueReadBlind(u, j) ==
    /\ web[u] = Idle
    /\ clock < MaxEnqueues
    /\ ProjectOf[j] \in present \ (shelved \cup marker)
    /\ web' = [web EXCEPT ![u] = [pc |-> "writing", job |-> j, rec |-> FreshRecord]]
    /\ clock' = clock + 1
    /\ UNCHANGED <<files, ready, projectVars, worker, crashes, history>>

\* enqueue, first half: the caller has checked that the document is active
\* (examine_document), get() finds no file, and the record is built.  An
\* existing file is returned as it is, which changes nothing.
EnqueueRead(u, j) ==
    /\ web[u] = Idle
    /\ clock < MaxEnqueues
    /\ ProjectOf[j] \in present \ (shelved \cup marker)
    /\ files[j] = NoFile
    /\ web' = [web EXCEPT ![u] = [pc |-> "writing", job |-> j, rec |-> FreshRecord]]
    /\ clock' = clock + 1
    /\ UNCHANGED <<files, ready, projectVars, worker, crashes, history>>

\* enqueue, second half: the file is replaced, whatever is there by now.
EnqueueWrite(u) ==
    /\ web[u] # Idle
    /\ Write(web[u].job, web[u].rec)
    /\ web' = [web EXCEPT ![u] = Idle]
    /\ submitted' = IF Live(web[u].job)
                    THEN [submitted EXCEPT ![web[u].job] = @ + 1] ELSE submitted
    /\ UNCHANGED <<ready, projectVars, worker, clock, crashes, handouts>>

-----------------------------------------------------------------------------
\* claimable_kind, for a readiness predicate that answers.  A workspace file
\* that carries removed_at withholds its jobs; a missing one does not.
ClaimableKind(j) ==
    /\ ~(ProjectOf[j] \in present /\ ProjectOf[j] \in shelved)
    /\ j \in Allowed
    /\ j \in ready

\* Mutant of Candidates: a lease never runs out.
CandidatesQueuedOnly ==
    {j \in Jobs : files[j] # NoFile /\ ClaimableKind(j) /\ files[j].state = "queued"}

Candidates ==
    {j \in Jobs : /\ files[j] # NoFile
                  /\ ClaimableKind(j)
                  /\ \/ files[j].state = "queued"
                     \/ files[j].state = "running" /\ files[j].lease = "expired"}

\* The readiness predicate raises on some file of the listing: the handler
\* of claimable_kind calls a logger this module does not define, so
\* claim_next ends in a NameError and nothing is claimed.
ListingRaises ==
    \E j \in Unanswerable : /\ files[j] # NoFile
                            /\ ~(ProjectOf[j] \in present /\ ProjectOf[j] \in shelved)
                            /\ j \in Allowed

\* Mutants of ClaimRecord: the ceiling is off by one; the attempt is not counted.
ClaimRecordOneMore(rec, w) ==
    IF rec.attempts > MaxAttempts
    THEN [rec EXCEPT !.state = "failed"]
    ELSE [rec EXCEPT !.state = "running", !.attempts = @ + 1,
                     !.lease = "held", !.by = w]
ClaimRecordUncounted(rec, w) ==
    IF rec.attempts >= MaxAttempts
    THEN [rec EXCEPT !.state = "failed"]
    ELSE [rec EXCEPT !.state = "running", !.lease = "held", !.by = w]

\* What claim_next writes for the job it takes: a job out of attempts is
\* burned, any other one is handed to the worker.
ClaimRecord(rec, w) ==
    IF rec.attempts >= MaxAttempts
    THEN [rec EXCEPT !.state = "failed"]
    ELSE [rec EXCEPT !.state = "running", !.attempts = @ + 1,
                     !.lease = "held", !.by = w]

\* claim_next, first half: list the directory and take the oldest candidate.
ClaimList(w, j) ==
    /\ worker[w] = Idle
    /\ ~ListingRaises
    /\ j \in Candidates
    /\ \A k \in Candidates : files[j].created <= files[k].created
    /\ worker' = [worker EXCEPT ![w] =
                    [pc |-> "claiming", job |-> j, rec |-> ClaimRecord(files[j], w)]]
    /\ UNCHANGED <<files, ready, projectVars, web, clock, crashes, history>>

\* claim_next, second half.  A burned job and a refused write leave the
\* worker with nothing; otherwise it starts on the record it wrote.
ClaimWrite(w) ==
    LET j == worker[w].job
        rec == worker[w].rec
        taken == Live(j) /\ rec.state = "running"
    IN  /\ worker[w].pc = "claiming"
        /\ Write(j, rec)
        /\ worker' = [worker EXCEPT ![w] =
                        IF taken THEN [@ EXCEPT !.pc = "working"] ELSE Idle]
        /\ handouts' = IF taken /\ handouts[j] <= MaxAttempts * submitted[j]
                       THEN [handouts EXCEPT ![j] = @ + 1] ELSE handouts
        /\ UNCHANGED <<ready, projectVars, web, clock, crashes, submitted>>

\* get(job_id) or the record in hand.
Current(w) == IF files[worker[w].job] # NoFile
              THEN files[worker[w].job] ELSE worker[w].rec

\* What release_for_retry writes over the record it read.
Released(rec) ==
    IF rec.attempts >= MaxAttempts
    THEN [rec EXCEPT !.state = "failed"]
    ELSE [rec EXCEPT !.state = "queued", !.lease = "none", !.by = NoOne]

\* complete and release_for_retry, first half: the work is over, the record
\* is read again and the new one is computed from it.  Neither looks at the
\* state or at claimed_by of what it read.
Settle(w) ==
    /\ worker[w].pc = "working"
    /\ \E rec \in {[Current(w) EXCEPT !.state = s] : s \in Terminal}
                    \cup {Released(Current(w))} :
          worker' = [worker EXCEPT ![w].pc = "settling", ![w].rec = rec]
    /\ UNCHANGED <<files, ready, projectVars, web, clock, crashes, history>>

\* complete and release_for_retry, second half.
SettleWrite(w) ==
    /\ worker[w].pc = "settling"
    /\ Write(worker[w].job, worker[w].rec)
    /\ worker' = [worker EXCEPT ![w] = Idle]
    /\ UNCHANGED <<ready, projectVars, web, clock, crashes, history>>

\* A worker process dies and is restarted; what it had in hand is lost.
WorkerCrash(w) ==
    /\ worker[w] # Idle
    /\ crashes < MaxCrashes
    /\ worker' = [worker EXCEPT ![w] = Idle]
    /\ crashes' = crashes + 1
    /\ UNCHANGED <<files, ready, projectVars, web, clock, history>>

\* LEASE_SECONDS pass on a claim.
LeaseExpires(j) ==
    /\ files[j] # NoFile
    /\ files[j].state = "running" /\ files[j].lease = "held"
    /\ LeaseOverrun \/ \A w \in Workers : worker[w].job # j
    /\ files' = [files EXCEPT ![j].lease = "expired"]
    /\ UNCHANGED <<ready, projectVars, web, worker, clock, crashes, history>>

\* What the readiness predicate waits for (the source's text recovery) ends.
BecomesReady(j) ==
    /\ j \notin ready \cup Unanswerable
    /\ ready' = ready \cup {j}
    /\ UNCHANGED <<files, projectVars, web, worker, clock, crashes, history>>

-----------------------------------------------------------------------------
\* The desk: archive or trash a document, or restore it.  Both are saves of
\* the workspace record and are refused once the project is deleted.
Shelve(p) ==
    /\ p \in present \ (shelved \cup marker)
    /\ erasing # p
    /\ shelved' = shelved \cup {p}
    /\ UNCHANGED <<files, ready, present, marker, erasing, web, worker,
                   clock, crashes, history>>

Restore(p) ==
    /\ p \in shelved \ marker
    /\ erasing # p
    /\ shelved' = shelved \ {p}
    /\ UNCHANGED <<files, ready, present, marker, erasing, web, worker,
                   clock, crashes, history>>

\* delete_document_shop_job, reached from the purge of expired trash: commit
\* the marker, then erase under the same lock.
EraseCommit(p) ==
    /\ erasing = NoOne
    /\ p \in (shelved \cap present) \ marker
    /\ marker' = marker \cup {p}
    /\ erasing' = p
    /\ UNCHANGED <<files, ready, shelved, present, web, worker, clock,
                   crashes, history>>

\* _erase_document_shop_files removes content (here the job files) first ...
EraseJob(j) ==
    /\ erasing = ProjectOf[j]
    /\ files[j] # NoFile
    /\ files' = [files EXCEPT ![j] = NoFile]
    /\ UNCHANGED <<ready, projectVars, web, worker, clock, crashes, history>>

\* Mutant of EraseWorkspace: the workspace record may go before the content.
EraseWorkspaceEarly(p) ==
    /\ erasing = p
    /\ present' = present \ {p}
    /\ erasing' = NoOne
    /\ UNCHANGED <<files, ready, shelved, marker, web, worker, clock,
                   crashes, history>>

\* ... and the workspace record after it; the lock is released.  (The view
\* sidecar, which goes last, is of no concern to the queue.)
EraseWorkspace(p) ==
    /\ erasing = p
    /\ \A j \in Jobs : ProjectOf[j] = p => files[j] = NoFile
    /\ present' = present \ {p}
    /\ erasing' = NoOne
    /\ UNCHANGED <<files, ready, shelved, marker, web, worker, clock,
                   crashes, history>>

\* The purge process dies; the lock goes with it.  No caller of
\* delete_document_shop_job ever comes back to a deleted project (the purge
\* reads list_ids, which leaves deleted projects out).
EraserCrash ==
    /\ EraserCrashes
    /\ erasing # NoOne
    /\ erasing' = NoOne
    /\ UNCHANGED <<files, ready, shelved, present, marker, web, worker,
                   clock, crashes, history>>

-----------------------------------------------------------------------------
Next ==
    \/ \E u \in Web, j \in Jobs : EnqueueRead(u, j)
    \/ \E u \in Web : EnqueueWrite(u)
    \/ \E w \in Workers, j \in Jobs : ClaimList(w, j)
    \/ \E w \in Workers : ClaimWrite(w) \/ Settle(w) \/ SettleWrite(w) \/ WorkerCrash(w)
    \/ \E j \in Jobs : LeaseExpires(j) \/ BecomesReady(j) \/ EraseJob(j)
    \/ \E p \in Projects : Shelve(p) \/ Restore(p) \/ EraseCommit(p) \/ EraseWorkspace(p)
    \/ EraserCrash

Spec == Init /\ [][Next]_vars

\* The worker loops poll for ever and a call they began ends; time passes;
\* what a job waits for ends; an erasure that is not interrupted finishes.
\* Web requests, desk moves and crashes are never owed.
Fairness ==
    /\ \A w \in Workers : /\ WF_vars(\E j \in Jobs : ClaimList(w, j))
                          /\ WF_vars(ClaimWrite(w))
                          /\ WF_vars(Settle(w))
                          /\ WF_vars(SettleWrite(w))
    /\ \A j \in Jobs : WF_vars(LeaseExpires(j)) /\ WF_vars(BecomesReady(j))
    /\ \A j \in Jobs : WF_vars(EraseJob(j))
    /\ \A p \in Projects : WF_vars(EraseWorkspace(p))

FairSpec == Spec /\ Fairness

-----------------------------------------------------------------------------
(* Properties *)

\* A job file that survives an interrupted erasure still lies beside a
\* workspace file that carries removed_at, so claim_next passes over it and
\* it can never sit at the head of the queue as a job whose every write is
\* refused.  Rests on the erasure order and on the lock around each write.
OrphansAreWithheld ==
    \A j \in Jobs :
        (ProjectOf[j] \in marker /\ files[j] # NoFile)
            => ProjectOf[j] \in present \cap shelved

\* A deleted project's job is never written back, whoever still has its
\* record in hand: a late complete, a stale claim or a slow enqueue.
NoResurrection ==
    [][\A j \in Jobs : ProjectOf[j] \in marker =>
          files'[j] \in {files[j], NoFile}
            \/ (files[j] # NoFile /\ files'[j] = [files[j] EXCEPT !.lease = "expired"])]_vars

\* A completed classification is never run again.
CompletedIsFinal ==
    [][\A j \in Jobs : (files[j] # NoFile /\ files[j].state = "completed") =>
          (files'[j] = NoFile \/ files'[j].state = "completed")]_vars

\* A job is handed out at most MAX_ATTEMPTS times for each time it was put on
\* disk, however often its worker dies, however often it is released for retry
\* and however many requests enqueue it at once.
HandoutsBounded == \A j \in Jobs : handouts[j] <= MaxAttempts * submitted[j]

\* Every job the workers accept is settled, unless its project is shelved or
\* erased: dead workers, expired leases and retries cannot keep it open.
EventuallySettled ==
    \A j \in Allowed :
        (files[j] # NoFile /\ files[j].state \in Open)
            ~> (\/ files[j] = NoFile
                \/ files[j].state \in Terminal
                \/ ProjectOf[j] \in shelved)

\* The same for the jobs whose readiness predicate answers, in a directory
\* that also holds one on which it raises.
AnswerableSettle ==
    \A j \in Allowed \ Unanswerable :
        (files[j] # NoFile /\ files[j].state \in Open)
            ~> (\/ files[j] = NoFile
                \/ files[j].state \in Terminal
                \/ ProjectOf[j] \in shelved)

\* How a job stands to the rest of the program.
Status(j) ==
    IF files[j] = NoFile
    THEN IF ProjectOf[j] \in marker THEN "erased" ELSE "absent"
    ELSE IF files[j].state \in Terminal THEN "settled" ELSE files[j].state

Lifecycle == INSTANCE JobLifecycle WITH
    Callers <- Web,
    status <- [j \in Jobs |-> Status(j)],
    calls <- [u \in Web |-> web[u].job],
    tries <- handouts

\* Whatever number of web processes enqueue at once, the directory of job
\* files, its locks and its leases implement the job lifecycle for a queue
\* with one worker process, through every crash.
ImplementsLifecycle == Lifecycle!Spec
=============================================================================
