# A TLA+ verification of the Archiosk file stores

Archiosk is a Flask application for construction documents.  It is served by
fifteen single-application gunicorn processes of four threads
(`src/deploy/`), and three systemd workers (perception, founding, visual) and
an hourly timer (the trash purge) run beside it.  Apart from the accounts and
credentials, which live in one SQL database, *everything these processes share
is files*: one JSON record per project, per job, per conversation, per bridge
task.  No broker, no transaction, no cache server: a `threading.Lock` covers
the threads of one process, a `flock` per project covers some of the
operations of all of them, `O_CREAT | O_EXCL` and `os.replace` do the rest,
and a version number inside the record settles what is left.

That is the part of the program where being wrong is easy and testing is hard,
and it is what this project models: each store as the set of its files, each
process as the step it has reached and the record it has in hand.  The
analysers (drawing, survey, legend, planning and language pipelines), the
routes and the browser code are sequential transformations of one request and
are left aside, with the reasons below.

## 1. Inventory

### 1.1 Components of the core

| component | source | state it keeps | operations |
|---|---|---|---|
| Job queues | `services/perception_jobs.py` (used by the perception, founding and visual queues) | one `<job>.json` per unit of work: state, attempts, lease | `enqueue`, `claim_next`, `complete`, `release_for_retry` |
| Project lifecycle lock | `services/requirements_registry.py` | one lock file per project; `_deleted/<id>.json` deletion markers; `<id>.json` | `lifecycle_lock`, `require_live`, `save`, `list_ids` |
| Workspace store | `services/case_workspace.py` | `<id>.workspace.json` with its version, `_view_state/<id>.json` | `get`, `save`, `record_last_viewed`, desk moves |
| Trash and purge | `services/case_workspace.py`, `tools/purge_document_shop.py` | deletion markers, content files | `purge_document_shop_trash`, `delete_document_shop_job`, `_erase_document_shop_files` |
| Background examinations | `services/perception_worker.py`, `founding_worker.py`, `founding_classification.py`, `visual_worker.py`, `visual_classification.py` | evidence records of a workspace | `run_one`, `examine_source`, the evidence writes and their retries |
| Bridge queue | `services/bridge_queue.py` | `pending/`, `claimed/`, `served/` task files | `enqueue`, `pending_for`, `claim_pending`, `deliver`, `fail`, `consume`, `sweep_expired`, `purge_project` |
| Help Script gate | `services/case_workspace.py` (14052-15401), `script_fit.py`, `help_mode.py`, `help_clip_studio.py`, `routes/help_center.py` | one workspace, the Help Library: a script's sections, the claims they cite, verdicts and validations | add, edit and remove sections; record, accept, doubt, supersede claims; revise a guide; the re-check (two model calls, two saves); validate |
| Chunked upload | `services/chunked_upload.py` | one directory per upload: meta, parts, assembled file | `begin`, `save_chunk`, `assemble`, `discard`, the sweep |
| Cases and review threads | `services/case_workspace.py` (12157-13101, 13648-13793, 16184-17057, 18281-18691), `routes/workspace.py` | cases, findings, threads, project knowledge in the workspace file; the governance log | create, share, retract, archive, derive, carry forward; analyse, validate, dispose, apply, promote; open, discuss, resolve, reopen |
| Work products and claims | `services/case_workspace.py` (14052-15491, 17133-17170), `routes/workspace.py` | products with sections, verdict, seal and exports; claims, what was minted from them, links | draft, review, approve, issue, revise, export; record, adopt, dispute, correct |
| Sandbox | `services/sandbox.py`, `routes/sandbox.py` | per owner: one record with its token, retained image files, a lock file | `start`, `add_turn`, `move_object`, `record_decision`, `mark_promoted` |
| Batch intake | `services/ingestion.py` | batch status, reconcile store | intake of one batch, resume, reconcile |

### 1.2 How they interact

* A web request parses an upload (chunked upload, batch intake), writes
  `<id>.json` and `<id>.workspace.json`, and enqueues one job per source in
  up to three queues.  A worker claims a job, reads the workspace, examines the
  source, appends an evidence record with a *load, change, save* cycle that is
  retried on a version conflict, and then completes the job.
* The visual queue is claimed only when the perception evidence of the source
  is settled: a predicate over another store, read at claim time.
* The owner moves a container between desk, archive and trash with the same
  load, change, save cycle; the worker's claim looks at that desk state.
* The purge reads the listing once, looks at each container outside its lock,
  then takes the project's flock, reads again, commits a deletion marker and
  erases file after file.  Every writer that respects `require_live` is fenced
  off by the marker; those that write without it are not.

* The storage agent polls the bridge queue of its project for requests that a
  manifest's confirmation has enqueued, delivers bytes, and a later
  confirmation consumes them and registers a source.  Nothing in the queue is
  locked: exclusive creation and exclusive unlinking are all there is.
* A governed route of a project page loads the workspace once, lets the store
  check and change that copy, and saves it under the version check.  Some
  operations save twice, and the governance log is appended after the save.
* The Sandbox of a person is shared by that person's tabs only: an `O_EXCL`
  lock file that waiters may break when it looks old, a token the page echoes,
  and images that are swept after the lock is gone.
* A help script is released to readers by nothing but a derivation: every read
  computes its readiness from sections, claims and three histories.  People,
  a guide's text and two model calls change these in any order.

### 1.3 Behaviours that are hard to test

* **Two processes between a read and a write.**  `enqueue` looks, then writes;
  `claim_next` lists, then writes; the purge decides, then locks.
* **A process that dies between two steps**: between the claim and the
  completion of a job, between the marker and the last file of an erasure,
  between the evidence record and the completion.
* **A read that is old when it is used**: a verdict on a text that was edited
  while the model read it, a decision on a page that is no longer the text, a
  save from a record that has moved on.
* **A second save that never comes**: the adoption after the minted record, the
  log entry after the crossing, the link after the correction.
* **A write that asks nobody**: a promotion, which neither looks whether the
  Case is archived nor whether it crosses its threshold.
* **A lock broken by its name**, and a sweep that judges by a record that has
  been replaced.
* **A process that is late**: a worker whose lease has expired and comes back
  with a record in hand; a task consumed and then claimed from an old listing.
* **Boundaries**: the attempt limit, the lease, the recovery deadline.
* **Things that must happen eventually**: every job settles, every expired
  container is erased.

What makes each component correct:

* *Job queues*: no job is handed out more than `MAX_ATTEMPTS` times for each
  time it was put on disk; a settled job is reopened by nothing but an enqueue
  that had found no file; nothing recreates a job of an erased project; the
  files an interrupted erasure leaves are never offered; every job that stays
  on the desk is settled.
* *Workspace store and purge*: no committed edit is lost to a stale save, an
  edit never undoes a desk move; only a container that is in the trash and past
  its deadline is erased; an erased container stays erased; nothing private is
  left; every expired container is purged.
* *Examinations*: a source has one evidence record per kind, a job that is
  completed has its evidence, an examination is not sent twice.
* *Bridge queue*: one claimant per task while its claim stands, one taking per
  delivery, no task gone without a reason, nothing of a purged project survives,
  every task ends.
* *Help Script gate*: a verdict is about what the library still holds when it
  is stored; nothing superseded, disputed or out of date reaches readers; the
  human acts can be done in any order; an answer is withdrawn only for a
  reason; what is released has been read.
* *Chunked upload*: an assembled file is the sequence of its parts; a sweep
  never removes an upload that is in use.
* *Cases*: a contribution of another person that counts makes a Case
  collaborative for good; an archived Case, and what it held, never changes; a private one is its owner's; Apply happens once
  per finding, and on its last word; no save is overwritten.
* *Work products and claims*: what is issued stays as it was sealed and as its
  reviewer left it; a revision descends from an issued product; an adopted
  claim names the record that was minted from it, also when an operation stops
  between its two saves.
* *Sandbox*: a write builds on the record its page was drawn from; an image
  that is named has its bytes, one that is not goes; every request is answered.

The components that are not listed here (analysers, readers, conversation,
accounts, exports, routes, ...) are in `PROJECT.json` with the reason each is
left aside.

## 2. Plan

The order is by how much of the program rests on a component and by how little
a test can say about it.

| step | modules | abstract specification | state |
|---|---|---|---|
| 1 | `JobStore`, `MCJobStore` | `JobLifecycle`: a job is tried at most `MaxAttempts` times for each submission, settled once a submission, gone with its project | done |
| 2 | `ContainerLifecycle`, `MCContainerLifecycle` | `ContainerPromise`: edits are kept, moves are the owner's, only expired trash is erased, for good | done |
| 3 | `BridgeQueue`, `MCBridgeQueue` | none yet; candidate: a mailbox of requests, each handed out once and answered or expired | done |
| 4 | `HelpScript`, `MCHelpScript` | none: the gate is itself a derivation | done |
| 5 | `WorkspaceSessions`, with `CaseReview` and `MCCaseReview` over it | none: what a Case promises is stated of its records and steps | done |
| 6 | `WorkProduct`, `MCWorkProduct`, also over `WorkspaceSessions` | `PracticePromise`: every step is one act on the products, claims and links that are there now | done |
| 7 | `Sandbox` | none: the compare-and-swap is stated as an action property | done |
| 8 | `Examination` composed with `JobStore` | `EvidenceOnce`: one evidence record per source and kind, present when the job is completed | open |
| 9 | `ChunkedUpload` | an upload as the map from part numbers to bytes | open |
| 10 | `FolderTree`, `BatchIntake` | | open |

Composition.  `JobStore` and `ContainerLifecycle` meet in the project: its
lifecycle lock, its deletion marker and its desk state.  `JobStore` carries
these three as its `marker`, `erasing`, `shelved` and `present`, moved by the
steps `ContainerLifecycle` models in detail.  `CaseReview` and
`WorkProduct` are two views of one workspace file; each EXTENDS
`WorkspaceSessions`, which is the edit-and-save of `ContainerLifecycle` seen
from a live container: a copy, a check, a save that is refused when the version
has moved.  An operation of the one never touches the lists of the other, but
for the finding an accepted claim mints, which `CaseReview` takes as the
recording of an analysis.  `Examination` would instantiate `JobStore` and add
the evidence in the workspace file.

Properties still open beside the modules that exist: in `BridgeQueue`,
`NoStrandedBytes` (no payload lies under no record for ever) and `AskedOnce` (a
path is asked for once at a time).

Theorems.  Type correctness of every module, since every other proof rests on
it; then the safety properties and the refinements the runs check.  All of them
are done: section 6.

## 3. The modules and the code

What is common to all of them: an action is what one process does between two
points at which another process can act.  A read followed by a write is two
actions unless a lock *that the other process respects* is held around both.
`threading.Lock` excludes nobody here, since every process and every store
object has its own.  What a process has read stays in its hand, in a record of
the variable `web`, `worker`, `writer`, `purger`, `hand`, `held` or `work`.  Payloads, names and
wording are model values or left out.  Histories (`handouts`, `handed`,
`submitted`, `delivered`, `consumed`, `unclaimed`, `judged`, the field `read` of
a validation, `foreign`, `uncounted`, `lost`, `halves`, `robbed`, `taken`, `stray`) are read by properties only.

### 3.1 `JobStore` and `JobLifecycle` - `services/perception_jobs.py`

The three queues are one class on three directories; the module is one
directory.  `files[j]` is the record on disk: state, attempts, `created_at` as a
stamp that orders jobs, the lease as none, held or expired, and `claimed_by`.

* `EnqueueRead`, `EnqueueWrite`: `enqueue`, which looks and then writes.
* `ClaimList`, `ClaimWrite`: `claim_next`, which lists, chooses the oldest
  candidate, and writes it.  `ClaimRecord` is the record it writes: a job out of
  attempts is burned to `failed`.  `ListingRaises` is the handler that ends in a
  `NameError`.
* `Settle`, `SettleWrite`: `complete` and `release_for_retry`, which read again
  and write without looking at the state or at `claimed_by`.
* `WorkerCrash`, `LeaseExpires`, `BecomesReady`: a death, `LEASE_SECONDS`, and
  the store the readiness predicate looks at.
* `Shelve`, `Restore`, `EraseCommit`, `EraseJob`, `EraseWorkspace`,
  `EraserCrash`: the project under the queue, as far as the queue sees it.

`Write` is `_write`: inside the project's flock, refused for a deleted project.

### 3.2 `ContainerLifecycle` and `ContainerPromise` - `services/case_workspace.py`, `requirements_registry.py`

`disk[c]` is `<id>.workspace.json`, reduced to its version, the identities of
the edits it contains, the desk state and the recovery deadline; `registered`,
`viewed` and `content` are the parsed document, the view sidecar and the
private files; `marker` is `_deleted/<id>.json`; `lock` is the flock as the
erasure holds it (a save holds it for one action).

* `Open`, `EditAndSave`: `get`, any domain operation, `save`.  `SaveAllowed` is
  the check inside the lock: not deleted, and no other version on disk.
* `DecideMove`, `SaveMove`: `move_document_shop_case` around its own save.
* `StoreContent`, `RecordView`, `RegisterDocument`: writers inside the lock,
  after `require_live`.  `WriteDerived`: a writer with neither.
* `PurgeStart`, `PurgeLook`, `PurgeEnd`: `purge_document_shop_trash`, whose
  moment and listing are taken once and whose look is outside the lock.
* `Delete`: `delete_document_shop_job` up to the marker, reading again under
  the lock.  `EraseContent`, `EraseRegistry`, `EraseWorkspace`, `EraseSidecar`:
  `_erase_document_shop_files` in the order of its stable sort (11648): what is
  stored, then by file name `<id>.json`, `<id>.workspace.json`, and last the
  sidecar `_view_state/<id>.json`, which has the name of the first and was
  appended behind it.  `PurgeCrash` is a death between any two of them, and the
  refusal of a run by `BLOCK_DELETE` (11558).

The docstring of `CaseWorkspaceStore` (6670-6690) still describes the save
race between processes as open; the flock in `save` has since closed it, and
the model follows the code.

`ContainerPromise` has no versions, locks, markers or processes.  The
refinement reads a container with a marker, or without a file, as gone: the
marker, not the removal of the last file, is the erasure.

### 3.3 `BridgeQueue` - `services/bridge_queue.py`, `storage_agent_access.py`

`pending`, `claimed` and `served` are the directories of one project, `staged`
the payload files.  Times are the *age* of a stamp, which stops growing one
tick after the limit it is compared with; there is no clock to bound.  Every
file operation is an action: `Create` is `os.open` with `O_EXCL`, `Fill` the
write that follows, `Retire` the unlink of the pending entry, `Take` the
exclusive unlink of `consume`.

* `ListDir`, `SweepLook`, `Unstage`, `Discard`, `SweepNext`: `sweep_expired` and
  `purge_project`, one pass over the three directories.
* `Classify`, `Read`, `Enqueue`: a confirmed file that is new.
* `PollStart`, `PollLook`, `Create`, `Fill`, `Retire`, `PollEnd`: the poll.
* `DeliverRead`, `Stage`, `Note`; `TakeRead`, `Take`, `Serve`, `Close`,
  `Register`: `deliver`, and `consume` with the registration of the bytes.
* `Revoke`: the enrolment first, then the purge.  `ForeignSweep`: the sweep a
  poll of another project makes.

A directory is listed at once, the age of a file is judged when it is read, and
one confirmation carries one file.

### 3.4 `HelpScript` - the gate of the Help Library

One script and the claims of the library.  What is derived is an operator with
the name of the check in `resolve_script_readiness` (`QuestionFit`,
`EvidenceFidelity`, `Supported`, `Current`, `SemanticFit`, `Consistent`,
`HumanValidated`, `Adopted`); `Text` stands for the content checksum and
`Fingerprint` for the digest of the cited claims.  A request with one save is
one action, since a save that finds another version is refused as a whole.
`Recheck`, `RecordFit`, `RecordCheck` and `Abandon` are `run_script_trust_chain`:
one load, two model calls, two saves.  `OpenPage` and `Validate` are a reviewer
and the route that stores the decision.

An outcome is *pass* or *blocked* (the gate treats `fail` and `review_needed`
alike); an adoption is *open*, *accepted* or *doubted*.  Sources removed from
the library, the reordering of sections (no caller) and what an acceptance
mints are left out.

### 3.5 `WorkspaceSessions` - `_load_workspace_or_404` and `save`

`stored` is the workspace file, `held[s]` the copy a request has loaded.  An
operation checks and changes the copy and ends in `Save`, which goes through
only if the version on disk is still that of the copy.  `GiveUp` is every end
without a save: a refusal of the store, the 409 of a
`ConcurrentModificationError`, the death of the process.  `SaveThen` lets an
operation go on with what it has saved.

### 3.6 `CaseReview` - Cases, findings, threads, the governance log

The workspace holds `cases`, `findings`, `threads` and `knowledge`, lists whose
entries are named by their place.  Each operation is one action of a session:

* `CreateCase`, `ShareCase`, `RetractCase`, `ArchiveCase`, `DeriveCase`;
  `AdoptFinding` and `AdoptMessage` carry archived work into the derived Case
  (`MayCarry`).
* `AttachSource` and `AddMessage`, which no document counts as contributions.
* The six writes that may make a Shared Case collaborative (`Contribute`):
  `ConfirmRelationship` (18672), `RecordAnalysis` when a person started it
  (13776), `RecordReviewerValidation` (16232), `RecordDisposition` (16310),
  `AddReviewMessage` (18395), `RequestAttention` (18467).  `Crossed` is
  `_cross_collaboration_threshold_if_qualifying`; the log entry it owes is
  written by `AppendToLog`, after the save, if the process still lives.
* The three that write a person's analysis or message and do not ask
  (`WriteUncounted`): `PromoteRequirementItem` (17014), and `AdoptFinding` and
  `AdoptMessage` when an admin carries into another owner's Case.  The docstring
  of the threshold (12353) and `investigation-lifecycle-extensions.md:11` count
  what they write; `uncounted` records the Cases they reach.
* `ApplyFindings`, whose candidates (`Eligible`) the route has read from its
  copy.
* `CreateReviewThread`, `AddReviewMessage`, `RequestAttention`,
  `RespondToAttention`, `ResolveReviewThread`, `ReopenReviewThread`, behind the
  guards their routes share (`Discussing`).

`Visible` is judged on the copy, as `_require_visible_case` does.
`share_case`, `retract_case_to_private` and the two carry-forward operations
have no route yet and are modelled as the store offers them.  Two operations
lack the archived guard: `promote_requirement_item` (17031) and
`create_review_thread` add to an archived Case.

### 3.7 `WorkProduct` and `PracticePromise` - work products and claims

* `CreateWorkProduct`, `AddSection`, `EditSection`, `AcceptSection`,
  `RemoveSection`, `Review`, `ApproveForIssue`, `Issue`, `Export`: one save
  each.  `Checksum` is what the active sections say, in their order;
  `seal` holds `issued_checksum`.
* `Revise` and `Correct`: the saves of a successor and of its link.  Revision
  and link of a product go to disk together, in the save inside
  `record_supersession`; the one that follows changes nothing and may still be
  refused.  A correction is saved before its link.
* `RecordClaim`, `Mint` and `Adopt`, `Decide`: a claim is adopted in two saves,
  of the minted record and of the mark.  `todo` is the second half a request
  still owes, `halves` the ones that were never made.

An edit after approval leaves approval and acceptances as they are
(`case_workspace.py:15199`), and the model follows.  A second acceptance of a
claim is possible where the first one ended half way, and through the API also
without that: no check looks at the adoption state.

`PracticePromise` has products, claims and links, and neither requests nor
copies nor second saves: each act is one act on what is there now.  Of a product
it shows what it says, where it stands and what was exported (`Shown`); once
issued, what it says is what its checksum names, so a section that changed under
the seal, or an export of anything else, would be no act of the promise.  A
minted record shows when a claim names it, and a revision is one act although it
is saved twice; a correction is two acts, and the second finds the new claim as
it was recorded.  Verdicts, revision numbers and acceptances do not show; the
properties of `WorkProduct` are about those.

### 3.8 `Sandbox` - `services/sandbox.py`, `routes/sandbox.py`

`sandbox` is the record of one owner, `media` the retained images, `lock` the
lock file: free, held, left by a dead writer, or so old that a waiter takes it
for one.  `work[r]` is a request: what its page saw and what it will write.

* `Draw`, `Post`: the page with its token, and the request that echoes it.
* `Acquire`, `FindStale`, `BreakLock`, `Busy`: `_lock`.  Looking at a lock and
  removing it are two steps, and the removal goes by name.
* `Start`, `Change`, `Refuse`, `Write`, `Release`: `_update`.  `Start` removes
  the images before the new record is written; a turn stores its image first.
* `Sweep`: `_sweep_media`, after the lock, by the record of this write.
* `Die`, `Age`: a death anywhere, and the 30 seconds after it.

Three things the code allows are in the model, as histories the properties
name: two waiters on one stale lock can both come in, the second by removing
the lock of the first (`robbed`), although the docstring of `SandboxStore` says
that two requests cannot both pass the check; a sweep that comes late removes
an image a newer turn names (`taken`), although that image was retained to be
seen again; and a death between `Start` and `Write` leaves a record whose images
are gone (`taken`).  A live writer is assumed never to be 30 seconds under the
lock.  `_save`, used by fixtures, is left out, and so is a page whose record is
older than its token (`home` reads the one before the other).

## 4. What the runs check

| run | question | answer |
|---|---|---|
| `jobs_single` | two jobs in two projects, two web processes that may enqueue the same job at once, one worker that may outlive its lease, deaths of worker and purge | `HandoutsBounded`, `EventuallySettled`, and `ImplementsLifecycle` hold |
| `jobs_shared` | one job, two web processes, two workers that may outlive their lease, one interrupted erasure | `OrphansAreWithheld` and `NoResurrection` hold |
| `jobs_unanswerable` | `AnswerableSettle` with a job on which the readiness predicate keeps raising | violated: no job of the queue is claimed any more |
| `container_writers` | two requests, two purges that die anywhere, one container | `ImplementsPromise`, `ErasedStaysErased`, `ContentBeforeRecord` hold |
| `container_purge` | two containers, one request, an uninterrupted purge | `ExpiredIsPurged` holds |
| `container_leftover` | `NothingPrivateLeft` with a preview rendered during the purge | violated: the preview stays |
| `bridge_poller` | one request, two processes that both serve polls, one death | `HandedOutOncePerClaim`, `NoLaterTaker`, `TakenAtMostAsDelivered`, `NoRequestLost`, `RequestsEnd` hold |
| `bridge_reclaim` | `HandedOutOnce` in the same setting, without a death | violated: a claim from an old read |
| `help_gate` | five saves in any order from an authored script on | `VerdictsFitTheLibrary`, `AdoptionRetiresNothing`, `WithdrawnForAReason` hold |
| `cases_review` | six saves of an owner and an admin with copies of any age, from nothing and from an archived Case | `CountedWorkStaysShared`, `CrossingsAreLoggedOnce`, `KnowledgeIsTheApplied`, `LineageHolds`, `ArchivedIsFrozen`, `NothingIsOverwritten`, `PrivateWorkIsTheOwners` hold |
| `work_products` | five saves of two requests that may end between two saves, from nothing, from an approved product and from a claim | `IssuedIsFrozen`, `NoIssueAgainstTheReviewer`, `RevisionsAreLinked`, `ActsAsPromised`, `AdoptionIsBacked`, `MintedIsAccountedFor` hold |
| `sandbox_tabs` | two tabs, two images, two Sandboxes, one death, a lock both find stale | `NoTurnIsLost`, `MediaIsAccountedFor`, `RequestsEnd` hold |

The three violations are the findings of `PROJECT.json`, each with the line of
the repository that says otherwise.  `jobs_unanswerable` is conditional: it
needs a predicate that raises again and again for the same job.

Six more configurations lie beside the runs.  TLC refutes the property each
of them states, in a second or two; they document what the code does not keep:

| configuration (module) | property | the repository says |
|---|---|---|
| `JobStore_duplicate` (`MCJobStore`) | `CompletedIsFinal`: the second of two `enqueue`s reopens a completed job | "There is no window between the check and the write for a duplicate to slip through." (`perception_jobs.py:185`) |
| `BridgeQueue_halfclaim` (`MCBridgeQueue`) | `NoFreshRequestLost`: a sweep finds a claim between its create and its write, cannot read it and discards it; the poll then retires the pending entry | "Drop stale requests and abandoned claims, payloads included." (`bridge_queue.py:269`): a claim that is being written is neither |
| `ContainerLifecycle_interrupted` (`MCContainerLifecycle`) | `ExpiredIsPurged`: after a death behind the marker nobody comes back | "Expired items are permanently purged by scheduled maintenance." (`document_shop_jobs.html:23`) |
| `HelpScript_unread` (`MCHelpScript`) | `ReleasedAsRead`: a script is released as validated that its validator never saw | "The content checksum at the moment of decision is stored WITH the decision." (`case_workspace.py:14392`) |
| `CaseReview_promotion` (`MCCaseReview`) | `EveryContributionSettles`: a colleague promotes a requirement item into a Shared Case, which stays Shared and may be retracted | "SHARED -> COLLABORATIVE fires exactly once, the moment the first governed, attributed write by a non-owner actor actually commits." (`case_workspace.py:12353`); user-initiated analyses attached to the Case are named in `investigation-lifecycle-extensions.md:11` |
| `CaseReview_archive` (`MCCaseReview`) | `NothingIsAddedToAnArchive`: a promotion appends to an archived Case | "every governed write that mutates a Case's contribution set [...] calls this first" (`case_workspace.py:12388`) |

### 4.1 Bounds

* `MaxAttempts = 2` instead of 3: one retry and the limit.  `MaxCrashes = 3`
  deaths are more than the limit allows attempts, so the last one falls on a
  job that must be burned.  `MaxEnqueues = 2`: both jobs, or one job twice.
* `Retention = 1`, `MaxNow = 2`: before, at and past a deadline.
  `MaxMoves = 3`: to the trash, back, and to the trash again with a new
  deadline.  `MaxEdits = 2`: an edit each of two requests, or one overtaken.
* `RequestTtl = 1`, `ClaimTtl = 0`: the claim's limit is passed before the
  request's, as in the code, and each stamp has a fresh, an old and a too old
  age.  One request identity is enough for what is stated of one request;
  `MaxCrashes = 1` is a death between any two file operations.
* `MaxVersion = 5` saves after authoring: the shortest way to a released script
  is an acceptance, two verdicts and a validation, so one save is left to get in
  the way, anywhere.  Two claims: the cited one and a correction.
* `handouts` stops one above the limit.
* `CaseReview`: six saves are enough for a Case to be shared, joined, analysed,
  validated, disposed and applied, or, from the archive, to be derived from,
  carried into and changed behind another session's back.  An owner and an
  admin are the two roles; two Cases are an archive and its successor.
* `WorkProduct`: five saves are draft, section, review, approval and issue; the
  product that is already approved and the claim that is already recorded leave
  five for what may get in the way.  Two of everything: an original and its
  revision, correction or twin.
* `Sandbox`: two tabs meet at one lock, two Sandboxes are an old and a new one,
  two revisions a start and a turn, one death leaves one stale lock.  A third
  request adds no new pair; the proofs do not bound them.

`CHECK_DEADLOCK FALSE` where the bounds let a behaviour stop: nothing is owed
once every counter is used up.  Symmetry is used only in `container_writers` and
`work_products`, which check no liveness.

### 4.2 Fairness

* `JobStore`: the worker loops poll for ever, and a call that was begun ends;
  time passes; what a readiness predicate waits for ends; an erasure that is not
  interrupted finishes.  All weak, per process.  Nothing is owed of web
  requests, desk moves or deaths.
* `ContainerLifecycle`: time passes, and the timer starts the purge again and
  again, which then gets on.  Weak.  Nothing is owed of requests.
* `BridgeQueue`: time passes; a request that was begun goes on (weak, per
  process); and strong fairness of some process's `ForeignSweep`: agents poll in
  a loop (`tools/storage_bridge_agent.py`), each poll sweeps the queues, and
  whichever process takes it serves it.  Strong, because between two polls the
  processes may all serve something else.
* `Sandbox`: a posted request goes on (weak, per request), and time passes.
  Nothing is owed of a page that is open, or of a death.  The wait for the lock
  is bounded by `_LOCK_TIMEOUT`, so no strong fairness is needed.
* `CaseReview` and `WorkProduct` have no fairness: a request may always be
  refused, and nobody has to ask again.
* `HelpScript` has no fairness: nobody has to author or to validate anything.

## 5. Faithfulness

`PROJECT.json` maps each definition of the modules to the lines it stands for.
Each property of a passing run has a mutant there: a change of the modelled
code that a slip could have made, under which the property fails.

## 6. What is proved

All for any number of processes, files and identities, and any bounds.

| theorem | states | needs |
|---|---|---|
| `JobStore_proofs!TypeCorrect` | `[]TypeOK` | |
| `JobStore_proofs!OrphansWithheld` | `[]OrphansAreWithheld` | `TypeOK` |
| `JobStore_proofs!NothingResurrected` | `NoResurrection` | `TypeOK` |
| `JobStoreLifecycle_proofs!StoreImplementsLifecycle` | `ImplementsLifecycle` | `LifecycleInv`, one worker per queue |
| `JobStoreLifecycle_proofs!HandoutsLimited` | `[]HandoutsBounded` | `LifecycleInv`, one worker per queue |
| `ContainerLifecycle_proofs!TypeCorrect` | `[]TypeOK` | |
| `ContainerLifecycle_proofs!ErasedForGood` | `ErasedStaysErased` | `TypeOK` |
| `ContainerLifecycle_proofs!ContentFirst` | `[]ContentBeforeRecord` | `ErasureInv` |
| `ContainerLifecycle_proofs!StoreImplementsPromise` | `ImplementsPromise` | `StoreInv` |
| `BridgeQueue_proofs!TakenOnce` | `[]TakenAtMostAsDelivered` | `TakingInv` |
| `BridgeQueue_proofs!TypeCorrect` | `[]TypeOK` | `WellAsked` |
| `BridgeQueue_proofs!HandedOnce` | `[]HandedOutOncePerClaim` | `HandInv` |
| `BridgeQueue_proofs!NoneAfterwards` | `NoLaterTaker` | `HandInv` |
| `BridgeQueue_proofs!NothingLost` | `NoRequestLost` | `LossInv` |
| `HelpScript_proofs!TypeCorrect` | `[]TypeOK` | |
| `HelpScript_proofs!VerdictsFit` | `VerdictsFitTheLibrary` | `HandFits` |
| `HelpScript_proofs!AdoptionKeeps` | `AdoptionRetiresNothing` | `TypeOK` |
| `HelpScript_proofs!WithdrawnWithReason` | `WithdrawnForAReason` | `HandFits` |
| `CaseReview_proofs!TypesAlways`, `TypeCorrect` | `[]Types`, `[]TypeOK` | |
| `CaseReview_proofs!ArchivesAreFrozen` | `ArchivedIsFrozen` | `Types` |
| `CaseReview_proofs!NoLostWork` | `NothingIsOverwritten` | `Types` |
| `CaseReview_proofs!PrivateWorkIsSafe` | `PrivateWorkIsTheOwners` | `Types` |
| `CaseReview_proofs!CountedWorkIsKept` | `[]CountedWorkStaysShared` | `Types` |
| `CaseReview_proofs!LineageIsKept` | `[]LineageHolds` | `Types` |
| `CaseReview_proofs!EveryCrossingIsLogged` | `[]CrossingsAreLoggedOnce` | `Types` |
| `CaseReview_proofs!KnowledgeIsRight` | `[]KnowledgeIsTheApplied` | `Types` |
| `WorkProduct_proofs!TypesAlways`, `TypeCorrect` | `[]Types`, `[]TypeOK` | |
| `WorkProduct_proofs!ReviewersAreHeard` | `[]NoIssueAgainstTheReviewer` | `Types` |
| `WorkProduct_proofs!IssuedStaysFrozen` | `IssuedIsFrozen` | `AllSound` |
| `WorkProduct_proofs!RevisionsStayLinked` | `[]RevisionsAreLinked` | `Lineage` |
| `WorkProduct_proofs!ExportsStayTrue` | `ExportsAreTrue` | `Types` |
| `WorkProduct_proofs!AdoptionStaysBacked` | `[]AdoptionIsBacked` | `TasksFit` |
| `WorkProduct_proofs!MintedStaysAccountedFor` | `[]MintedIsAccountedFor` | `Types` |
| `WorkProduct_proofs!ActsArePromised` | `ActsAsPromised` | `PromiseInv` |
| `WorkProduct_proofs!PracticeImplementsPromise` | `Promise!Spec` | `PromiseInv` |
| `Sandbox_proofs!InvAlways` | `[]Inv` | |
| `Sandbox_proofs!TypeCorrect` | `[]TypeOK` | `Inv` |
| `Sandbox_proofs!TurnsStay` | `NoTurnIsLost` | `Inv` |
| `Sandbox_proofs!MediaStayAccountedFor` | `[]MediaIsAccountedFor` | `Inv` |

The arguments:

* **Job queue.**  For any number of web processes that enqueue at once, and for
  one worker process per queue (`OneWorker`), which is what `src/deploy` starts:
  one service per queue.  `jobs_shared` and the theorems of `JobStore_proofs` do
  without.  A worker may outlive its lease; alone, it has nobody to meet.  An
  `enqueue` that has found no file may land on whatever has become of the job
  meanwhile, so the lifecycle lets a job be submitted again, with attempts of
  its own.  `LifecycleInv` says what an enqueue in flight carries (`EnqueueInv`),
  that a file counts every hand-out since the last submission and a queued one
  has an attempt left (`FileInv`), and how the record in the worker's hand agrees
  with the file, or with what a submission has put in its place (`HandInv`).  All
  of it only while the project is live: afterwards no write counts.
  `HandoutsLimited` is the first part of `FileInv`.
* **Container, erasure.**  `ErasureInv` adds to the types that the record only
  goes with a marker (`RecordInv`) and what each step of an erasure has already
  removed (`EraseInv`).  `ContentBeforeRecord` alone is not inductive: the step
  that removes the record must know that what is stored, and the parsed
  document, are gone.  The view sidecar goes after the record, so an erasure that
  stops there leaves a sidecar behind no record, and the property says so.
* **Container, promise.**  `StoreInv` adds `HandInv`: as long as the version in
  a request's hand is the version on disk, the record in its hand is the record
  on disk, or a desk move of it; once a save has landed, the versions never
  agree again.  So a save that passes the check is an edit, or a move, of what
  is there.  `MomentInv` (no purge judges by a moment that is to come) makes
  the erasure late enough.
* **Bridge.**  `StagedIsExtra`: a payload that lies on disk is one more delivery
  than takings, which charges each taking to its delivery.  `TypeOK` needs
  `WellAsked`, since a registration adds the path a request was asked for.
  Nothing is assumed of how many processes serve polls.  `HandInv` says that what
  a poll can still read has not been handed out (`OpenIsUnhanded`), and that as
  long as no claim of a request was taken away at most one poll is between its
  create and its hand-out (`OneWinner`): `HandedOnce` needs both,
  `NoneAfterwards` the first.  `HandedOutOnce` itself is false
  (`bridge_reclaim`).  `NothingLost` needs to know what each process has in
  hand, since it removes an entry long after it looked (`LossInv`): what a sweep
  is about to discard was judged, a delivery has read a request that was handed
  out, and the claim a poll has created is still its own unless a sweep has
  judged it, it was consumed, or the agent was revoked.
* **Help gate.**  `HandFits`: while no save has landed since a re-check loaded
  the library, its copy is the library.  A release then stands as long as the
  text and the claims it cites stand and every new record about the text has the
  passing word (`SameText`, `ScenesStand`, `RecordStands`): an adoption, in
  particular, changes neither.

* **Sessions.**  `CopiesAreTrue`: a copy at the version of the file *is* the
  file, for every version is written once.  So a save that goes through has
  checked and changed the file itself, however long ago it was read, and each
  operation is described by what it does to the file (its `Outcome`); the
  properties follow from the outcomes alone.  `WorkProduct` adds `TasksFit` (the
  record a session is about to mark is one it has minted), `AllSound` (a seal is
  the checksum of what an issued product says) and `Lineage` (revision numbers
  and links agree).  That every step is an act of `PracticePromise` needs to know
  what a second save finds (`PromiseInv`): as long as the copy is the file, the
  record to be marked is named by no claim yet, and the new claim of a correction
  is the last one, undecided, and corrects nothing (`Stands`).  The latter rests
  on `LinksNamed`: no correction is linked to a claim that is yet to come.
* **Sandbox.**  As long as no lock was robbed, the request under the lock is
  the one the lock names, so it is alone (`Alone`); what any page has seen is
  the record on disk or precedes it (`Past`); so equal tokens are equal records
  (`TokensNameStates`), and what is about to be written is the next revision of
  what is there, or a new Sandbox over an empty directory (`Builds`).  `Held`
  says of each image why it is there, or why it is not.

Assumptions on constants are named in each module and are what the code
configures: limits that are naturals, model values that are no records.

Only model-checked: the properties of liveness (`EventuallySettled`,
`ExpiredIsPurged`, `RequestsEnd`), which need fairness and `ENABLED`.  Every
other property of a passing run is proved.

## 7. What is not modelled

* The other operations of `CaseWorkspaceStore` (drawings, folders, briefs,
  perspectives, requirements, ...): each is an edit and a save in
  `ContainerLifecycle`.  The folder tree (11847-12155) is the largest of them
  with an invariant of its own.
* The evidence writes of the three workers, chunked upload, batch intake and the
  reconcile store: steps 8 to 10 of the plan, with their hazards in
  `PROJECT.json`.
* `link_thread_outcome`, `set_review_thread_status`, `record_case_outcome` and
  `reorder_work_product_sections`, which nothing calls.
* Composing an alignment or capital brief (8365-8372), which saves once per
  section: each is an `AddSection`.
* In `BridgeQueue`, two confirmations of one manifest that both find a path
  neither pending nor claimed (`storage_agent_access.py:329`) are reachable and
  stated by no property.
* A revision of a guide whose text is refused (`help_clip_studio.py:204`), and a
  registry file that is not valid JSON (`case_workspace.py:11614`), since the
  contents of those files are abstracted.
* Threads of one process: two threads with two store objects interleave like
  two processes, and are counted as such.
* Torn writes: the modelled stores replace files, or hold the lock.
  `RequirementsRegistry.save` writes in place (hazard at
  `case_workspace.py:11614`).
* `NFS` and other file systems on which `flock` or `O_EXCL` mean less.
* Issuing a help script as a work product, which refuses edits from then on
  (15105): `HelpScript` edits it all the same, so it has more behaviours.
* Sections' ids in a checksum (15398, 15468), which a revision draws afresh: in
  `WorkProduct` a section is its place.
* The fields of a script that are not its content (`record_script_ui_refs`,
  14312, and the like), which no state of the product guards, and records of
  before the Sandbox's revisions, which count as revision 0.
* Typed propositions that Apply refuses (16358): the request ends.
* The temporary file of an image, or of a lock, between its creation and its
  renaming.
* Language models, documents, geometry and pages: functions of one request.

