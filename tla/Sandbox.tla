------------------------------ MODULE Sandbox ------------------------------
(***************************************************************************)
(* The Sandbox of one person: services/sandbox.py, SandboxStore, with the  *)
(* routes of routes/sandbox.py that write.                                 *)
(*                                                                         *)
(* A page is drawn with the token of the Sandbox on disk and a request     *)
(* echoes it.  Every write goes through _update: under a lock file of the  *)
(* owner the record is read, the token compared, the change applied and    *)
(* the record replaced; the retained images it does not name are swept     *)
(* away after the lock is gone.  A lock file that nobody has touched for   *)
(* 30 seconds is taken for that of a dead writer and removed by whoever    *)
(* waits, by its name, so that of two waiters the second may remove the    *)
(* lock the first has just taken.                                          *)
(*                                                                         *)
(* An image is named by its checksum.  What else a turn, a move, a         *)
(* decision or a promotion puts into the record is who wrote it last.  A   *)
(* live writer is never 30 seconds under the lock.                         *)
(***************************************************************************)
EXTENDS Naturals

CONSTANTS
    Requests,       \* requests of one person that may be in flight
    Images,         \* retained images, by checksum
    NoSandbox,      \* no record on disk
    MaxRevision,    \* bound: revisions of one Sandbox
    MaxStarts,      \* bound: Sandboxes started
    MaxDeaths       \* bound: processes that die

VARIABLES
    sandbox,        \* <owner>.json
    media,          \* the files of the owner's media directory
    lock,           \* <owner>.lock: free, held by a request, or left by a dead one
    work,           \* where each request is, and what it has in hand
    started,        \* ids handed out
    deaths,
    robbed,         \* history: the lock of a live writer was removed
    taken,          \* history: images removed by a start, or by a late sweep
    stray           \* history: images left behind by a writer that died

vars == <<sandbox, media, lock, work, started, deaths, robbed, taken, stray>>
history == <<robbed, taken, stray>>

ASSUME SandboxAssumption ==
    /\ MaxRevision \in Nat /\ MaxStarts \in Nat /\ MaxDeaths \in Nat
    /\ {"free", "abandoned", "stale"} \cap Requests = {}

Record == [id : Nat, revision : Nat \ {0}, images : SUBSET Images, by : Requests]

ASSUME NoSandboxAssumption == NoSandbox \notin Record

\* Where a request is: nothing drawn; a page drawn; waiting for the lock; about
\* to remove a lock it found stale; under the lock, before and after its change
\* is ready and after the record is written (or the request refused); to sweep.
Places == {"idle", "page", "waiting", "breaking", "locked", "writing", "leaving", "sweeping"}

\* expected is what the page, or the start before, saw; record is what is, or
\* was, to be written.
Work == [at : Places, expected : Record \cup {NoSandbox},
         internal : BOOLEAN, record : Record \cup {NoSandbox}]
Idle == [at |-> "idle", expected |-> NoSandbox, internal |-> FALSE, record |-> NoSandbox]

At(r, place) == work[r].at = place
Go(r, place) == work' = [work EXCEPT ![r].at = place]

ImagesOf(record) == IF record = NoSandbox THEN {} ELSE record.images

TypeOK ==
    /\ sandbox \in Record \cup {NoSandbox}
    /\ media \subseteq Images
    /\ lock \in Requests \cup {"free", "abandoned", "stale"}
    /\ work \in [Requests -> Work]
    /\ started \in Nat /\ deaths \in Nat
    /\ robbed \in BOOLEAN /\ taken \subseteq Images /\ stray \subseteq Images
    /\ \A r \in Requests : At(r, "writing") => work[r].record # NoSandbox

Init ==
    /\ sandbox = NoSandbox /\ media = {} /\ lock = "free"
    /\ work = [r \in Requests |-> Idle]
    /\ started = 0 /\ deaths = 0
    /\ robbed = FALSE /\ taken = {} /\ stray = {}

-----------------------------------------------------------------------------
\* The page, and the lock.

\* _token_of: two records with one token are one record, if no two writers
\* ever passed the check together.
Token(record) ==
    IF record = NoSandbox THEN <<0, 0>> ELSE <<record.id, record.revision>>

Draw(r) ==
    /\ At(r, "idle")
    /\ work' = [work EXCEPT ![r] = [Idle EXCEPT !.at = "page", !.expected = sandbox]]
    /\ UNCHANGED <<sandbox, media, lock, started, deaths, history>>

\* The request is posted; mark_promoted, called by the planning study, names
\* no token.
Post(r) ==
    /\ At(r, "page")
    /\ \E internal \in BOOLEAN :
          work' = [work EXCEPT ![r].at = "waiting", ![r].internal = internal]
    /\ UNCHANGED <<sandbox, media, lock, started, deaths, history>>

\* Mutant of Acquire: the lock file is opened, whoever has created it.
AcquireAnyway(r) ==
    /\ At(r, "waiting")
    /\ lock' = r
    /\ Go(r, "locked")
    /\ UNCHANGED <<sandbox, media, started, deaths, history>>

Acquire(r) ==
    /\ At(r, "waiting") /\ lock = "free"
    /\ lock' = r
    /\ Go(r, "locked")
    /\ UNCHANGED <<sandbox, media, started, deaths, history>>

FindStale(r) ==
    /\ At(r, "waiting") /\ lock = "stale"
    /\ Go(r, "breaking")
    /\ UNCHANGED <<sandbox, media, lock, started, deaths, history>>

\* Mutant of BreakLock: the file found stale is not removed.
BreakNothing(r) ==
    /\ At(r, "breaking")
    /\ Go(r, "waiting")
    /\ UNCHANGED <<sandbox, media, lock, started, deaths, history>>

\* The unlink goes by name, whatever lock it finds.
BreakLock(r) ==
    /\ At(r, "breaking")
    /\ lock' = "free"
    /\ robbed' = (robbed \/ lock \in Requests)
    /\ Go(r, "waiting")
    /\ UNCHANGED <<sandbox, media, started, deaths, taken, stray>>

\* _LOCK_TIMEOUT; a stale lock is seen before the deadline is.
Busy(r) ==
    /\ At(r, "waiting") /\ lock \notin {"free", "stale"}
    /\ work' = [work EXCEPT ![r] = Idle]
    /\ UNCHANGED <<sandbox, media, lock, started, deaths, history>>

-----------------------------------------------------------------------------
\* Under the lock.

\* What _update compares; the change refuses where there is no such Sandbox.
Current(r) == work[r].internal \/ Token(work[r].expected) = Token(sandbox)

\* A token of another state, a Sandbox that is full or not the one meant.
Refuse(r) ==
    /\ At(r, "locked")
    /\ Go(r, "leaving")
    /\ UNCHANGED <<sandbox, media, lock, started, deaths, history>>

\* Mutant of Start: the first revision of a Sandbox is no revision yet.
StartAtZero(r) ==
    /\ At(r, "locked") /\ ~work[r].internal /\ Current(r) /\ started < MaxStarts
    /\ media' = {} /\ taken' = taken \cup media
    /\ started' = started + 1
    /\ work' = [work EXCEPT ![r].at = "writing",
           ![r].record = [id |-> started', revision |-> 0, images |-> {}, by |-> r]]
    /\ UNCHANGED <<sandbox, lock, deaths, robbed, stray>>

\* start: the images of the old Sandbox go before the new record is written.
Start(r) ==
    /\ At(r, "locked") /\ ~work[r].internal /\ Current(r) /\ started < MaxStarts
    /\ media' = {} /\ taken' = taken \cup media
    /\ started' = started + 1
    /\ work' = [work EXCEPT ![r].at = "writing",
           ![r].record = [id |-> started', revision |-> 1, images |-> {}, by |-> r]]
    /\ UNCHANGED <<sandbox, lock, deaths, robbed, stray>>

\* The record one revision on, with the images that were added.
Revised(r, added) ==
    [sandbox EXCEPT !.revision = @ + 1, !.images = @ \cup added, !.by = r]

\* Mutant of Change: the bytes are stored before the token is looked at.
ChangeBytesFirst(r) ==
    /\ At(r, "locked") /\ sandbox # NoSandbox /\ sandbox.revision < MaxRevision
    /\ \E added \in {{}} \cup {{i} : i \in Images} :
          /\ media' = media \cup added /\ taken' = taken \ added
          /\ \/ Current(r) /\ work' = [work EXCEPT ![r].at = "writing",
                                                   ![r].record = Revised(r, added)]
             \/ ~Current(r) /\ Go(r, "leaving")
    /\ UNCHANGED <<sandbox, lock, started, deaths, robbed, stray>>

\* add_turn, whose image is stored first; move_object, record_decision and
\* mark_promoted add none.
\* An image is written under a temporary name and renamed: here one step.  A
\* late sweep that removes the temporary file in between fails the request with
\* nothing stored, as a refusal does.
Change(r) ==
    /\ At(r, "locked") /\ Current(r)
    /\ sandbox # NoSandbox /\ sandbox.revision < MaxRevision
    /\ \E added \in {{}} \cup {{i} : i \in Images} :
          /\ work[r].internal => added = {}
          /\ media' = media \cup added /\ taken' = taken \ added
          /\ work' = [work EXCEPT ![r].at = "writing", ![r].record = Revised(r, added)]
    /\ UNCHANGED <<sandbox, lock, started, deaths, robbed, stray>>

Write(r) ==
    /\ At(r, "writing")
    /\ sandbox' = work[r].record
    /\ Go(r, "leaving")
    /\ UNCHANGED <<media, lock, started, deaths, history>>

\* The lock is removed, again by name.  Without a record the request is over,
\* and mark_promoted, whose store has no media root, sweeps nothing.
Release(r) ==
    /\ At(r, "leaving")
    /\ lock' = "free"
    /\ robbed' = (robbed \/ lock \in Requests \ {r})
    /\ work' = [work EXCEPT ![r] =
           IF @.record = NoSandbox \/ @.internal THEN Idle ELSE [@ EXCEPT !.at = "sweeping"]]
    /\ UNCHANGED <<sandbox, media, started, deaths, taken, stray>>

\* A sweep is late when another record has been written, or is being written.
Late(r) ==
    \/ sandbox # work[r].record
    \/ \E q \in Requests \ {r} : At(q, "writing")

\* _sweep_media, by the record this request wrote.  A page that moved an object
\* goes on with the new token, and a turn that had to start its Sandbox first
\* goes on to add itself.
Sweep(r) ==
    /\ At(r, "sweeping")
    /\ LET gone == media \ work[r].record.images
       IN  /\ media' = media \ gone
           /\ taken' = IF Late(r) THEN taken \cup gone ELSE taken
           /\ stray' = stray \ gone
    /\ \/ work' = [work EXCEPT ![r] = Idle]
       \/ \E next \in {"page", "waiting"} :
             /\ next = "waiting" => work[r].record.revision = 1
             /\ work' = [work EXCEPT ![r] = [Idle EXCEPT
                    !.at = next, !.expected = work[r].record]]
    /\ UNCHANGED <<sandbox, lock, started, deaths, robbed>>

-----------------------------------------------------------------------------
\* What is not the request's doing.

\* The process dies; its lock file stays.  It may leave images nobody names.
Die(r) ==
    /\ ~At(r, "idle") /\ deaths < MaxDeaths
    /\ deaths' = deaths + 1
    /\ lock' = IF lock = r THEN "abandoned" ELSE lock
    /\ stray' = IF work[r].record = NoSandbox \/ work[r].internal THEN stray
                ELSE stray \cup (media \ ImagesOf(sandbox))
    /\ work' = [work EXCEPT ![r] = Idle]
    /\ UNCHANGED <<sandbox, media, started, robbed, taken>>

\* _LOCK_STALE seconds pass.
Age ==
    /\ lock = "abandoned"
    /\ lock' = "stale"
    /\ UNCHANGED <<sandbox, media, work, started, deaths, history>>

-----------------------------------------------------------------------------

Proceed(r) ==
    \/ Acquire(r) \/ FindStale(r) \/ BreakLock(r) \/ Busy(r)
    \/ Refuse(r) \/ Start(r) \/ Change(r) \/ Write(r) \/ Release(r) \/ Sweep(r)

Next ==
    \/ \E r \in Requests : Draw(r) \/ Post(r) \/ Proceed(r) \/ Die(r)
    \/ Age

Spec == Init /\ [][Next]_vars

\* A posted request is carried on with; whether a page is ever posted is the
\* person's business.
Fairness ==
    /\ \A r \in Requests : WF_vars(Proceed(r))
    /\ WF_vars(Age)

FairSpec == Spec /\ Fairness

-----------------------------------------------------------------------------
\* Properties.

\* The compare-and-swap: what is written builds on the very record on disk, and
\* that record is the one the page's token was drawn from, as long as no live
\* writer has lost its lock to a waiter (SandboxStore._update, _lock).
NoTurnIsLost ==
    [][robbed \/ \E r \in Requests :
          /\ At(r, "writing")
          /\ work[r].internal \/ work[r].expected = sandbox
          /\ sandbox # NoSandbox /\ sandbox'.id = sandbox.id =>
                /\ sandbox'.revision = sandbox.revision + 1
                /\ sandbox.images \subseteq sandbox'.images]_sandbox

\* An image the Sandbox names has its bytes, unless a start has removed them or
\* a sweep that came late; and when no request is under way there is no file
\* the Sandbox does not name, unless a dead writer left it or two writers met
\* (_sweep_media; add_turn: a refused turn leaves nothing behind).
Quiet == \A r \in Requests : work[r].at \in {"idle", "page", "waiting"}

MediaIsAccountedFor ==
    /\ ImagesOf(sandbox) \subseteq media \cup taken
    /\ Quiet /\ ~robbed => media \ ImagesOf(sandbox) \subseteq stray

\* Every posted request is answered, also behind the lock of a dead writer.
RequestsEnd ==
    \A r \in Requests : At(r, "waiting") ~> work[r].at \in {"idle", "page"}
=============================================================================
