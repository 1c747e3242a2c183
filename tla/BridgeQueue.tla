---------------------------- MODULE BridgeQueue ----------------------------
(***************************************************************************)
(* The byte-request queue of services/bridge_queue.py, as used by          *)
(* services/storage_agent_access.py: one project's files under             *)
(* _bridge_queue/{pending,claimed,served}, and the web processes that      *)
(* serve reconciles, the agent's polls and deliveries, the ingestion of    *)
(* delivered bytes and the revocation of the agent.                        *)
(*                                                                         *)
(* Nothing is locked.  Each file operation is a step of its own, and a     *)
(* process keeps what it has read in hand from one to the next.            *)
(***************************************************************************)
EXTENDS Naturals, FiniteSets

CONSTANTS
    Requests,       \* request identities; each is enqueued at most once
    Paths,          \* files the agent's manifest advertises
    Web,            \* web processes
    Pollers,        \* those of them that may serve a poll or an enqueue
    RequestTtl,     \* request_ttl_seconds, in ticks
    ClaimTtl,       \* claim_ttl_seconds, in ticks
    MaxCrashes,     \* bound: deaths of web processes
    NoFile, NoOne

ASSUME BridgeAssumption ==
    /\ Pollers \subseteq Web
    /\ RequestTtl \in Nat /\ ClaimTtl \in Nat /\ ClaimTtl <= RequestTtl
    /\ MaxCrashes \in Nat
    /\ NoOne \notin Requests \cup Paths \cup Web
    /\ NoFile \notin Nat

VARIABLES
    pending,    \* pending/<r>.json: the age of its requested_at, or NoFile
    claimed,    \* claimed/<r>.json: a claim or NoFile
    served,     \* served/<r>.json: the age of its served_at, or NoFile
    staged,     \* requests with a claimed/<r>.bytes
    asked,      \* the path of every request ever enqueued, or NoOne
    sources,    \* paths registered as sources of the workspace
    agent,      \* requests the agent has been given and not yet answered
    revoked,    \* the agent's enrolment carries revoked_at
    web,        \* what each web process has in hand
    crashes,
    handed,     \* history: polls that took each request
    delivered,  \* history: payloads staged for each request
    consumed,   \* history: payloads taken for each request
    unclaimed,  \* history: requests one of whose claims has been taken away
    judged      \* history: requests a sweep has found too old or unreadable

vars == <<pending, claimed, served, staged, asked, sources, agent, revoked,
          web, crashes, handed, delivered, consumed, unclaimed, judged>>
histories == <<handed, delivered, consumed, unclaimed, judged>>

Age(ttl) == 0..(ttl + 1)
Older(age, ttl) == IF age > ttl THEN age ELSE age + 1

\* The file a process created, whether its record is written yet, and the age
\* of the record's claimed_at.
Claim == [by : Web, full : BOOLEAN, age : Age(ClaimTtl)]

ASSUME ClaimAssumption == NoFile \notin Claim

Dirs == {"pending", "claimed", "served"}

\* Steps with no request in hand, and steps on one request.
FreeSteps == {"rest", "list", "sweep", "poll", "reading", "asking"}
BusySteps == {"unstage", "discard", "claim", "fill", "retire", "stage", "note",
              "take", "serve", "close", "register"}

\* What a process does once its pass over the three directories is over.
Tasks == {"rest", "poll", "ask", "purge"}

Rest == [pc |-> "rest", task |-> "rest", dir |-> "pending", todo |-> {},
         r |-> NoOne, age |-> 0, got |-> {}, path |-> NoOne]

Hand(pcs, rs) == [pc : pcs, task : Tasks, dir : Dirs, todo : SUBSET Requests, r : rs,
                  age : Age(ClaimTtl), got : SUBSET Requests, path : Paths \cup {NoOne}]

TypeOK ==
    /\ pending \in [Requests -> Age(RequestTtl) \cup {NoFile}]
    /\ claimed \in [Requests -> Claim \cup {NoFile}]
    /\ served \in [Requests -> Age(RequestTtl) \cup {NoFile}]
    /\ staged \subseteq Requests
    /\ asked \in [Requests -> Paths \cup {NoOne}]
    /\ sources \subseteq Paths
    /\ agent \subseteq Requests
    /\ revoked \in BOOLEAN
    /\ web \in [Web -> Hand(FreeSteps, {NoOne}) \cup Hand(BusySteps, Requests)]
    /\ crashes \in Nat
    /\ handed \in [Requests -> Nat]
    /\ delivered \in [Requests -> Nat]
    /\ consumed \in [Requests -> Nat]
    /\ unclaimed \subseteq Requests /\ judged \subseteq Requests

Init ==
    /\ pending = [r \in Requests |-> NoFile]
    /\ claimed = [r \in Requests |-> NoFile]
    /\ served = [r \in Requests |-> NoFile]
    /\ staged = {} /\ sources = {} /\ agent = {}
    /\ asked = [r \in Requests |-> NoOne]
    /\ revoked = FALSE
    /\ web = [p \in Web |-> Rest]
    /\ crashes = 0
    /\ handed = [r \in Requests |-> 0]
    /\ delivered = [r \in Requests |-> 0]
    /\ consumed = [r \in Requests |-> 0]
    /\ unclaimed = {} /\ judged = {}

-----------------------------------------------------------------------------
At(p, pc) == web[p].pc = pc

\* The process goes on with a changed hand, or is done.
Hold(p, hand) == web' = [web EXCEPT ![p] = hand]
Step(p, pc) == web' = [web EXCEPT ![p].pc = pc]

Readable(r) == claimed[r] # NoFile /\ claimed[r].full

\* _all_in: the requests of a directory that can be read.
Listed == {r \in Requests : pending[r] # NoFile \/ Readable(r)}

\* The history of a step that unlinks the claim of r, if there is one.
Unclaim(r) ==
    unclaimed' = unclaimed \cup {q \in Requests : q = r /\ claimed[q] # NoFile}

FilesOf(dir) == CASE dir = "pending" -> {r \in Requests : pending[r] # NoFile}
                  [] dir = "claimed" -> {r \in Requests : claimed[r] # NoFile}
                  [] OTHER           -> {r \in Requests : served[r] # NoFile}

-----------------------------------------------------------------------------
(* sweep_expired and purge_project: one pass over the three directories *)

ListDir(p) ==
    /\ At(p, "list")
    /\ Hold(p, [web[p] EXCEPT !.pc = "sweep", !.todo = FilesOf("pending")])
    /\ UNCHANGED <<pending, claimed, served, staged, asked, sources, agent, revoked,
                   crashes, histories>>

\* Mutant of Verdict: an old claim is kept.
VerdictClaimsKept(p, r) ==
    IF web[p].task # "purge" /\ web[p].dir = "pending" /\ pending[r] # NoFile
       /\ pending[r] > RequestTtl
    THEN "unstage" ELSE "sweep"

\* What the pass does with a file it reads now.  A sweep removes what it cannot
\* read (a file that has gone, or a claim not written yet) and what is too old;
\* a purge takes everything it can read.
Verdict(p, r) ==
    LET dir      == web[p].dir
        readable == CASE dir = "pending" -> pending[r] # NoFile
                      [] dir = "claimed" -> Readable(r)
                      [] OTHER           -> served[r] # NoFile
        old      == CASE dir = "pending" -> pending[r] > RequestTtl
                      [] dir = "claimed" -> claimed[r].age > ClaimTtl
                      [] OTHER           -> served[r] > RequestTtl
    IN  IF web[p].task = "purge"
        THEN IF readable THEN "unstage" ELSE "sweep"
        ELSE IF ~readable THEN "discard" ELSE IF old THEN "unstage" ELSE "sweep"

SweepLook(p, r) ==
    /\ At(p, "sweep") /\ r \in web[p].todo
    /\ Hold(p, [web[p] EXCEPT !.pc = Verdict(p, r), !.todo = @ \ {r},
                              !.r = IF Verdict(p, r) = "sweep" THEN NoOne ELSE r])
    /\ judged' = IF Verdict(p, r) # "sweep" /\ web[p].task # "purge"
                 THEN judged \cup {r} ELSE judged
    /\ UNCHANGED <<pending, claimed, served, staged, asked, sources, agent, revoked,
                   crashes, handed, delivered, consumed, unclaimed>>

\* The payload first, if there is one, then the record.
Unstage(p) ==
    /\ At(p, "unstage")
    /\ staged' = staged \ {web[p].r}
    /\ Step(p, "discard")
    /\ UNCHANGED <<pending, claimed, served, asked, sources, agent, revoked,
                   crashes, histories>>

Discard(p) ==
    LET r == web[p].r
        Without(files, dir) == IF web[p].dir = dir THEN [files EXCEPT ![r] = NoFile] ELSE files
    IN  /\ At(p, "discard")
        /\ pending' = Without(pending, "pending")
        /\ claimed' = Without(claimed, "claimed")
        /\ served'  = Without(served, "served")
        /\ Unclaim(IF web[p].dir = "claimed" THEN r ELSE NoOne)
        /\ Hold(p, [web[p] EXCEPT !.pc = "sweep", !.r = NoOne])
        /\ UNCHANGED <<staged, asked, sources, agent, revoked, crashes,
                       handed, delivered, consumed, judged>>

\* The directory is done: the next one is listed, or what the pass was for begins.
SweepNext(p) ==
    LET hand == web[p]
    IN  /\ At(p, "sweep") /\ web[p].todo = {}
        /\ CASE hand.dir = "pending" ->
                  Hold(p, [hand EXCEPT !.dir = "claimed", !.todo = FilesOf("claimed")])
             [] hand.dir = "claimed" ->
                  Hold(p, [hand EXCEPT !.dir = "served", !.todo = FilesOf("served")])
             [] hand.task = "poll"   ->
                  Hold(p, [hand EXCEPT !.pc = "poll", !.dir = "pending",
                                       !.todo = FilesOf("pending")])
             [] hand.task = "ask"    -> Hold(p, [hand EXCEPT !.pc = "asking"])
             [] OTHER                -> Hold(p, Rest)
        /\ UNCHANGED <<pending, claimed, served, staged, asked, sources, agent, revoked,
                       crashes, histories>>

-----------------------------------------------------------------------------
(* reconcile_external_manifest, for one new file of the manifest *)

\* Classified NEW by the workspace's sources.
Classify(p, path) ==
    /\ At(p, "rest") /\ p \in Pollers
    /\ path \notin sources
    /\ Hold(p, [Rest EXCEPT !.pc = "reading", !.path = path])
    /\ UNCHANGED <<pending, claimed, served, staged, asked, sources, agent, revoked,
                   crashes, histories>>

AlreadyAsked(path) == \E r \in Listed : asked[r] = path

\* A path that is pending or claimed is skipped; enqueue sweeps first.
Read(p) ==
    /\ At(p, "reading")
    /\ Hold(p, IF AlreadyAsked(web[p].path) THEN Rest
               ELSE [web[p] EXCEPT !.pc = "list", !.task = "ask"])
    /\ UNCHANGED <<pending, claimed, served, staged, asked, sources, agent, revoked,
                   crashes, histories>>

\* A fresh identity gets a pending file.  (Bound: when no identity is left the
\* call is taken to end without one.)
Enqueue(p) ==
    /\ At(p, "asking")
    /\ \/ \E r \in Requests :
            /\ asked[r] = NoOne
            /\ asked' = [asked EXCEPT ![r] = web[p].path]
            /\ pending' = [pending EXCEPT ![r] = 0]
       \/ /\ \A r \in Requests : asked[r] # NoOne
          /\ UNCHANGED <<asked, pending>>
    /\ Hold(p, Rest)
    /\ UNCHANGED <<claimed, served, staged, sources, agent, revoked, crashes, histories>>

-----------------------------------------------------------------------------
(* claim_pending: the agent's poll *)

PollStart(p) ==
    /\ At(p, "rest") /\ p \in Pollers
    /\ ~revoked
    /\ Hold(p, [Rest EXCEPT !.pc = "list", !.task = "poll"])
    /\ UNCHANGED <<pending, claimed, served, staged, asked, sources, agent, revoked,
                   crashes, histories>>

\* The same sweep on behalf of another project, whose requests are not these.
ForeignSweep(p) ==
    /\ At(p, "rest") /\ p \in Pollers
    /\ Hold(p, [Rest EXCEPT !.pc = "list"])
    /\ UNCHANGED <<pending, claimed, served, staged, asked, sources, agent, revoked,
                   crashes, histories>>

\* Mutant of PollLook: the pending entry is retired before the claim exists.
PollLookRetires(p, r) ==
    /\ At(p, "poll") /\ r \in web[p].todo
    /\ Hold(p, IF pending[r] = NoFile THEN [web[p] EXCEPT !.todo = @ \ {r}]
               ELSE [web[p] EXCEPT !.pc = "claim", !.r = r, !.age = 0, !.todo = @ \ {r}])
    /\ pending' = [pending EXCEPT ![r] = NoFile]
    /\ UNCHANGED <<claimed, served, staged, asked, sources, agent, revoked,
                   crashes, histories>>

\* Mutant of PollLook: the loop goes on with the request of the pass before.
PollLookNoRequest(p, r) ==
    /\ At(p, "poll") /\ r \in web[p].todo
    /\ Hold(p, [web[p] EXCEPT !.pc = "claim", !.age = 0, !.todo = @ \ {r}])
    /\ UNCHANGED <<pending, claimed, served, staged, asked, sources, agent, revoked,
                   crashes, histories>>

\* Read a pending record of the listing; claimed_at is taken here.
PollLook(p, r) ==
    /\ At(p, "poll") /\ r \in web[p].todo
    /\ Hold(p, IF pending[r] = NoFile THEN [web[p] EXCEPT !.todo = @ \ {r}]
               ELSE [web[p] EXCEPT !.pc = "claim", !.r = r, !.age = 0, !.todo = @ \ {r}])
    /\ UNCHANGED <<pending, claimed, served, staged, asked, sources, agent, revoked,
                   crashes, histories>>

\* Mutant of Create: os.open without O_EXCL.
CreateOver(p) ==
    LET r == web[p].r
    IN  /\ At(p, "claim")
        /\ claimed' = [claimed EXCEPT ![r] = [by |-> p, full |-> FALSE, age |-> web[p].age]]
        /\ Step(p, "fill")
        /\ UNCHANGED <<pending, served, staged, asked, sources, agent, revoked,
                       crashes, histories>>

\* os.open with O_CREAT | O_EXCL: an empty claim, unless there is one.
Create(p) ==
    LET r == web[p].r
    IN  /\ At(p, "claim")
        /\ IF claimed[r] # NoFile
           THEN Hold(p, [web[p] EXCEPT !.pc = "poll", !.r = NoOne]) /\ UNCHANGED claimed
           ELSE /\ claimed' = [claimed EXCEPT ![r] =
                                 [by |-> p, full |-> FALSE, age |-> web[p].age]]
                /\ Step(p, "fill")
        /\ UNCHANGED <<pending, served, staged, asked, sources, agent, revoked,
                       crashes, histories>>

\* The record goes into the file this process opened, if that is still there; or
\* the write fails, whatever stands under the claim's name is unlinked, and the
\* poll ends in an error.
Fill(p) ==
    LET r    == web[p].r
        mine == claimed[r] # NoFile /\ claimed[r].by = p
    IN  /\ At(p, "fill")
        /\ \/ /\ claimed' = IF mine THEN [claimed EXCEPT ![r].full = TRUE] ELSE claimed
              /\ Step(p, "retire")
              /\ UNCHANGED unclaimed
           \/ /\ claimed' = [claimed EXCEPT ![r] = NoFile]
              /\ Unclaim(r)
              /\ Hold(p, Rest)
        /\ UNCHANGED <<pending, served, staged, asked, sources, agent, revoked,
                       crashes, handed, delivered, consumed, judged>>

\* Mutant of Retire: the pending entry is left for the sweep.
RetireNothing(p) ==
    LET r == web[p].r
    IN  /\ At(p, "retire")
        /\ handed' = [handed EXCEPT ![r] = @ + 1]
        /\ Hold(p, [web[p] EXCEPT !.pc = "poll", !.r = NoOne, !.got = @ \cup {r}])
        /\ UNCHANGED <<pending, claimed, served, staged, asked, sources, agent, revoked,
                       crashes, delivered, consumed, unclaimed, judged>>

Retire(p) ==
    LET r == web[p].r
    IN  /\ At(p, "retire")
        /\ pending' = [pending EXCEPT ![r] = NoFile]
        /\ handed' = [handed EXCEPT ![r] = @ + 1]
        /\ Hold(p, [web[p] EXCEPT !.pc = "poll", !.r = NoOne, !.got = @ \cup {r}])
        /\ UNCHANGED <<claimed, served, staged, asked, sources, agent, revoked,
                       crashes, delivered, consumed, unclaimed, judged>>

\* The answer reaches the agent, or is lost on the way.
PollEnd(p) ==
    /\ At(p, "poll") /\ web[p].todo = {}
    /\ \E told \in {web[p].got, {}} : agent' = agent \cup told
    /\ Hold(p, Rest)
    /\ UNCHANGED <<pending, claimed, served, staged, asked, sources, revoked,
                   crashes, histories>>

-----------------------------------------------------------------------------
(* deliver: the agent answers one request, once *)

\* The claim is read, or the delivery is refused: no claim, a revoked agent, or
\* bytes that are not those of the manifest.
DeliverRead(p, r) ==
    /\ At(p, "rest") /\ r \in agent
    /\ agent' = agent \ {r}
    /\ \/ /\ ~revoked /\ Readable(r)
          /\ Hold(p, [Rest EXCEPT !.pc = "stage", !.r = r, !.age = claimed[r].age])
       \/ UNCHANGED web
    /\ UNCHANGED <<pending, claimed, served, staged, asked, sources, revoked,
                   crashes, histories>>

Stage(p) ==
    LET r == web[p].r
    IN  /\ At(p, "stage")
        /\ staged' = staged \cup {r}
        /\ delivered' = [delivered EXCEPT ![r] = @ + 1]
        /\ Step(p, "note")
        /\ UNCHANGED <<pending, claimed, served, asked, sources, agent, revoked,
                       crashes, handed, consumed, unclaimed, judged>>

\* The record read before goes back, with delivered_at and its old claimed_at.
Note(p) ==
    LET r == web[p].r
    IN  /\ At(p, "note")
        /\ claimed' = [claimed EXCEPT ![r] = [by |-> p, full |-> TRUE, age |-> web[p].age]]
        /\ Hold(p, Rest)
        /\ UNCHANGED <<pending, served, staged, asked, sources, agent, revoked,
                       crashes, histories>>

-----------------------------------------------------------------------------
(* consume, and the registration ingest_delivered_bytes makes of the bytes *)

\* The record and the bytes are read.
TakeRead(p, r) ==
    /\ At(p, "rest")
    /\ Readable(r) /\ r \in staged
    /\ Hold(p, [Rest EXCEPT !.pc = "take", !.r = r])
    /\ UNCHANGED <<pending, claimed, served, staged, asked, sources, agent, revoked,
                   crashes, histories>>

\* Mutant of Take: unlink(missing_ok=True).
TakeMissingOk(p) ==
    LET r == web[p].r
    IN  /\ At(p, "take")
        /\ staged' = staged \ {r}
        /\ consumed' = [consumed EXCEPT ![r] = @ + 1]
        /\ Step(p, "serve")
        /\ UNCHANGED <<pending, claimed, served, asked, sources, agent, revoked,
                       crashes, handed, delivered, unclaimed, judged>>

\* The unlink raises when the payload is no longer there.
Take(p) ==
    LET r == web[p].r
    IN  /\ At(p, "take")
        /\ staged' = staged \ {r}
        /\ IF r \in staged
           THEN /\ consumed' = [consumed EXCEPT ![r] = @ + 1]
                /\ Step(p, "serve")
           ELSE Hold(p, Rest) /\ UNCHANGED consumed
        /\ UNCHANGED <<pending, claimed, served, asked, sources, agent, revoked,
                       crashes, handed, delivered, unclaimed, judged>>

Serve(p) ==
    /\ At(p, "serve")
    /\ served' = [served EXCEPT ![web[p].r] = 0]
    /\ Step(p, "close")
    /\ UNCHANGED <<pending, claimed, staged, asked, sources, agent, revoked,
                   crashes, histories>>

Close(p) ==
    /\ At(p, "close")
    /\ claimed' = [claimed EXCEPT ![web[p].r] = NoFile]
    /\ Unclaim(web[p].r)
    /\ Step(p, "register")
    /\ UNCHANGED <<pending, served, staged, asked, sources, agent, revoked,
                   crashes, handed, delivered, consumed, judged>>

\* The workspace is saved with the new source, or the save is refused because
\* the record has moved on.
Register(p) ==
    /\ At(p, "register")
    /\ sources' \in {sources, sources \cup {asked[web[p].r]}}
    /\ Hold(p, Rest)
    /\ UNCHANGED <<pending, claimed, served, staged, asked, agent, revoked,
                   crashes, histories>>

-----------------------------------------------------------------------------
\* revoke_agent: the row first, then the purge of the queue.
Revoke(p) ==
    /\ At(p, "rest") /\ ~revoked
    /\ revoked' = TRUE
    /\ Hold(p, [Rest EXCEPT !.pc = "list", !.task = "purge"])
    /\ UNCHANGED <<pending, claimed, served, staged, asked, sources, agent,
                   crashes, histories>>

Crash(p) ==
    /\ crashes < MaxCrashes
    /\ ~At(p, "rest")
    /\ crashes' = crashes + 1
    /\ Hold(p, Rest)
    /\ UNCHANGED <<pending, claimed, served, staged, asked, sources, agent, revoked, histories>>

\* Every stamp grows older, those in hand too.
Tick ==
    /\ pending' = [r \in Requests |->
         IF pending[r] = NoFile THEN NoFile ELSE Older(pending[r], RequestTtl)]
    /\ claimed' = [r \in Requests |->
         IF claimed[r] = NoFile THEN NoFile
         ELSE [claimed[r] EXCEPT !.age = Older(@, ClaimTtl)]]
    /\ served' = [r \in Requests |->
         IF served[r] = NoFile THEN NoFile ELSE Older(served[r], RequestTtl)]
    /\ web' = [p \in Web |->
         IF web[p].pc \in {"claim", "fill", "stage", "note"}
         THEN [web[p] EXCEPT !.age = Older(@, ClaimTtl)] ELSE web[p]]
    /\ UNCHANGED <<staged, asked, sources, agent, revoked, crashes, histories>>

GoOn(p) ==
    \/ ListDir(p) \/ Unstage(p) \/ Discard(p) \/ SweepNext(p)
    \/ Read(p) \/ Enqueue(p) \/ Create(p) \/ Fill(p) \/ Retire(p) \/ PollEnd(p)
    \/ Stage(p) \/ Note(p) \/ Take(p) \/ Serve(p) \/ Close(p) \/ Register(p)
    \/ \E r \in Requests : SweepLook(p, r) \/ PollLook(p, r)

Begin(p) ==
    \/ \E path \in Paths : Classify(p, path)
    \/ PollStart(p) \/ ForeignSweep(p) \/ Revoke(p)
    \/ \E r \in Requests : DeliverRead(p, r) \/ TakeRead(p, r)

Next == Tick \/ \E p \in Web : GoOn(p) \/ Begin(p) \/ Crash(p)

Spec == Init /\ [][Next]_vars

\* Time passes, a request that was begun goes on, and the agents of this or of
\* other projects keep polling, whichever process serves them.
Fairness ==
    /\ WF_vars(Tick)
    /\ \A p \in Web : WF_vars(GoOn(p))
    /\ SF_vars(\E p \in Pollers : ForeignSweep(p))

FairSpec == Spec /\ Fairness

-----------------------------------------------------------------------------
(* Properties *)

\* However deliveries, ingestions, sweeps and crashes overlap, the bytes of one
\* delivery are taken at most once.
TakenAtMostAsDelivered == \A r \in Requests : consumed[r] <= delivered[r]

\* No two polls are told that they hold the same request.  Not kept by the code:
\* see the two properties that follow for what is.
HandedOutOnce == \A r \in Requests : handed[r] <= 1

\* However many polls race, and wherever one of them dies, a request is handed out
\* a second time only after a claim of it has been taken away: the exclusive
\* create lets one poll through for as long as its file stands.
HandedOutOncePerClaim == \A r \in Requests : handed[r] > 1 => r \in unclaimed

\* A poll that has read the pending record of r and is claiming it.
Claims(p, r) == web[p].pc \in {"claim", "fill", "retire"} /\ web[p].r = r

\* Once a request has been handed out no poll takes it up any more, whether its
\* claim is swept, consumed or purged: a second hand-out can only come from a poll
\* that had read the pending record before.
NoLaterTaker ==
    [][\A p \in Web, r \in Requests :
          handed[r] > 0 /\ Claims(p, r)' => Claims(p, r)]_vars

Live(r) == pending[r] # NoFile \/ claimed[r] # NoFile

\* Somebody can still find the request, or has it.
Findable(r) == r \in Listed

\* However polls, sweeps, deliveries and deaths overlap, a request leaves the queue
\* only because its bytes were taken, because a sweep had found it or its claim
\* too old or unreadable, or because the agent was revoked.
NoRequestLost ==
    [][\A r \in Requests :
          Findable(r) /\ ~Findable(r)' => consumed[r] > 0 \/ r \in judged \/ revoked]_vars

\* The same without the sweep that judges what it cannot read: what a reader of
\* sweep_expired expects, and what the code keeps only while a claim that is being
\* written is not swept.
NoFreshRequestLost ==
    [][\A r \in Requests :
          (Findable(r) /\ ~Findable(r)') =>
             \/ consumed[r] > 0
             \/ pending[r] # NoFile /\ pending[r] > RequestTtl
             \/ claimed[r] # NoFile /\ claimed[r].age > ClaimTtl
             \/ revoked]_vars

\* Every request comes to an end: answered, or swept.
RequestsEnd == \A r \in Requests : Live(r) ~> ~Live(r)
=============================================================================
