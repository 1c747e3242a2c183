----------------------------- MODULE CaseReview -----------------------------
(***************************************************************************)
(* The life of a Case (an investigation) in services/case_workspace.py:    *)
(* private, shared, collaborative; archived and carried forward into a     *)
(* derived Case; its findings, from an analysis through validation and     *)
(* disposition to Apply and project knowledge; its review threads; and the *)
(* governance log, which is appended after the save it reports.            *)
(*                                                                         *)
(* Cases, findings and threads are the lists of the file and are named by  *)
(* their place in it.  Of a list of validations or dispositions only the   *)
(* last entry is ever read, so it alone is kept; of sources, whether the   *)
(* Case holds the one that the provisional relationship names.             *)
(***************************************************************************)
EXTENDS WorkspaceSessions, Sequences

CONSTANTS
    Users,
    Admins,         \* users whose session role is "admin"
    Who,            \* the user each session is signed in as
    NoUser,
    MaxCases, MaxFindings, MaxThreads, MaxTurns  \* bounds: lengths of the lists

VARIABLES
    foreign,        \* history: cases a non-owner contributed to by a write that
                    \* asks whether it crosses the threshold (Contribute)
    uncounted,      \* history: Shared Cases a non-owner contributed to by a
                    \* write that does not ask (WriteUncounted)
    owed,           \* log entries a session has still to append
    logged,         \* cases the governance log says became collaborative
    lost            \* history: entries whose process died before appending

history == <<foreign, uncounted, owed, logged, lost>>
vars == <<stored, held, foreign, uncounted, owed, logged, lost>>

ASSUME ReviewAssumption ==
    /\ Admins \subseteq Users
    /\ Who \in [Sessions -> Users]
    /\ NoUser \notin Users
    /\ MaxCases \in Nat /\ MaxFindings \in Nat
    /\ MaxThreads \in Nat /\ MaxTurns \in Nat

Visibilities == {"private", "shared", "collaborative"}
Verdicts == {"Correct", "Incorrect"}
Dispositions == {"Confirmed", "Rejected"}
ThreadStatuses == {"open", "waiting", "under_review", "resolved", "reopened"}

CaseRecord == [owner : Users, visibility : Visibilities, by : Users \cup {NoUser},
               archived : BOOLEAN, from : Nat, linked : BOOLEAN, turns : Nat]
Finding == [case : Nat, carried : Nat, verdict : Verdicts \cup {"none"},
            disposition : Dispositions \cup {"none"}, applied : BOOLEAN]
Thread == [case : Nat, carried : Nat, status : ThreadStatuses,
           spoken : BOOLEAN, asked : BOOLEAN]
Workspace == [version : Nat, cases : Seq(CaseRecord), findings : Seq(Finding),
              threads : Seq(Thread), confirmed : BOOLEAN, knowledge : Seq(Nat)]

ASSUME NoCopyAssumption == NoCopy \notin Workspace

\* Everything that names a Case, a finding or a thread names one that exists.
WellNamed(ws) ==
    /\ \A i \in 1..Len(ws.findings) :
          /\ ws.findings[i].case \in 1..Len(ws.cases)
          /\ ws.findings[i].carried < i
    /\ \A i \in 1..Len(ws.threads) :
          /\ ws.threads[i].case \in 1..Len(ws.cases)
          /\ ws.threads[i].carried < i
    /\ \A i \in 1..Len(ws.cases) : ws.cases[i].from < i

TypeOK ==
    /\ stored \in Workspace /\ WellNamed(stored)
    /\ held \in [Sessions -> Workspace \cup {NoCopy}]
    /\ \A s \in Sessions : Holding(s) => WellNamed(held[s])
    /\ foreign \subseteq Nat /\ uncounted \subseteq Nat
    /\ owed \in [Sessions -> SUBSET Nat]
    /\ logged \subseteq Nat
    /\ lost \subseteq Nat

EmptyWorkspace == [version |-> 0, cases |-> <<>>, findings |-> <<>>,
                   threads |-> <<>>, confirmed |-> FALSE, knowledge |-> <<>>]

Init ==
    /\ stored = EmptyWorkspace
    /\ held = [s \in Sessions |-> NoCopy]
    /\ foreign = {} /\ uncounted = {}
    /\ owed = [s \in Sessions |-> {}]
    /\ logged = {}
    /\ lost = {}

NewCase(u, from, linked) ==
    [owner |-> u, visibility |-> "private", by |-> NoUser, archived |-> FALSE,
     from |-> from, linked |-> linked, turns |-> 0]
NewFinding(c, carried) ==
    [case |-> c, carried |-> carried, verdict |-> "none",
     disposition |-> "none", applied |-> FALSE]
NewThread(c, carried, spoken) ==
    [case |-> c, carried |-> carried, status |-> "open",
     spoken |-> spoken, asked |-> FALSE]

CaseIds(ws) == 1..Len(ws.cases)
FindingIds(ws) == 1..Len(ws.findings)
ThreadIds(ws) == 1..Len(ws.threads)

-----------------------------------------------------------------------------
\* The rules every operation goes through.

Visible(ws, c, u) == ws.cases[c].visibility # "private" \/ ws.cases[c].owner = u

NotArchived(ws, c) == ~ws.cases[c].archived

OwnerOrAdmin(ws, c, u) == ws.cases[c].owner = u \/ u \in Admins

\* Mutant of Crossed: every foreign contribution is reported, not the first.
CrossedEachTime(ws, C, u) ==
    {c \in C : ws.cases[c].visibility # "private" /\ ws.cases[c].owner # u}

\* The Cases of C whose collaboration threshold a write of u crosses.
Crossed(ws, C, u) ==
    {c \in C : ws.cases[c].visibility = "shared" /\ ws.cases[c].owner # u}

Settled(ws, C, u) ==
    [ws EXCEPT !.cases = [c \in DOMAIN ws.cases |->
        IF c \in Crossed(ws, C, u)
        THEN [ws.cases[c] EXCEPT !.visibility = "collaborative", !.by = u]
        ELSE ws.cases[c]]]

\* A governed write that no document counts as a contribution.
Write(s, ws) == Save(s, ws) /\ UNCHANGED history

\* A write of user-initiated analysis, or of a person's message, into Case c
\* that leaves its threshold alone.
WriteUncounted(s, ws, c) ==
    /\ Save(s, ws)
    /\ uncounted' = uncounted \cup Crossed(held[s], {c}, Who[s])
    /\ UNCHANGED <<foreign, owed, logged, lost>>

\* A write that counts as a contribution to the Cases C: the crossing is saved
\* with it, and its log entry is appended afterwards.
Contribute(s, ws, C) ==
    /\ Save(s, Settled(ws, C, Who[s]))
    /\ foreign' = foreign \cup
           {c \in C : ws.cases[c].visibility # "private" /\ ws.cases[c].owner # Who[s]}
    /\ owed' = [owed EXCEPT ![s] = Crossed(ws, C, Who[s])]
    /\ UNCHANGED <<uncounted, logged, lost>>

-----------------------------------------------------------------------------
\* Cases.

\* The routes that create a Case go on with it (a first message, a photo).
CreateCase(s) ==
    LET new == [held[s] EXCEPT !.cases = Append(held[s].cases, NewCase(Who[s], 0, FALSE))]
    IN  /\ Holding(s)
        /\ Len(held[s].cases) < MaxCases
        /\ SaveThen(s, new, Stamped(new))
        /\ UNCHANGED history

ShareCase(s) ==
    /\ Holding(s)
    /\ \E c \in CaseIds(held[s]) :
          /\ NotArchived(held[s], c)
          /\ held[s].cases[c].visibility = "private"
          /\ held[s].cases[c].owner = Who[s]
          /\ Write(s, [held[s] EXCEPT !.cases[c].visibility = "shared"])

\* Mutant of RetractCase: whatever is not private may be retracted.
RetractAnyCase(s) ==
    /\ Holding(s)
    /\ \E c \in CaseIds(held[s]) :
          /\ NotArchived(held[s], c)
          /\ held[s].cases[c].visibility # "private"
          /\ held[s].cases[c].owner = Who[s]
          /\ Write(s, [held[s] EXCEPT !.cases[c].visibility = "private"])

RetractCase(s) ==
    /\ Holding(s)
    /\ \E c \in CaseIds(held[s]) :
          /\ NotArchived(held[s], c)
          /\ held[s].cases[c].visibility = "shared"
          /\ held[s].cases[c].owner = Who[s]
          /\ Write(s, [held[s] EXCEPT !.cases[c].visibility = "private"])

ArchiveCase(s) ==
    /\ Holding(s)
    /\ \E c \in CaseIds(held[s]) :
          /\ NotArchived(held[s], c)
          /\ OwnerOrAdmin(held[s], c, Who[s])
          /\ Write(s, [held[s] EXCEPT !.cases[c].archived = TRUE])

\* Mutant of DeriveCase: the new Case is recorded as its own predecessor.
DeriveCaseFromItself(s) ==
    /\ Holding(s)
    /\ Len(held[s].cases) < MaxCases
    /\ \E c \in CaseIds(held[s]) :
          /\ held[s].cases[c].archived
          /\ OwnerOrAdmin(held[s], c, Who[s])
          /\ Write(s, [held[s] EXCEPT !.cases = Append(held[s].cases,
                 NewCase(Who[s], Len(held[s].cases) + 1, held[s].cases[c].linked))])

DeriveCase(s) ==
    /\ Holding(s)
    /\ Len(held[s].cases) < MaxCases
    /\ \E c \in CaseIds(held[s]) :
          /\ held[s].cases[c].archived
          /\ OwnerOrAdmin(held[s], c, Who[s])
          /\ Write(s, [held[s] EXCEPT !.cases =
                 Append(held[s].cases, NewCase(Who[s], c, held[s].cases[c].linked))])

\* Mutant of MayCarry: into any live Case.
MayCarryAnywhere(ws, from, c, u) ==
    /\ ws.cases[from].archived
    /\ OwnerOrAdmin(ws, c, u)
    /\ NotArchived(ws, c)

\* _validate_carry_forward_authority: from an archived Case into a live Case
\* that was derived from that very one.
MayCarry(ws, from, c, u) ==
    /\ ws.cases[from].archived
    /\ ws.cases[c].from = from
    /\ OwnerOrAdmin(ws, c, u)
    /\ NotArchived(ws, c)

\* An admin may carry work into a Case of another owner: what is written is
\* user-initiated analysis and a message of the admin, and crosses nothing.
AdoptFinding(s) ==
    /\ Holding(s)
    /\ Len(held[s].findings) < MaxFindings
    /\ \E f \in FindingIds(held[s]), c \in CaseIds(held[s]) :
          /\ MayCarry(held[s], held[s].findings[f].case, c, Who[s])
          /\ WriteUncounted(s, [held[s] EXCEPT !.findings =
                 Append(held[s].findings, NewFinding(c, f))], c)

AdoptMessage(s) ==
    /\ Holding(s)
    /\ Len(held[s].threads) < MaxThreads
    /\ \E t \in ThreadIds(held[s]), c \in CaseIds(held[s]) :
          /\ held[s].threads[t].spoken
          /\ MayCarry(held[s], held[s].threads[t].case, c, Who[s])
          /\ WriteUncounted(s, [held[s] EXCEPT !.threads =
                 Append(held[s].threads, NewThread(c, t, TRUE))], c)

AttachSource(s) ==
    /\ Holding(s)
    /\ \E c \in CaseIds(held[s]) :
          /\ Visible(held[s], c, Who[s])
          /\ NotArchived(held[s], c)
          /\ Write(s, [held[s] EXCEPT !.cases[c].linked = TRUE])

\* The conversation of a Case does not count as a contribution.
AddMessage(s) ==
    /\ Holding(s)
    /\ \E c \in CaseIds(held[s]) :
          /\ held[s].cases[c].turns < MaxTurns
          /\ Visible(held[s], c, Who[s])
          /\ NotArchived(held[s], c)
          /\ Write(s, [held[s] EXCEPT !.cases[c].turns = held[s].cases[c].turns + 1])

\* Confirming a relationship touches every Case that holds its Source, whoever
\* may see it, and is refused when one of them is archived.
ConfirmRelationship(s) ==
    LET C == {c \in CaseIds(held[s]) : held[s].cases[c].linked}
    IN  /\ Holding(s)
        /\ \A c \in C : NotArchived(held[s], c)
        /\ Contribute(s, [held[s] EXCEPT !.confirmed = TRUE], C)

-----------------------------------------------------------------------------
\* Findings.

\* An analysis started by a person counts; one the machine starts does not.
RecordAnalysis(s) ==
    /\ Holding(s)
    /\ Len(held[s].findings) < MaxFindings
    /\ \E c \in CaseIds(held[s]), trigger \in {"user", "machine"} :
          /\ Visible(held[s], c, Who[s])
          /\ NotArchived(held[s], c)
          /\ Contribute(s, [held[s] EXCEPT !.findings =
                                Append(held[s].findings, NewFinding(c, 0))],
                        IF trigger = "user" THEN {c} ELSE {})

RecordReviewerValidation(s) ==
    /\ Holding(s)
    /\ \E f \in FindingIds(held[s]), v \in Verdicts :
          /\ Visible(held[s], held[s].findings[f].case, Who[s])
          /\ ~held[s].findings[f].applied
          /\ NotArchived(held[s], held[s].findings[f].case)
          /\ Contribute(s, [held[s] EXCEPT !.findings[f].verdict = v],
                        {held[s].findings[f].case})

RecordDisposition(s) ==
    /\ Holding(s)
    /\ \E f \in FindingIds(held[s]), d \in Dispositions :
          /\ Visible(held[s], held[s].findings[f].case, Who[s])
          /\ ~held[s].findings[f].applied
          /\ held[s].findings[f].verdict # "none"
          /\ NotArchived(held[s], held[s].findings[f].case)
          /\ Contribute(s, [held[s] EXCEPT !.findings[f].disposition = d],
                        {held[s].findings[f].case})

\* Mutant of Eligible: what is applied already is handed over again.
EligibleAgain(ws, c) ==
    {f \in FindingIds(ws) : /\ ws.findings[f].case = c
                            /\ ws.findings[f].disposition = "Confirmed"}

\* What the route hands to Apply, all at once.
Eligible(ws, c) ==
    {f \in FindingIds(ws) : /\ ws.findings[f].case = c
                            /\ ~ws.findings[f].applied
                            /\ ws.findings[f].disposition = "Confirmed"}

\* q lists the findings F in the order of the file.
Lists(q, F) ==
    /\ \A i, j \in DOMAIN q : i < j => q[i] < q[j]
    /\ \A f \in F : \E i \in DOMAIN q : q[i] = f

\* A typed proposition that may not be applied ends the request, which is an
\* EndRoute: the module allows more than the code here, never less.
ApplyFindings(s) ==
    /\ Holding(s)
    /\ \E c \in CaseIds(held[s]) :
          LET F == Eligible(held[s], c) IN
          /\ Visible(held[s], c, Who[s])
          /\ NotArchived(held[s], c)
          /\ \E n \in FindingIds(held[s]) : \E q \in [1..n -> F] :
                /\ Lists(q, F)
                /\ Write(s, [held[s] EXCEPT
                       !.findings = [f \in DOMAIN held[s].findings |->
                           IF f \in F THEN [held[s].findings[f] EXCEPT !.applied = TRUE]
                                      ELSE held[s].findings[f]],
                       !.knowledge = held[s].knowledge \o q])

\* Mutant of PromoteRequirementItem: the route trusts the Case in its URL.
PromoteUnseen(s) ==
    /\ Holding(s)
    /\ Len(held[s].findings) < MaxFindings
    /\ \E c \in CaseIds(held[s]) :
          WriteUncounted(s, [held[s] EXCEPT !.findings =
              Append(held[s].findings, NewFinding(c, 0))], c)

\* promote_requirement_item writes an analysis of the person who promotes, and
\* asks neither whether the Case is archived nor whether its threshold is
\* crossed.
PromoteRequirementItem(s) ==
    /\ Holding(s)
    /\ Len(held[s].findings) < MaxFindings
    /\ \E c \in CaseIds(held[s]) :
          /\ Visible(held[s], c, Who[s])
          /\ WriteUncounted(s, [held[s] EXCEPT !.findings =
                 Append(held[s].findings, NewFinding(c, 0))], c)

-----------------------------------------------------------------------------
\* Review threads.

\* The route goes on to the opening message.
CreateReviewThread(s) ==
    /\ Holding(s)
    /\ Len(held[s].threads) < MaxThreads
    /\ \E c \in CaseIds(held[s]) :
          LET new == [held[s] EXCEPT !.threads =
                          Append(held[s].threads, NewThread(c, 0, FALSE))]
          IN  /\ Visible(held[s], c, Who[s])
              /\ SaveThen(s, new, Stamped(new))
              /\ UNCHANGED history

\* Mutant of Discussing: threads of an archived Case stay open.
DiscussingForEver(s, t) == Visible(held[s], held[s].threads[t].case, Who[s])

\* What the routes of a thread check first.
Discussing(s, t) ==
    /\ Visible(held[s], held[s].threads[t].case, Who[s])
    /\ NotArchived(held[s], held[s].threads[t].case)

AddReviewMessage(s) ==
    /\ Holding(s)
    /\ \E t \in ThreadIds(held[s]) :
          /\ Discussing(s, t)
          /\ Contribute(s, [held[s] EXCEPT !.threads[t].spoken = TRUE],
                        {held[s].threads[t].case})

\* Attention moves a thread on only from where it was open for work.
Waiting(status) == IF status \in {"open", "under_review"} THEN "waiting" ELSE status
Answered(status) == IF status = "waiting" THEN "under_review" ELSE status

RequestAttention(s) ==
    /\ Holding(s)
    /\ \E t \in ThreadIds(held[s]) :
          /\ Discussing(s, t)
          /\ held[s].threads[t].spoken
          /\ Contribute(s, [held[s] EXCEPT
                 !.threads[t].asked = TRUE,
                 !.threads[t].status = Waiting(held[s].threads[t].status)],
                        {held[s].threads[t].case})

RespondToAttention(s) ==
    /\ Holding(s)
    /\ \E t \in ThreadIds(held[s]) :
          /\ Discussing(s, t)
          /\ held[s].threads[t].asked
          /\ Write(s, [held[s] EXCEPT
                 !.threads[t].status = Answered(held[s].threads[t].status)])

ResolveReviewThread(s) ==
    /\ Holding(s)
    /\ \E t \in ThreadIds(held[s]) :
          /\ Discussing(s, t)
          /\ held[s].threads[t].status # "resolved"
          /\ Write(s, [held[s] EXCEPT !.threads[t].status = "resolved"])

ReopenReviewThread(s) ==
    /\ Holding(s)
    /\ \E t \in ThreadIds(held[s]) :
          /\ Discussing(s, t)
          /\ held[s].threads[t].status = "resolved"
          /\ Write(s, [held[s] EXCEPT !.threads[t].status = "reopened"])

-----------------------------------------------------------------------------

BeginRoute(s) == owed[s] = {} /\ Load(s) /\ UNCHANGED history

EndRoute(s) == GiveUp(s) /\ UNCHANGED history

AppendToLog(s) ==
    /\ owed[s] # {}
    /\ logged' = logged \cup owed[s]
    /\ owed' = [owed EXCEPT ![s] = {}]
    /\ UNCHANGED <<stored, held, foreign, uncounted, lost>>

\* The process dies between its save and the log entry.
DieUnlogged(s) ==
    /\ owed[s] # {}
    /\ lost' = lost \cup owed[s]
    /\ owed' = [owed EXCEPT ![s] = {}]
    /\ UNCHANGED <<stored, held, foreign, uncounted, logged>>

CaseStep(s) ==
    \/ CreateCase(s) \/ ShareCase(s) \/ RetractCase(s) \/ ArchiveCase(s)
    \/ DeriveCase(s) \/ AdoptFinding(s) \/ AdoptMessage(s)
    \/ AttachSource(s) \/ AddMessage(s) \/ ConfirmRelationship(s)

FindingStep(s) ==
    \/ RecordAnalysis(s) \/ RecordReviewerValidation(s) \/ RecordDisposition(s)
    \/ ApplyFindings(s) \/ PromoteRequirementItem(s)

ThreadStep(s) ==
    \/ CreateReviewThread(s) \/ AddReviewMessage(s) \/ RequestAttention(s)
    \/ RespondToAttention(s) \/ ResolveReviewThread(s) \/ ReopenReviewThread(s)

Next ==
    \E s \in Sessions :
        \/ BeginRoute(s) \/ EndRoute(s) \/ AppendToLog(s) \/ DieUnlogged(s)
        \/ CaseStep(s) \/ FindingStep(s) \/ ThreadStep(s)

Spec == Init /\ [][Next]_vars

-----------------------------------------------------------------------------
\* Properties.

\* A Case stays collaborative for good once a person other than its owner has
\* confirmed a relationship over it, analysed it, validated or disposed of one
\* of its findings, or written or asked for attention in its threads: no
\* request, however old the copy it loaded, takes it back to private.  What is
\* promoted or carried into a Case is not among these six writes, see
\* EveryContributionSettles (_cross_collaboration_threshold_if_qualifying,
\* retract_case_to_private).
CountedWorkStaysShared ==
    \A c \in foreign : /\ c \in CaseIds(stored)
                       /\ stored.cases[c].visibility = "collaborative"

\* "SHARED -> COLLABORATIVE fires exactly once, the moment the first governed,
\* attributed write by a non-owner actor actually commits", user-initiated
\* analyses attached to the Case and messages of a person among them
\* (docstring of _cross_collaboration_threshold_if_qualifying,
\* investigation-lifecycle-extensions.md:11).  Three writes do not ask.
EveryContributionSettles ==
    \A c \in foreign \cup uncounted : stored.cases[c].visibility = "collaborative"

CollaborativeCases ==
    {c \in CaseIds(stored) : stored.cases[c].visibility = "collaborative"}

\* Every crossing is reported to the governance log once, by the request that
\* saved it: the log never tells of a crossing whose save was refused, and one
\* is missing only when its process died before appending it.
CrossingsAreLoggedOnce ==
    /\ CollaborativeCases = logged \cup lost \cup UNION {owed[s] : s \in Sessions}
    /\ logged \cap lost = {}
    /\ \A s \in Sessions :
          /\ owed[s] \cap (logged \cup lost) = {}
          /\ \A r \in Sessions \ {s} : owed[s] \cap owed[r] = {}

\* Project knowledge holds each applied finding exactly once, and what is
\* applied was validated and Confirmed: two requests that both saw a finding
\* unapplied do not both apply it, and no late validation or disposition
\* changes what was applied (apply_findings and its route).
KnowledgeIsTheApplied ==
    /\ \A f \in FindingIds(stored) :
          /\ stored.findings[f].applied =>
                /\ stored.findings[f].disposition = "Confirmed"
                /\ stored.findings[f].verdict # "none"
                /\ \E i \in 1..Len(stored.knowledge) : stored.knowledge[i] = f
    /\ \A i \in 1..Len(stored.knowledge) :
          /\ stored.knowledge[i] \in FindingIds(stored)
          /\ stored.findings[stored.knowledge[i]].applied
          /\ \A j \in 1..Len(stored.knowledge) :
                stored.knowledge[i] = stored.knowledge[j] => i = j

\* What was carried forward came out of an archived Case into a Case derived
\* from it, and the original is still there (adopt_finding_into_case,
\* adopt_review_message_into_case).
CarriedFrom(list, i) ==
    list[i].carried # 0 =>
        LET home == list[list[i].carried].case IN
        /\ stored.cases[home].archived
        /\ stored.cases[list[i].case].from = home

LineageHolds ==
    /\ \A f \in FindingIds(stored) : CarriedFrom(stored.findings, f)
    /\ \A t \in ThreadIds(stored) : CarriedFrom(stored.threads, t)
    /\ \A c \in CaseIds(stored) :
          stored.cases[c].from # 0 => stored.cases[stored.cases[c].from].archived

\* The findings, or threads, of Case c in a list.
Of(list, c) == {i \in DOMAIN list : list[i].case = c}

\* An archived Case, and what it held when it was archived, are never changed
\* again, whatever the other sessions had loaded before (the guard
\* _require_case_not_archived).  What is added to it is another matter: see
\* NothingIsAddedToAnArchive.
ArchivedIsFrozen ==
    [][\A c \in CaseIds(stored) : stored.cases[c].archived =>
          /\ stored'.cases[c] = stored.cases[c]
          /\ \A f \in Of(stored.findings, c) : stored'.findings[f] = stored.findings[f]
          /\ \A t \in Of(stored.threads, c) : stored'.threads[t] = stored.threads[t]]_stored

\* Nothing a session has saved is lost to the save of another one: the lists
\* of the file only grow, and every version is written once.
NothingIsOverwritten ==
    [][/\ stored'.version = stored.version + 1
       /\ CaseIds(stored) \subseteq CaseIds(stored')
       /\ \A c \in CaseIds(stored) : stored'.cases[c].owner = stored.cases[c].owner
       /\ \A f \in FindingIds(stored) :
             /\ f \in FindingIds(stored')
             /\ stored'.findings[f].case = stored.findings[f].case
             /\ stored.findings[f].applied => stored'.findings[f] = stored.findings[f]
       /\ \A t \in ThreadIds(stored) :
             /\ t \in ThreadIds(stored')
             /\ stored.threads[t].spoken => stored'.threads[t].spoken]_stored

\* While a Case is private, only its owner adds to it; an admin may archive it
\* or carry archived work into it (visible_cases_for, _require_visible_case).
\* A request that loaded the Case while it was shared is refused.
PrivateWorkIsTheOwners ==
    [][\A s \in Sessions : \A c \in CaseIds(stored) :
          (/\ held[s] # NoCopy /\ held'[s] # held[s]
           /\ stored.cases[c].visibility = "private"
           /\ stored.cases[c].owner # Who[s] /\ Who[s] \notin Admins) =>
              /\ stored'.cases[c] = stored.cases[c]
              /\ Of(stored'.findings, c) = Of(stored.findings, c)
              /\ \A f \in Of(stored.findings, c) : stored'.findings[f] = stored.findings[f]
              /\ Of(stored'.threads, c) = Of(stored.threads, c)
              /\ \A t \in Of(stored.threads, c) : stored'.threads[t] = stored.threads[t]]_stored

\* "every governed write that mutates a Case's contribution set ... calls this
\* first": nothing is added to an archived Case (the docstring of
\* _require_case_not_archived).
NothingIsAddedToAnArchive ==
    [][\A c \in CaseIds(stored) : stored.cases[c].archived =>
          /\ Of(stored'.findings, c) = Of(stored.findings, c)
          /\ Of(stored'.threads, c) = Of(stored.threads, c)]_stored
=============================================================================
