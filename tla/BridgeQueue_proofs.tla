------------------------- MODULE BridgeQueue_proofs -------------------------
(***************************************************************************)
(* For any number of requests, web processes, polls, sweeps and crashes:   *)
(* the bytes of one delivery are taken at most once; a request is handed   *)
(* out again only once a claim of it has been taken away, and then only by *)
(* a poll that had read it before; and none is lost without a reason.      *)
(***************************************************************************)
EXTENDS BridgeQueue, TLAPS

-----------------------------------------------------------------------------
(* Deliveries and takings *)

Counts == /\ delivered \in [Requests -> Nat]
          /\ consumed \in [Requests -> Nat]

\* A payload that lies on disk is one more delivery than takings so far.
\* Without it the invariant is not inductive: a taking could not be charged
\* to the delivery it uses up.
StagedIsExtra ==
    \A r \in Requests : consumed[r] + (IF r \in staged THEN 1 ELSE 0) <= delivered[r]

TakingInv == Counts /\ StagedIsExtra

\* Nothing is delivered or taken at the start.
LEMMA TakingInit == Init => TakingInv
BY DEF Init, TakingInv, Counts, StagedIsExtra

\* Only a staging, an unstaging and a taking touch the payload or the counts.
LEMMA TakingStep == TakingInv /\ [Next]_vars => TakingInv'
<1> SUFFICES ASSUME TakingInv, [Next]_vars PROVE TakingInv'
  OBVIOUS
<1> USE DEF TakingInv, Counts, StagedIsExtra
<1> DEFINE Same == UNCHANGED <<staged, delivered, consumed>>
<1>1. Same => TakingInv'
  OBVIOUS
<1>2. ASSUME NEW p \in Web, GoOn(p) PROVE TakingInv'
  <2>1. CASE Unstage(p)
    BY <2>1 DEF Unstage, histories
  <2>2. CASE Stage(p)
    <3>1. PICK s : s = web[p].r
      OBVIOUS
    <3>2. /\ staged' = staged \cup {s}
          /\ delivered' = [delivered EXCEPT ![s] = @ + 1]
          /\ consumed' = consumed
      BY <2>2, <3>1 DEF Stage
    <3>3. Counts'
      <4>1. delivered' \in [Requests -> Nat]
        <5>1. delivered' = [r \in Requests |->
                              IF r = s THEN delivered[s] + 1 ELSE delivered[r]]
          BY <3>2
        <5> QED BY <5>1
      <4> QED BY <3>2, <4>1
    <3>4. ASSUME NEW r \in Requests
          PROVE  consumed'[r] + (IF r \in staged' THEN 1 ELSE 0) <= delivered'[r]
      <4>1. CASE r = s
        <5>1. delivered'[r] = delivered[r] + 1
          BY <3>2, <4>1
        <5>2. consumed[r] <= delivered[r]
          OBVIOUS
        <5> QED BY <3>2, <5>1, <5>2
      <4>2. CASE r # s
        BY <3>2, <4>2
      <4> QED BY <4>1, <4>2
    <3> QED BY <3>3, <3>4
  <2>3. CASE Take(p)
    BY <2>3 DEF Take
  <2>4. CASE \/ ListDir(p) \/ Discard(p) \/ SweepNext(p) \/ Read(p) \/ Enqueue(p)
             \/ \E r \in Requests : SweepLook(p, r) \/ PollLook(p, r)
    <3>1. Same
      BY <2>4 DEF ListDir, Discard, SweepNext, Read, Enqueue, SweepLook, PollLook, histories
    <3> QED BY <1>1, <3>1
  <2>5. CASE \/ Create(p) \/ Fill(p) \/ Retire(p) \/ PollEnd(p) \/ Note(p)
             \/ Serve(p) \/ Close(p) \/ Register(p)
    <3>1. Same
      BY <2>5 DEF Create, Fill, Retire, PollEnd, Note, Serve, Close, Register, histories
    <3> QED BY <1>1, <3>1
  <2> QED BY <1>2, <2>1, <2>2, <2>3, <2>4, <2>5 DEF GoOn
<1>3. ASSUME NEW p \in Web, Begin(p) \/ Crash(p) PROVE TakingInv'
  <2>1. Same
    BY <1>3 DEF Begin, Classify, PollStart, ForeignSweep, Revoke, DeliverRead, TakeRead,
                Crash, histories
  <2> QED BY <1>1, <2>1
<1>4. CASE Tick
  <2>1. Same
    BY <1>4 DEF Tick, histories
  <2> QED BY <1>1, <2>1
<1>5. CASE UNCHANGED vars
  BY <1>5 DEF vars
<1> QED BY <1>2, <1>3, <1>4, <1>5 DEF Next

\* However deliveries, ingestions, sweeps and crashes overlap, the bytes of one
\* delivery are taken at most once: consume's unlink is exclusive.
THEOREM TakenOnce == Spec => []TakenAtMostAsDelivered
<1>1. TakingInv => TakenAtMostAsDelivered
  BY DEF TakingInv, Counts, StagedIsExtra, TakenAtMostAsDelivered
<1> QED BY <1>1, TakingInit, TakingStep, PTL DEF Spec

-----------------------------------------------------------------------------
(* Types *)

Hands == Hand(FreeSteps, {NoOne}) \cup Hand(BusySteps, Requests)

\* A process with nothing in hand.
LEMMA RestIsHand == Rest \in Hands
BY BridgeAssumption DEF Rest, Hands, Hand, FreeSteps, Tasks, Dirs, Age, BridgeAssumption

\* The type invariant without its conjunct on the processes.
FilesTyped ==
    /\ pending \in [Requests -> Age(RequestTtl) \cup {NoFile}]
    /\ claimed \in [Requests -> Claim \cup {NoFile}]
    /\ served \in [Requests -> Age(RequestTtl) \cup {NoFile}]
    /\ staged \subseteq Requests
    /\ asked \in [Requests -> Paths \cup {NoOne}]
    /\ sources \subseteq Paths
    /\ agent \subseteq Requests
    /\ revoked \in BOOLEAN
    /\ crashes \in Nat
    /\ handed \in [Requests -> Nat]
    /\ delivered \in [Requests -> Nat]
    /\ consumed \in [Requests -> Nat]
    /\ unclaimed \subseteq Requests /\ judged \subseteq Requests

\* The empty queue is well-formed.
LEMMA TypeInit == Init => TypeOK
<1> SUFFICES ASSUME Init PROVE TypeOK
  OBVIOUS
<1>1. FilesTyped
  BY DEF Init, FilesTyped
<1>2. web \in [Web -> Hands]
  BY RestIsHand DEF Init
<1> QED BY <1>1, <1>2 DEF TypeOK, FilesTyped, Hands

\* What a hand must be for a step, by the kind of step it leads to.
LEMMA HandsCases ==
    \A h : h \in Hands <=>
       /\ h \in Hand(FreeSteps \cup BusySteps, Requests \cup {NoOne})
       /\ h.pc \in FreeSteps => h.r = NoOne
       /\ h.pc \in BusySteps => h.r \in Requests
BY DEF Hands, Hand, FreeSteps, BusySteps

\* The steps on a request that was once asked for; a sweep may also meet one
\* of another listing.
Working == BusySteps \ {"unstage", "discard"}

\* Every request on disk or in hand was asked for under some path, and a call
\* that asks has its path.  TypeOK alone is not inductive: a registration adds
\* the path its request was asked for.
WellAsked ==
    /\ \A r \in Requests : (pending[r] # NoFile \/ claimed[r] # NoFile) => asked[r] # NoOne
    /\ \A p \in Web : web[p].pc \in Working => asked[web[p].r] # NoOne
    /\ \A p \in Web : (web[p].pc \in {"reading", "asking"} \/ web[p].task = "ask")
                        => web[p].path \in Paths

\* Every step keeps the files well-formed, and a request in hand exactly when
\* the process has one to work on.
LEMMA TypeStep == TypeOK /\ WellAsked /\ [Next]_vars => TypeOK'
<1> SUFFICES ASSUME TypeOK, WellAsked, [Next]_vars PROVE TypeOK'
  OBVIOUS
<1> USE BridgeAssumption DEF BridgeAssumption
<1>a. FilesTyped /\ web \in [Web -> Hands]
  BY DEF TypeOK, Hands, FilesTyped
<1>b. ASSUME FilesTyped', web' \in [Web -> Hands] PROVE TypeOK'
  BY <1>b DEF TypeOK, Hands, FilesTyped
<1>c. ASSUME NEW p \in Web, NEW h \in Hands, Hold(p, h) PROVE web' \in [Web -> Hands]
  BY <1>a, <1>c DEF Hold
<1>d. ASSUME NEW p \in Web, NEW pc, Step(p, pc), [web[p] EXCEPT !.pc = pc] \in Hands
      PROVE web' \in [Web -> Hands]
  BY <1>a, <1>d DEF Step
<1>r. \A p \in Web : web[p] \in Hands
  BY <1>a
<1>e. ASSUME NEW p \in Web, Hold(p, Rest) PROVE web' \in [Web -> Hands]
  BY <1>c, <1>e, RestIsHand
<1>s. UNCHANGED <<pending, claimed, served, staged, asked, sources, agent, revoked,
                  crashes, histories>> => FilesTyped'
  BY <1>a DEF FilesTyped, histories
<1>1. ASSUME NEW p \in Web, ListDir(p) PROVE TypeOK'
  <2>1. [web[p] EXCEPT !.pc = "sweep", !.todo = FilesOf("pending")] \in Hands
    BY <1>1, <1>r DEF ListDir, At, FilesOf, Hands, Hand, FreeSteps, BusySteps
  <2> QED BY <1>1, <1>b, <1>c, <1>s, <2>1 DEF ListDir, histories
<1>2. ASSUME NEW p \in Web, NEW r \in Requests, SweepLook(p, r) PROVE TypeOK'
  <2>1. PICK v : v = Verdict(p, r)
    OBVIOUS
  <2>2. v \in {"unstage", "discard", "sweep"}
    BY <2>1 DEF Verdict
  <2>3. [web[p] EXCEPT !.pc = v, !.todo = @ \ {r}, !.r = IF v = "sweep" THEN NoOne ELSE r]
          \in Hands
    BY <1>r, <2>2 DEF Hands, Hand, FreeSteps, BusySteps
  <2>4. Hold(p, [web[p] EXCEPT !.pc = v, !.todo = @ \ {r},
                               !.r = IF v = "sweep" THEN NoOne ELSE r])
    BY <1>2, <2>1 DEF SweepLook
  <2>5. FilesTyped'
    BY <1>2, <1>a DEF SweepLook, FilesTyped
  <2> QED BY <1>b, <1>c, <2>3, <2>4, <2>5
<1>3. ASSUME NEW p \in Web, Unstage(p) PROVE TypeOK'
  <2>1. [web[p] EXCEPT !.pc = "discard"] \in Hands
    BY <1>3, <1>r DEF Unstage, At, Hands, Hand, FreeSteps, BusySteps
  <2>2. FilesTyped'
    BY <1>3, <1>a DEF Unstage, FilesTyped, histories
  <2> QED BY <1>3, <1>b, <1>d, <2>1, <2>2 DEF Unstage
<1>4. ASSUME NEW p \in Web, Discard(p) PROVE TypeOK'
  <2>1. [web[p] EXCEPT !.pc = "sweep", !.r = NoOne] \in Hands
    BY <1>r DEF Hands, Hand, FreeSteps, BusySteps
  <2>2. web[p].r \in Requests
    BY <1>4, <1>r DEF Discard, At, Hands, Hand, FreeSteps, BusySteps
  <2>3. FilesTyped'
    BY <1>4, <1>a, <2>2 DEF Discard, Unclaim, FilesTyped
  <2> QED BY <1>4, <1>b, <1>c, <2>1, <2>3 DEF Discard
<1>5. ASSUME NEW p \in Web, SweepNext(p) PROVE TypeOK'
  <2>1. PICK h : /\ Hold(p, h)
                 /\ \/ h = [web[p] EXCEPT !.dir = "claimed", !.todo = FilesOf("claimed")]
                    \/ h = [web[p] EXCEPT !.dir = "served", !.todo = FilesOf("served")]
                    \/ h = [web[p] EXCEPT !.pc = "poll", !.dir = "pending",
                                          !.todo = FilesOf("pending")]
                    \/ h = [web[p] EXCEPT !.pc = "asking"]
                    \/ h = Rest
    BY <1>5 DEF SweepNext
  <2>2. web[p] \in Hand(FreeSteps, {NoOne})
    BY <1>5, <1>r DEF SweepNext, At, Hands, Hand, FreeSteps, BusySteps
  <2>4. \A dir : FilesOf(dir) \subseteq Requests
    BY DEF FilesOf
  <2>3. /\ [web[p] EXCEPT !.dir = "claimed", !.todo = FilesOf("claimed")] \in Hands
        /\ [web[p] EXCEPT !.dir = "served", !.todo = FilesOf("served")] \in Hands
        /\ [web[p] EXCEPT !.pc = "asking"] \in Hands
    BY <2>2, <2>4 DEF Hands, Hand, FreeSteps, Dirs
  <2>5. [web[p] EXCEPT !.pc = "poll", !.dir = "pending", !.todo = FilesOf("pending")] \in Hands
    BY <2>2, <2>4 DEF Hands, Hand, FreeSteps, Dirs
  <2>6. h \in Hands
    BY <2>1, <2>3, <2>5, RestIsHand
  <2> QED BY <1>5, <1>b, <1>c, <1>s, <2>1, <2>6 DEF SweepNext, histories
<1>6. ASSUME NEW p \in Web, Read(p) PROVE TypeOK'
  <2>1. [web[p] EXCEPT !.pc = "list", !.task = "ask"] \in Hands
    BY <1>6, <1>r DEF Read, At, Hands, Hand, FreeSteps, BusySteps, Tasks
  <2>2. web' \in [Web -> Hands]
    BY <1>6, <1>c, <2>1, RestIsHand DEF Read
  <2> QED BY <1>6, <1>b, <1>s, <2>2 DEF Read, histories
<1>7. ASSUME NEW p \in Web, Enqueue(p) PROVE TypeOK'
  <2>1. web[p].path \in Paths \cup {NoOne}
    BY <1>r DEF Hands, Hand
  <2>2. FilesTyped'
    BY <1>7, <1>a, <2>1 DEF Enqueue, FilesTyped, histories, Age
  <2> QED BY <1>7, <1>b, <1>e, <2>2 DEF Enqueue
<1>8. ASSUME NEW p \in Web, NEW r \in Requests, PollLook(p, r) PROVE TypeOK'
  <2>4. web[p] \in Hand(FreeSteps, {NoOne})
    BY <1>8, <1>r DEF PollLook, At, Hands, Hand, FreeSteps, BusySteps
  <2>1. [web[p] EXCEPT !.todo = @ \ {r}] \in Hands
    BY <2>4 DEF Hands, Hand
  <2>3. [web[p] EXCEPT !.pc = "claim", !.r = r, !.age = 0, !.todo = @ \ {r}] \in Hands
    <3>1. 0 \in Age(ClaimTtl)
      BY DEF Age
    <3> QED BY <2>4, <3>1 DEF Hands, Hand, BusySteps
  <2>2. web' \in [Web -> Hands]
    BY <1>8, <1>c, <2>1, <2>3 DEF PollLook
  <2> QED BY <1>8, <1>b, <1>s, <2>2 DEF PollLook, histories
<1>9. ASSUME NEW p \in Web, Create(p) PROVE TypeOK'
  <2>1. web[p] \in Hand(BusySteps, Requests)
    BY <1>9, <1>r DEF Create, At, Hands, Hand, FreeSteps, BusySteps
  <2>2. /\ [web[p] EXCEPT !.pc = "poll", !.r = NoOne] \in Hands
        /\ [web[p] EXCEPT !.pc = "fill"] \in Hands
    BY <2>1 DEF Hands, Hand, FreeSteps, BusySteps
  <2>3. web' \in [Web -> Hands]
    BY <1>9, <1>c, <1>d, <2>2 DEF Create
  <2>4. web[p].r \in Requests /\ [by |-> p, full |-> FALSE, age |-> web[p].age] \in Claim
    BY <2>1 DEF Hand, Claim
  <2>5. FilesTyped'
    BY <1>9, <1>a, <2>4 DEF Create, FilesTyped, histories
  <2> QED BY <1>b, <2>3, <2>5
<1>10. ASSUME NEW p \in Web, Fill(p) PROVE TypeOK'
  <2>1. web[p] \in Hand(BusySteps, Requests)
    BY <1>10, <1>r DEF Fill, At, Hands, Hand, FreeSteps, BusySteps
  <2>2. [web[p] EXCEPT !.pc = "retire"] \in Hands
    BY <2>1 DEF Hands, Hand, BusySteps
  <2>3. web' \in [Web -> Hands]
    BY <1>10, <1>d, <1>e, <2>2 DEF Fill
  <2>4. PICK r \in Requests : r = web[p].r
    BY <2>1 DEF Hand
  <2>5. claimed[r] # NoFile => [claimed[r] EXCEPT !.full = TRUE] \in Claim
    <3> SUFFICES ASSUME claimed[r] \in Claim PROVE [claimed[r] EXCEPT !.full = TRUE] \in Claim
      BY <1>a DEF FilesTyped
    <3> QED BY DEF Claim
  <2>6. claimed' \in [Requests -> Claim \cup {NoFile}]
    BY <1>10, <1>a, <2>4, <2>5 DEF Fill, FilesTyped
  <2>7. FilesTyped'
    BY <1>10, <1>a, <2>6 DEF Fill, Unclaim, FilesTyped
  <2> QED BY <1>b, <2>3, <2>7
<1>11. ASSUME NEW p \in Web, Retire(p) PROVE TypeOK'
  <2>1. web[p] \in Hand(BusySteps, Requests)
    BY <1>11, <1>r DEF Retire, At, Hands, Hand, FreeSteps, BusySteps
  <2>2. PICK r \in Requests : r = web[p].r
    BY <2>1 DEF Hand
  <2>3. [web[p] EXCEPT !.pc = "poll", !.r = NoOne, !.got = @ \cup {r}] \in Hands
    BY <2>1 DEF Hands, Hand, FreeSteps
  <2>4. web' \in [Web -> Hands]
    BY <1>11, <1>c, <2>2, <2>3 DEF Retire
  <2>5. FilesTyped'
    BY <1>11, <1>a, <2>2 DEF Retire, FilesTyped, histories
  <2> QED BY <1>b, <2>4, <2>5
<1>12. ASSUME NEW p \in Web, PollEnd(p) PROVE TypeOK'
  <2>1. web[p].got \subseteq Requests
    BY <1>r DEF Hands, Hand
  <2>2. FilesTyped'
    BY <1>12, <1>a, <2>1 DEF PollEnd, FilesTyped, histories
  <2> QED BY <1>12, <1>b, <1>e, <2>2 DEF PollEnd
<1>13. ASSUME NEW p \in Web, Stage(p) PROVE TypeOK'
  <2>1. web[p] \in Hand(BusySteps, Requests)
    BY <1>13, <1>r DEF Stage, At, Hands, Hand, FreeSteps, BusySteps
  <2>2. [web[p] EXCEPT !.pc = "note"] \in Hands
    BY <2>1 DEF Hands, Hand, BusySteps
  <2>3. PICK r \in Requests : r = web[p].r
    BY <2>1 DEF Hand
  <2>4. FilesTyped'
    BY <1>13, <1>a, <2>3 DEF Stage, FilesTyped
  <2> QED BY <1>13, <1>b, <1>d, <2>2, <2>4 DEF Stage
<1>14. ASSUME NEW p \in Web, Note(p) PROVE TypeOK'
  <2>1. web[p] \in Hand(BusySteps, Requests)
    BY <1>14, <1>r DEF Note, At, Hands, Hand, FreeSteps, BusySteps
  <2>2. web[p].r \in Requests /\ [by |-> p, full |-> TRUE, age |-> web[p].age] \in Claim
    BY <2>1 DEF Hand, Claim
  <2>3. FilesTyped'
    BY <1>14, <1>a, <2>2 DEF Note, FilesTyped, histories
  <2> QED BY <1>14, <1>b, <1>e, <2>3 DEF Note
<1>15. ASSUME NEW p \in Web, Take(p) PROVE TypeOK'
  <2>1. web[p] \in Hand(BusySteps, Requests)
    BY <1>15, <1>r DEF Take, At, Hands, Hand, FreeSteps, BusySteps
  <2>2. [web[p] EXCEPT !.pc = "serve"] \in Hands
    BY <2>1 DEF Hands, Hand, BusySteps
  <2>3. web' \in [Web -> Hands]
    BY <1>15, <1>d, <1>e, <2>2 DEF Take
  <2>4. PICK r \in Requests : r = web[p].r
    BY <2>1 DEF Hand
  <2>5. FilesTyped'
    BY <1>15, <1>a, <2>4 DEF Take, FilesTyped
  <2> QED BY <1>b, <2>3, <2>5
<1>16. ASSUME NEW p \in Web, Serve(p) PROVE TypeOK'
  <2>1. web[p] \in Hand(BusySteps, Requests)
    BY <1>16, <1>r DEF Serve, At, Hands, Hand, FreeSteps, BusySteps
  <2>2. [web[p] EXCEPT !.pc = "close"] \in Hands
    BY <2>1 DEF Hands, Hand, BusySteps
  <2>3. web[p].r \in Requests /\ 0 \in Age(RequestTtl)
    BY <2>1 DEF Hand, Age
  <2>4. FilesTyped'
    BY <1>16, <1>a, <2>3 DEF Serve, FilesTyped, histories
  <2> QED BY <1>16, <1>b, <1>d, <2>2, <2>4 DEF Serve
<1>17. ASSUME NEW p \in Web, Close(p) PROVE TypeOK'
  <2>1. web[p] \in Hand(BusySteps, Requests)
    BY <1>17, <1>r DEF Close, At, Hands, Hand, FreeSteps, BusySteps
  <2>2. [web[p] EXCEPT !.pc = "register"] \in Hands
    BY <2>1 DEF Hands, Hand, BusySteps
  <2>3. FilesTyped'
    BY <1>17, <1>a DEF Close, Unclaim, FilesTyped
  <2> QED BY <1>17, <1>b, <1>d, <2>2, <2>3 DEF Close
<1>18. ASSUME NEW p \in Web, Register(p) PROVE TypeOK'
  <2>1. web[p] \in Hand(BusySteps, Requests) /\ web[p].pc \in Working
    BY <1>18, <1>r DEF Register, At, Hands, Hand, FreeSteps, BusySteps, Working
  <2>2. asked[web[p].r] \in Paths
    BY <1>a, <2>1 DEF WellAsked, FilesTyped, Hand
  <2>3. FilesTyped'
    BY <1>18, <1>a, <2>2 DEF Register, FilesTyped, histories
  <2> QED BY <1>18, <1>b, <1>e, <2>3 DEF Register
<1>19. ASSUME NEW p \in Web, NEW path \in Paths, Classify(p, path) PROVE TypeOK'
  <2>1. [Rest EXCEPT !.pc = "reading", !.path = path] \in Hands
    BY RestIsHand DEF Rest, Hands, Hand, FreeSteps
  <2> QED BY <1>19, <1>b, <1>c, <1>s, <2>1 DEF Classify, histories
<1>20. ASSUME NEW p \in Web, PollStart(p) \/ ForeignSweep(p) PROVE TypeOK'
  <2>1. /\ [Rest EXCEPT !.pc = "list", !.task = "poll"] \in Hands
        /\ [Rest EXCEPT !.pc = "list"] \in Hands
    BY RestIsHand DEF Rest, Hands, Hand, FreeSteps, Tasks
  <2>2. web' \in [Web -> Hands]
    BY <1>20, <1>c, <2>1 DEF PollStart, ForeignSweep
  <2> QED BY <1>20, <1>b, <1>s, <2>2 DEF PollStart, ForeignSweep, histories
<1>21. ASSUME NEW p \in Web, Revoke(p) PROVE TypeOK'
  <2>1. [Rest EXCEPT !.pc = "list", !.task = "purge"] \in Hands
    BY RestIsHand DEF Rest, Hands, Hand, FreeSteps, Tasks
  <2>2. FilesTyped'
    BY <1>21, <1>a DEF Revoke, FilesTyped, histories
  <2> QED BY <1>21, <1>b, <1>c, <2>1, <2>2 DEF Revoke
<1>22. ASSUME NEW p \in Web, NEW r \in Requests, DeliverRead(p, r) PROVE TypeOK'
  <2>1. FilesTyped'
    BY <1>22, <1>a DEF DeliverRead, FilesTyped, histories
  <2>2. ASSUME Readable(r)
        PROVE  [Rest EXCEPT !.pc = "stage", !.r = r, !.age = claimed[r].age] \in Hands
    <3>1. claimed[r].age \in Age(ClaimTtl)
      BY <1>a, <2>2 DEF FilesTyped, Readable, Claim
    <3> QED BY RestIsHand, <3>1 DEF Rest, Hands, Hand, BusySteps, FreeSteps
  <2>3. web' \in [Web -> Hands]
    BY <1>22, <1>a, <1>c, <2>2 DEF DeliverRead
  <2> QED BY <1>b, <2>1, <2>3
<1>23. ASSUME NEW p \in Web, NEW r \in Requests, TakeRead(p, r) PROVE TypeOK'
  <2>1. [Rest EXCEPT !.pc = "take", !.r = r] \in Hands
    BY RestIsHand DEF Rest, Hands, Hand, BusySteps, FreeSteps
  <2> QED BY <1>23, <1>b, <1>c, <1>s, <2>1 DEF TakeRead, histories
<1>24. ASSUME NEW p \in Web, Crash(p) PROVE TypeOK'
  <2>1. FilesTyped'
    BY <1>24, <1>a DEF Crash, FilesTyped, histories
  <2> QED BY <1>24, <1>b, <1>e, <2>1 DEF Crash
<1>25. CASE Tick
  <2>1. \A ttl \in Nat : \A age \in Age(ttl) : Older(age, ttl) \in Age(ttl)
    BY DEF Age, Older
  <2>2. ASSUME NEW r \in Requests, claimed[r] # NoFile
        PROVE  [claimed[r] EXCEPT !.age = Older(@, ClaimTtl)] \in Claim
    BY <1>a, <2>1, <2>2 DEF FilesTyped, Claim
  <2>3. ASSUME NEW p \in Web PROVE [web[p] EXCEPT !.age = Older(@, ClaimTtl)] \in Hands
    <3>1. CASE web[p] \in Hand(FreeSteps, {NoOne})
      BY <2>1, <3>1 DEF Hands, Hand
    <3>2. CASE web[p] \in Hand(BusySteps, Requests)
      BY <2>1, <3>2 DEF Hands, Hand
    <3> QED BY <1>r, <3>1, <3>2 DEF Hands
  <2>4. web' \in [Web -> Hands]
    BY <1>25, <1>r, <2>3 DEF Tick
  <2>5. claimed' \in [Requests -> Claim \cup {NoFile}]
    BY <1>25, <2>2 DEF Tick
  <2>6. /\ pending' \in [Requests -> Age(RequestTtl) \cup {NoFile}]
        /\ served' \in [Requests -> Age(RequestTtl) \cup {NoFile}]
    BY <1>25, <1>a, <2>1 DEF Tick, FilesTyped
  <2>7. FilesTyped'
    BY <1>25, <1>a, <2>5, <2>6 DEF Tick, FilesTyped, histories
  <2> QED BY <1>b, <2>4, <2>7
<1>26. CASE UNCHANGED vars
  BY <1>26, <1>a, <1>b, <1>s DEF vars, histories
<1>27. ASSUME NEW p \in Web, GoOn(p) PROVE TypeOK'
  BY <1>1, <1>2, <1>3, <1>4, <1>5, <1>6, <1>7, <1>8, <1>9, <1>10, <1>11, <1>12, <1>13,
     <1>14, <1>15, <1>16, <1>17, <1>18, <1>27 DEF GoOn
<1>28. ASSUME NEW p \in Web, Begin(p) PROVE TypeOK'
  BY <1>19, <1>20, <1>21, <1>22, <1>23, <1>28 DEF Begin
<1> QED BY <1>24, <1>25, <1>26, <1>27, <1>28 DEF Next

\* A hand a process may go on with: what it works on was asked for.
Asking(h) == h.pc \in {"reading", "asking"} \/ h.task = "ask"
AskedHand(h) == /\ h.pc \in Working => h.r \in Requests /\ asked[h.r] # NoOne
                /\ Asking(h) => h.path \in Paths

\* A step of one process keeps requests asked for if what it then has in hand
\* was, and any record it writes belongs to a request that was.
LEMMA AskedByOne ==
    ASSUME TypeOK, WellAsked, NEW p \in Web, NEW h, Hold(p, h), AskedHand(h),
           \A r \in Requests : asked[r] # NoOne => asked'[r] # NoOne,
           \A r \in Requests : pending'[r] # NoFile => pending[r] # NoFile \/ asked'[r] # NoOne,
           \A r \in Requests : claimed'[r] # NoFile => claimed[r] # NoFile \/ asked[r] # NoOne
    PROVE  WellAsked'
<1>1. web'[p] = h /\ \A q \in Web \ {p} : web'[q] = web[q]
  BY DEF TypeOK, Hold
<1>2. \A q \in Web : web[q].pc \in Working => web[q].r \in Requests
  BY DEF TypeOK, Hand, Working, FreeSteps, BusySteps
<1> QED BY <1>1, <1>2 DEF WellAsked, AskedHand, Asking

\* No step works on a request that was never asked for.
LEMMA AskedStep == TypeOK /\ WellAsked /\ [Next]_vars => WellAsked'
<1> SUFFICES ASSUME TypeOK, WellAsked, [Next]_vars PROVE WellAsked'
  OBVIOUS
<1> USE BridgeAssumption DEF BridgeAssumption, Working, FreeSteps, BusySteps, AskedHand, Asking
<1>r. \A p \in Web : web[p] \in Hands
  BY DEF TypeOK, Hands
<1>a. \A p \in Web : AskedHand(web[p])
  BY <1>r DEF WellAsked, Hands, Hand
<1> DEFINE Same == UNCHANGED <<pending, claimed, asked>>
<1>s. ASSUME NEW p \in Web, NEW h, Hold(p, h), AskedHand(h), Same PROVE WellAsked'
  BY <1>s, AskedByOne
<1>e. ASSUME NEW p \in Web, Hold(p, Rest), Same PROVE WellAsked'
  BY <1>s, <1>e DEF Rest
\* The steps that change neither the request in hand nor the files.
<1>1. ASSUME NEW p \in Web, ListDir(p) PROVE WellAsked'
  <2>1. AskedHand([web[p] EXCEPT !.pc = "sweep", !.todo = FilesOf("pending")])
    BY <1>a, <1>r DEF Hands, Hand
  <2> QED BY <1>1, <1>s, <2>1 DEF ListDir, histories
<1>2. ASSUME NEW p \in Web, SweepNext(p) PROVE WellAsked'
  <2>1. PICK h : /\ Hold(p, h)
                 /\ \/ h = [web[p] EXCEPT !.dir = "claimed", !.todo = FilesOf("claimed")]
                    \/ h = [web[p] EXCEPT !.dir = "served", !.todo = FilesOf("served")]
                    \/ h = [web[p] EXCEPT !.pc = "poll", !.dir = "pending",
                                          !.todo = FilesOf("pending")]
                    \/ web[p].task = "ask" /\ h = [web[p] EXCEPT !.pc = "asking"]
                    \/ h = Rest
    BY <1>2 DEF SweepNext
  <2>2. /\ AskedHand([web[p] EXCEPT !.dir = "claimed", !.todo = FilesOf("claimed")])
        /\ AskedHand([web[p] EXCEPT !.dir = "served", !.todo = FilesOf("served")])
        /\ AskedHand([web[p] EXCEPT !.pc = "poll", !.dir = "pending", !.todo = FilesOf("pending")])
        /\ web[p].task = "ask" => AskedHand([web[p] EXCEPT !.pc = "asking"])
        /\ AskedHand(Rest)
    BY <1>a, <1>r DEF Rest, Hands, Hand
  <2>3. AskedHand(h)
    <3> HIDE DEF AskedHand
    <3> QED BY <2>1, <2>2
  <2>4. Same
    BY <1>2 DEF SweepNext, histories
  <2> QED BY <1>s, <2>1, <2>3, <2>4
<1>3. ASSUME NEW p \in Web, NEW r \in Requests, SweepLook(p, r) PROVE WellAsked'
  <2>1. PICK v : v = Verdict(p, r)
    OBVIOUS
  <2>2. v \in {"unstage", "discard", "sweep"}
    BY <2>1 DEF Verdict
  <2>3. AskedHand([web[p] EXCEPT !.pc = v, !.todo = @ \ {r},
                                 !.r = IF v = "sweep" THEN NoOne ELSE r])
    BY <1>a, <1>r, <2>2 DEF Hands, Hand
  <2>4. Hold(p, [web[p] EXCEPT !.pc = v, !.todo = @ \ {r},
                               !.r = IF v = "sweep" THEN NoOne ELSE r])
    BY <1>3, <2>1 DEF SweepLook
  <2> QED BY <1>3, <1>s, <2>3, <2>4 DEF SweepLook, histories
<1>4. ASSUME NEW p \in Web, NEW pc \in {"discard", "note", "serve", "register", "close"},
             Step(p, pc), pc = "discard" \/ web[p].pc \in Working,
             \A r \in Requests : claimed'[r] # NoFile => claimed[r] # NoFile,
             UNCHANGED <<pending, asked>>
      PROVE  WellAsked'
  <2> DEFINE h == [web[p] EXCEPT !.pc = pc]
  <2>1. AskedHand(h)
    BY <1>4, <1>a, <1>r DEF Hands, Hand
  <2>2. Hold(p, h)
    BY <1>4 DEF Step, Hold
  <2> QED BY <1>4, <2>1, <2>2, AskedByOne
<1>5. ASSUME NEW p \in Web, Unstage(p) \/ Stage(p) \/ Serve(p) PROVE WellAsked'
  BY <1>4, <1>5 DEF Unstage, Stage, Serve, At, histories
<1>6. ASSUME NEW p \in Web, Take(p) PROVE WellAsked'
  BY <1>4, <1>6, <1>e DEF Take, At
<1>7. ASSUME NEW p \in Web, Close(p) PROVE WellAsked'
  <2>1. \A r \in Requests : claimed'[r] # NoFile => claimed[r] # NoFile
    BY <1>7 DEF Close, TypeOK
  <2> QED BY <1>4, <1>7, <2>1 DEF Close, At, histories
<1>8. ASSUME NEW p \in Web, Discard(p) PROVE WellAsked'
  <2>4. PICK h : h = [web[p] EXCEPT !.pc = "sweep", !.r = NoOne]
    OBVIOUS
  <2>1. AskedHand(h)
    BY <1>a, <1>r, <2>4 DEF Hands, Hand
  <2>2. /\ \A r \in Requests : pending'[r] # NoFile => pending[r] # NoFile
        /\ \A r \in Requests : claimed'[r] # NoFile => claimed[r] # NoFile
    BY <1>8 DEF Discard, TypeOK
  <2>3. asked' = asked /\ Hold(p, h)
    BY <1>8, <2>4 DEF Discard
  <2> QED BY <2>1, <2>2, <2>3, AskedByOne
<1>9. ASSUME NEW p \in Web, Read(p) PROVE WellAsked'
  <2>1. AskedHand([web[p] EXCEPT !.pc = "list", !.task = "ask"])
    BY <1>9, <1>a, <1>r DEF Read, At, Hands, Hand
  <2> QED BY <1>9, <1>e, <1>s, <2>1 DEF Read, histories
<1>10. ASSUME NEW p \in Web, Enqueue(p) PROVE WellAsked'
  <2>1. web[p].path \in Paths
    BY <1>10, <1>a DEF Enqueue, At
  <2>2. CASE \E r \in Requests : /\ asked[r] = NoOne
                                 /\ asked' = [asked EXCEPT ![r] = web[p].path]
                                 /\ pending' = [pending EXCEPT ![r] = 0]
    <3>1. /\ \A r \in Requests : asked[r] # NoOne => asked'[r] # NoOne
          /\ \A r \in Requests : pending'[r] # NoFile => pending[r] # NoFile \/ asked'[r] # NoOne
      BY <2>1, <2>2 DEF TypeOK
    <3> QED BY <1>10, <3>1, AskedByOne DEF Enqueue, Rest
  <2> QED BY <1>10, <1>e, <2>2 DEF Enqueue
<1>11. ASSUME NEW p \in Web, NEW r \in Requests, PollLook(p, r) PROVE WellAsked'
  <2>1. AskedHand([web[p] EXCEPT !.todo = @ \ {r}])
    BY <1>a, <1>r DEF Hands, Hand
  <2>2. ASSUME pending[r] # NoFile
        PROVE  AskedHand([web[p] EXCEPT !.pc = "claim", !.r = r, !.age = 0, !.todo = @ \ {r}])
    BY <1>a, <1>r, <2>2 DEF WellAsked, Hands, Hand
  <2> QED BY <1>11, <1>s, <2>1, <2>2 DEF PollLook, histories
<1>12. ASSUME NEW p \in Web, Create(p) PROVE WellAsked'
  <2>1. web[p].pc = "claim" /\ web[p].r \in Requests /\ asked[web[p].r] # NoOne
    BY <1>12, <1>a DEF Create, At
  <2>2. PICK h : /\ Hold(p, h)
                 /\ \/ h = [web[p] EXCEPT !.pc = "poll", !.r = NoOne]
                    \/ h = [web[p] EXCEPT !.pc = "fill"]
    BY <1>12 DEF Create, Hold, Step
  <2>3. AskedHand(h)
    BY <1>a, <1>r, <2>1, <2>2 DEF Hands, Hand
  <2>4. \A r \in Requests : claimed'[r] # NoFile => claimed[r] # NoFile \/ asked[r] # NoOne
    BY <1>12, <2>1 DEF Create, TypeOK
  <2> QED BY <1>12, <2>2, <2>3, <2>4, AskedByOne DEF Create, histories
<1>13. ASSUME NEW p \in Web, Fill(p) PROVE WellAsked'
  <2>1. AskedHand([web[p] EXCEPT !.pc = "retire"])
    BY <1>13, <1>a, <1>r DEF Fill, At, Hands, Hand
  <2>2. \A r \in Requests : claimed'[r] # NoFile => claimed[r] # NoFile \/ asked[r] # NoOne
    BY <1>13, <1>a DEF Fill, At, TypeOK
  <2>3. PICK h : Hold(p, h) /\ (h = [web[p] EXCEPT !.pc = "retire"] \/ h = Rest)
    BY <1>13 DEF Fill, Step, Hold
  <2>4. AskedHand(Rest)
    BY DEF Rest
  <2>5. AskedHand(h)
    <3> HIDE DEF AskedHand
    <3> QED BY <2>1, <2>3, <2>4
  <2> QED BY <1>13, <2>2, <2>3, <2>5, AskedByOne DEF Fill
<1>14. ASSUME NEW p \in Web, Retire(p) PROVE WellAsked'
  <2>1. AskedHand([web[p] EXCEPT !.pc = "poll", !.r = NoOne, !.got = @ \cup {web[p].r}])
    BY <1>a, <1>r DEF Hands, Hand
  <2>2. \A r \in Requests : pending'[r] # NoFile => pending[r] # NoFile
    BY <1>14 DEF Retire, TypeOK
  <2> QED BY <1>14, <2>1, <2>2, AskedByOne DEF Retire
<1>15. ASSUME NEW p \in Web, PollEnd(p) \/ Register(p) \/ Crash(p) PROVE WellAsked'
  BY <1>15, <1>e DEF PollEnd, Register, Crash, histories
<1>16. ASSUME NEW p \in Web, Note(p) PROVE WellAsked'
  <2>1. \A r \in Requests : claimed'[r] # NoFile => claimed[r] # NoFile \/ asked[r] # NoOne
    BY <1>16, <1>a DEF Note, At, TypeOK
  <2> QED BY <1>16, <2>1, AskedByOne DEF Note, Rest, histories
\* The steps that begin something start from a fresh hand.
<1>17. ASSUME NEW p \in Web, NEW path \in Paths, Classify(p, path) PROVE WellAsked'
  BY <1>17, <1>s DEF Classify, Rest, histories
<1>18. ASSUME NEW p \in Web, PollStart(p) \/ ForeignSweep(p) \/ Revoke(p) PROVE WellAsked'
  <2>1. Same
    BY <1>18 DEF PollStart, ForeignSweep, Revoke, histories
  <2>2. \/ Hold(p, [Rest EXCEPT !.pc = "list", !.task = "poll"])
        \/ Hold(p, [Rest EXCEPT !.pc = "list"])
        \/ Hold(p, [Rest EXCEPT !.pc = "list", !.task = "purge"])
    BY <1>18 DEF PollStart, ForeignSweep, Revoke
  <2> QED BY <1>s, <2>1, <2>2 DEF Rest
<1>19. ASSUME NEW p \in Web, NEW r \in Requests, DeliverRead(p, r) \/ TakeRead(p, r)
       PROVE  WellAsked'
  <2>1. Same
    BY <1>19 DEF DeliverRead, TakeRead, histories
  <2>2. CASE UNCHANGED web
    BY <2>1, <2>2 DEF WellAsked
  <2>3. CASE ~UNCHANGED web
    <3>1. claimed[r] # NoFile
      BY <1>19, <2>3 DEF DeliverRead, TakeRead, Readable
    <3>2. asked[r] # NoOne
      BY <3>1 DEF WellAsked
    <3>3. \/ Hold(p, [Rest EXCEPT !.pc = "take", !.r = r])
          \/ Hold(p, [Rest EXCEPT !.pc = "stage", !.r = r, !.age = claimed[r].age])
      BY <1>19, <2>3 DEF DeliverRead, TakeRead
    <3> QED BY <1>s, <2>1, <3>2, <3>3 DEF Rest
  <2> QED BY <2>2, <2>3
<1>20. CASE Tick
  <2>1. /\ \A r \in Requests : pending'[r] # NoFile => pending[r] # NoFile
        /\ \A r \in Requests : claimed'[r] # NoFile => claimed[r] # NoFile
        /\ asked' = asked
    BY <1>20 DEF Tick
  <2>2. \A p \in Web : /\ web'[p].pc = web[p].pc /\ web'[p].r = web[p].r
                       /\ web'[p].task = web[p].task /\ web'[p].path = web[p].path
    BY <1>20, <1>r DEF Tick, Hands, Hand
  <2>3. \A p \in Web : web'[p].pc \in Working => asked'[web'[p].r] # NoOne
    <3> SUFFICES ASSUME NEW p \in Web, web[p].pc \in Working
                 PROVE  asked[web'[p].r] # NoOne
      BY <2>1, <2>2
    <3> QED BY <2>2 DEF WellAsked
  <2>4. \A p \in Web : (web'[p].pc \in {"reading", "asking"} \/ web'[p].task = "ask")
                       => web'[p].path \in Paths
    <3> SUFFICES ASSUME NEW p \in Web, Asking(web[p]) PROVE web'[p].path \in Paths
      BY <2>2
    <3> QED BY <2>2 DEF WellAsked
  <2>5. \A r \in Requests : (pending'[r] # NoFile \/ claimed'[r] # NoFile) => asked'[r] # NoOne
    BY <2>1 DEF WellAsked
  <2> QED BY <2>3, <2>4, <2>5 DEF WellAsked
<1>21. CASE UNCHANGED vars
  BY <1>21 DEF vars, WellAsked
<1>22. ASSUME NEW p \in Web, GoOn(p) PROVE WellAsked'
  BY <1>1, <1>2, <1>3, <1>5, <1>6, <1>7, <1>8, <1>9, <1>10, <1>11, <1>12, <1>13,
     <1>14, <1>15, <1>16, <1>22 DEF GoOn
<1>23. ASSUME NEW p \in Web, Begin(p) PROVE WellAsked'
  BY <1>17, <1>18, <1>19, <1>23 DEF Begin
<1> QED BY <1>15, <1>20, <1>21, <1>22, <1>23 DEF Next

\* The queue, the enrolment and every process are always well-formed.
THEOREM TypeCorrect == Spec => []TypeOK
<1>1. Init => WellAsked
  BY DEF Init, WellAsked, Rest, Working, BusySteps
<1> QED BY <1>1, TypeInit, TypeStep, AskedStep, PTL DEF Spec

-----------------------------------------------------------------------------
(* Handing out *)

\* A poll that has created its claim of r and has not handed r out yet.
Winner(p, r) == web[p].pc \in {"fill", "retire"} /\ web[p].r = r

\* What a poll can still read has not been handed out: an identity not used yet,
\* an entry that waits.
OpenIsUnhanded == \A r \in Requests : pending[r] # NoFile \/ asked[r] = NoOne => handed[r] = 0

\* As long as no claim of r has been taken away there is at most one winner, its
\* claim stands, and it has the only hand-out still before it.
OneWinner ==
    \A r \in Requests : r \notin unclaimed =>
       /\ handed[r] <= 1
       /\ handed[r] = 1 => claimed[r] # NoFile
       /\ \A p \in Web : Winner(p, r) => claimed[r] # NoFile /\ handed[r] = 0
       /\ \A p, q \in Web : Winner(p, r) /\ Winner(q, r) => p = q

\* HandedOutOncePerClaim is not inductive: it says nothing of the polls between
\* their create and their hand-out.
HandInv == OpenIsUnhanded /\ OneWinner

\* Nothing is handed out at the start.
LEMMA HandInit == Init => HandInv
BY DEF Init, HandInv, OpenIsUnhanded, OneWinner, Winner, Rest

\* A step that hands nothing out and makes nobody a winner.
LEMMA Handless ==
    ASSUME TypeOK, HandInv, NEW p \in Web, NEW h, Hold(p, h),
           h.pc \in {"fill", "retire"} => web[p].pc = "fill" /\ h.r = web[p].r,
           handed' = handed, unclaimed \subseteq unclaimed',
           \A r \in Requests : claimed[r] # NoFile => claimed'[r] # NoFile \/ r \in unclaimed',
           \A r \in Requests : pending'[r] # NoFile \/ asked'[r] = NoOne
                                 => pending[r] # NoFile \/ asked[r] = NoOne
    PROVE  HandInv'
<1>1. web'[p] = h /\ \A q \in Web \ {p} : web'[q] = web[q]
  BY DEF TypeOK, Hold
<1>2. \A q \in Web, r \in Requests : Winner(q, r)' => Winner(q, r)
  BY <1>1 DEF Winner
<1>3. OpenIsUnhanded'
  BY DEF HandInv, OpenIsUnhanded
<1>4. OneWinner'
  BY <1>2 DEF HandInv, OneWinner
<1> QED BY <1>3, <1>4 DEF HandInv

\* The claims, the hand-outs and what is open stay as they are.
LEMMA HandOnly ==
    ASSUME TypeOK, HandInv, NEW p \in Web, NEW h, Hold(p, h),
           h.pc \notin {"fill", "retire"},
           UNCHANGED <<handed, unclaimed, claimed, pending, asked>>
    PROVE  HandInv'
BY Handless

\* The exclusive create: there was no claim, hence no winner.
LEMMA HandCreate ==
    ASSUME TypeOK, HandInv, NEW p \in Web, Create(p)
    PROVE  HandInv'
<1>r. web[p] \in Hands
  BY DEF TypeOK, Hands
<1>1. PICK r \in Requests : r = web[p].r
  BY <1>r DEF Create, At, Hands, Hand, FreeSteps, BusySteps
<1>2. CASE claimed[r] # NoFile
  <2>1. PICK h : h = [web[p] EXCEPT !.pc = "poll", !.r = NoOne]
    OBVIOUS
  <2>2. h.pc = "poll" /\ Hold(p, h)
    BY <1>r, <1>1, <1>2, <2>1 DEF Create, Hands, Hand
  <2> QED BY <1>1, <1>2, <2>2, HandOnly DEF Create, histories
<1>3. CASE claimed[r] = NoFile
  <2>1. PICK c : c = [by |-> p, full |-> FALSE, age |-> web[p].age]
    OBVIOUS
  <2>2. c \in Claim
    BY <1>r, <1>1, <2>1 DEF Create, At, Hands, Hand, FreeSteps, BusySteps, Claim
  <2>3. claimed' = [claimed EXCEPT ![r] = c] /\ Step(p, "fill")
        /\ UNCHANGED <<handed, unclaimed, pending, asked>>
    BY <1>1, <1>3, <2>1 DEF Create, histories
  <2>4. /\ web'[p].pc = "fill" /\ web'[p].r = r
        /\ \A q \in Web \ {p} : web'[q] = web[q]
    BY <1>r, <1>1, <2>3 DEF Step, TypeOK, Hands, Hand
  <2>5. \A q \in Web, x \in Requests : Winner(q, x)' => Winner(q, x) \/ (q = p /\ x = r)
    BY <2>4 DEF Winner
  <2>6. /\ claimed'[r] # NoFile
        /\ \A x \in Requests \ {r} : claimed'[x] = claimed[x]
    BY <2>2, <2>3, ClaimAssumption DEF TypeOK, ClaimAssumption
  <2>7. r \notin unclaimed => handed[r] = 0 /\ \A q \in Web : ~Winner(q, r)
    BY <1>3 DEF HandInv, OneWinner, TypeOK
  <2>8. OneWinner'
    BY <2>3, <2>5, <2>6, <2>7 DEF HandInv, OneWinner
  <2> QED BY <2>3, <2>8 DEF HandInv, OpenIsUnhanded
<1> QED BY <1>2, <1>3

\* The hand-out: of the winners there is only this one.
LEMMA HandRetire ==
    ASSUME TypeOK, WellAsked, HandInv, NEW p \in Web, Retire(p)
    PROVE  HandInv'
<1>r. web[p] \in Hands
  BY DEF TypeOK, Hands
<1>1. PICK r \in Requests : r = web[p].r
  BY <1>r DEF Retire, At, Hands, Hand, FreeSteps, BusySteps
<1>2. PICK h : h = [web[p] EXCEPT !.pc = "poll", !.r = NoOne, !.got = @ \cup {r}]
  OBVIOUS
<1>3. h.pc = "poll" /\ Hold(p, h) /\ web[p].pc = "retire"
  BY <1>r, <1>1, <1>2 DEF Retire, At, Hands, Hand
<1>4. web'[p] = h /\ \A q \in Web \ {p} : web'[q] = web[q]
  BY <1>3 DEF TypeOK, Hold
<1>5. /\ pending' = [pending EXCEPT ![r] = NoFile]
      /\ handed' = [handed EXCEPT ![r] = @ + 1]
      /\ UNCHANGED <<unclaimed, claimed, asked>>
  BY <1>1 DEF Retire
<1>6. /\ handed'[r] = handed[r] + 1 /\ pending'[r] = NoFile
      /\ \A x \in Requests \ {r} : handed'[x] = handed[x] /\ pending'[x] = pending[x]
  BY <1>5 DEF TypeOK
<1>7. asked[r] # NoOne
  BY <1>1, <1>3 DEF WellAsked, Working, BusySteps
<1>8. OpenIsUnhanded'
  BY <1>5, <1>6, <1>7 DEF HandInv, OpenIsUnhanded
<1>9. \A q \in Web, x \in Requests : Winner(q, x)' => q # p /\ Winner(q, x)
  BY <1>3, <1>4 DEF Winner
<1>10. Winner(p, r)
  BY <1>1, <1>3 DEF Winner
<1>11. OneWinner'
  <2> SUFFICES ASSUME NEW x \in Requests, x \notin unclaimed
               PROVE  /\ handed'[x] <= 1
                      /\ handed'[x] = 1 => claimed[x] # NoFile
                      /\ \A q \in Web : Winner(q, x)' => claimed[x] # NoFile /\ handed'[x] = 0
                      /\ \A q, s \in Web : Winner(q, x)' /\ Winner(s, x)' => q = s
    BY <1>5 DEF OneWinner
  <2>1. CASE x = r
    BY <1>6, <1>9, <1>10, <2>1 DEF HandInv, OneWinner
  <2>2. CASE x # r
    BY <1>6, <1>9, <2>2 DEF HandInv, OneWinner
  <2> QED BY <2>1, <2>2
<1> QED BY <1>8, <1>11 DEF HandInv

\* A claim that is unlinked is recorded as such.
LEMMA UnclaimRecords ==
    ASSUME TypeOK, NEW r, Unclaim(r),
           \A x \in Requests : x # r => claimed'[x] = claimed[x]
    PROVE  /\ unclaimed \subseteq unclaimed'
           /\ \A x \in Requests : claimed[x] # NoFile => claimed'[x] # NoFile \/ x \in unclaimed'
BY DEF Unclaim

\* However polls overlap, the winners stay unique until a claim is taken away.
LEMMA HandStep == TypeOK /\ WellAsked /\ HandInv /\ [Next]_vars => HandInv'
<1> SUFFICES ASSUME TypeOK, WellAsked, HandInv, [Next]_vars PROVE HandInv'
  OBVIOUS
<1> USE DEF FreeSteps, BusySteps
<1>r. \A p \in Web : web[p] \in Hands
  BY DEF TypeOK, Hands
<1> DEFINE Same == UNCHANGED <<handed, unclaimed, claimed, pending, asked>>
<1>s. ASSUME NEW p \in Web, NEW h, Hold(p, h), h.pc \notin {"fill", "retire"}, Same
      PROVE  HandInv'
  BY <1>s, HandOnly
<1>e. ASSUME NEW p \in Web, Hold(p, Rest), Same PROVE HandInv'
  BY <1>s, <1>e DEF Rest
<1>p. ASSUME NEW p \in Web, NEW pc, pc \notin {"fill", "retire"}, Step(p, pc), Same
      PROVE  HandInv'
  <2>1. PICK h : h = [web[p] EXCEPT !.pc = pc]
    OBVIOUS
  <2>2. h.pc = pc /\ Hold(p, h)
    BY <1>p, <1>r, <2>1 DEF Step, Hold, Hands, Hand
  <2> QED BY <1>p, <1>s, <2>2
\* The steps that only change the hand.
<1>1. ASSUME NEW p \in Web, ListDir(p) PROVE HandInv'
  <2>1. [web[p] EXCEPT !.pc = "sweep", !.todo = FilesOf("pending")].pc = "sweep"
    BY <1>r DEF Hands, Hand
  <2> QED BY <1>1, <1>s, <2>1 DEF ListDir, histories
<1>2. ASSUME NEW p \in Web, \/ Unstage(p) \/ Stage(p) \/ Serve(p) PROVE HandInv'
  BY <1>2, <1>p DEF Unstage, Stage, Serve, histories
<1>3. ASSUME NEW p \in Web, Take(p) PROVE HandInv'
  BY <1>3, <1>p, <1>e DEF Take
<1>4. ASSUME NEW p \in Web, PollEnd(p) \/ Register(p) \/ Crash(p) PROVE HandInv'
  BY <1>4, <1>e DEF PollEnd, Register, Crash, histories
<1>5. ASSUME NEW p \in Web, SweepNext(p) PROVE HandInv'
  <2>1. PICK h : /\ Hold(p, h)
                 /\ \/ h = [web[p] EXCEPT !.dir = "claimed", !.todo = FilesOf("claimed")]
                    \/ h = [web[p] EXCEPT !.dir = "served", !.todo = FilesOf("served")]
                    \/ h = [web[p] EXCEPT !.pc = "poll", !.dir = "pending",
                                          !.todo = FilesOf("pending")]
                    \/ h = [web[p] EXCEPT !.pc = "asking"]
                    \/ h = Rest
    BY <1>5 DEF SweepNext
  <2>2. web[p].pc = "sweep"
    BY <1>5 DEF SweepNext, At
  <2>3. h.pc \in {"sweep", "poll", "asking", "rest"}
    <3>1. /\ [web[p] EXCEPT !.dir = "claimed", !.todo = FilesOf("claimed")].pc = "sweep"
          /\ [web[p] EXCEPT !.dir = "served", !.todo = FilesOf("served")].pc = "sweep"
      BY <1>r, <2>2 DEF Hands, Hand
    <3>2. /\ [web[p] EXCEPT !.pc = "poll", !.dir = "pending", !.todo = FilesOf("pending")].pc = "poll"
          /\ [web[p] EXCEPT !.pc = "asking"].pc = "asking"
          /\ Rest.pc = "rest"
      BY <1>r DEF Rest, Hands, Hand
    <3> QED BY <2>1, <3>1, <3>2
  <2> QED BY <1>5, <1>s, <2>1, <2>3 DEF SweepNext, histories
<1>6. ASSUME NEW p \in Web, NEW r \in Requests, SweepLook(p, r) PROVE HandInv'
  <2>1. PICK v : v = Verdict(p, r)
    OBVIOUS
  <2>2. v \in {"unstage", "discard", "sweep"}
    BY <2>1 DEF Verdict
  <2>3. PICK h : h = [web[p] EXCEPT !.pc = v, !.todo = @ \ {r},
                                    !.r = IF v = "sweep" THEN NoOne ELSE r]
    OBVIOUS
  <2>4. h.pc = v
    BY <1>r, <2>3 DEF Hands, Hand
  <2> QED BY <1>6, <1>s, <2>1, <2>2, <2>3, <2>4 DEF SweepLook
<1>7. ASSUME NEW p \in Web, Read(p) PROVE HandInv'
  <2>1. [web[p] EXCEPT !.pc = "list", !.task = "ask"].pc = "list"
    BY <1>r DEF Hands, Hand
  <2> QED BY <1>7, <1>e, <1>s, <2>1 DEF Read, histories
<1>8. ASSUME NEW p \in Web, NEW r \in Requests, PollLook(p, r) PROVE HandInv'
  <2>1. PICK h : /\ Hold(p, h)
                 /\ \/ h = [web[p] EXCEPT !.todo = @ \ {r}]
                    \/ h = [web[p] EXCEPT !.pc = "claim", !.r = r, !.age = 0, !.todo = @ \ {r}]
    BY <1>8 DEF PollLook
  <2>2. h.pc \in {"poll", "claim"}
    BY <1>8, <1>r, <2>1 DEF PollLook, At, Hands, Hand
  <2> QED BY <1>8, <1>s, <2>1, <2>2 DEF PollLook, histories
<1>9. ASSUME NEW p \in Web, Enqueue(p) PROVE HandInv'
  <2>1. web[p].path # NoOne
    BY <1>9, BridgeAssumption DEF Enqueue, At, WellAsked, BridgeAssumption
  <2>2. CASE \E r \in Requests : /\ asked[r] = NoOne
                                 /\ asked' = [asked EXCEPT ![r] = web[p].path]
                                 /\ pending' = [pending EXCEPT ![r] = 0]
    <3>1. \A r \in Requests : (pending'[r] # NoFile \/ asked'[r] = NoOne)
                                 => pending[r] # NoFile \/ asked[r] = NoOne
      BY <2>1, <2>2 DEF TypeOK
    <3> QED BY <1>9, <3>1, Handless DEF Enqueue, histories, Rest
  <2> QED BY <1>9, <1>e, <2>2 DEF Enqueue, histories
\* The steps that unlink a file, or write a claim over another.
<1>10. ASSUME NEW p \in Web, Discard(p) PROVE HandInv'
  <2>1. PICK h : h = [web[p] EXCEPT !.pc = "sweep", !.r = NoOne]
    OBVIOUS
  <2>2. h.pc = "sweep" /\ Hold(p, h)
    BY <1>10, <1>r, <2>1 DEF Discard, Hands, Hand
  <2>3. \A r \in Requests : pending'[r] # NoFile => pending[r] # NoFile
    BY <1>10 DEF Discard, TypeOK
  <2>4. PICK r : r = IF web[p].dir = "claimed" THEN web[p].r ELSE NoOne
    OBVIOUS
  <2>5. Unclaim(r) /\ \A x \in Requests : x # r => claimed'[x] = claimed[x]
    BY <1>10, <2>4 DEF Discard, TypeOK
  <2> QED BY <1>10, <2>2, <2>3, <2>5, UnclaimRecords, Handless DEF Discard
<1>11. ASSUME NEW p \in Web, Close(p) PROVE HandInv'
  <2>1. PICK h : h = [web[p] EXCEPT !.pc = "register"]
    OBVIOUS
  <2>2. h.pc = "register" /\ Hold(p, h)
    BY <1>11, <1>r, <2>1 DEF Close, Step, Hold, Hands, Hand
  <2>3. PICK r : r = web[p].r
    OBVIOUS
  <2>4. Unclaim(r) /\ \A x \in Requests : x # r => claimed'[x] = claimed[x]
    BY <1>11, <2>3 DEF Close, TypeOK
  <2> QED BY <1>11, <2>2, <2>4, UnclaimRecords, Handless DEF Close
<1>12. ASSUME NEW p \in Web, Note(p) PROVE HandInv'
  <2>1. web[p] \in Hand(BusySteps, Requests)
    BY <1>12, <1>r DEF Note, At, Hands, Hand
  <2>2. PICK r \in Requests, c \in Claim : claimed' = [claimed EXCEPT ![r] = c]
    BY <1>12, <2>1 DEF Note, Hand, Claim
  <2>3. \A x \in Requests : claimed[x] # NoFile => claimed'[x] # NoFile
    BY <2>2, ClaimAssumption DEF ClaimAssumption, TypeOK
  <2> QED BY <1>12, <2>3, Handless DEF Note, histories, Rest
<1>13. ASSUME NEW p \in Web, Fill(p) PROVE HandInv'
  <2>1. web[p] \in Hand(BusySteps, Requests) /\ web[p].pc = "fill"
    BY <1>13, <1>r DEF Fill, At, Hands, Hand
  <2>2. PICK r \in Requests : r = web[p].r
    BY <2>1 DEF Hand
  <2>3. CASE Hold(p, Rest) /\ Unclaim(r) /\ claimed' = [claimed EXCEPT ![r] = NoFile]
    <3>1. \A x \in Requests : x # r => claimed'[x] = claimed[x]
      BY <2>3 DEF TypeOK
    <3> QED BY <1>13, <2>3, <3>1, UnclaimRecords, Handless DEF Fill, Rest
  <2>4. CASE /\ Step(p, "retire") /\ unclaimed' = unclaimed
             /\ \/ claimed' = claimed
                \/ claimed[r] # NoFile /\ claimed' = [claimed EXCEPT ![r].full = TRUE]
    <3>1. PICK h : h = [web[p] EXCEPT !.pc = "retire"]
      OBVIOUS
    <3>2. h.pc = "retire" /\ h.r = r /\ Hold(p, h)
      BY <2>1, <2>2, <2>4, <3>1 DEF Step, Hold, Hand
    <3>3. \A x \in Requests : claimed[x] # NoFile => claimed'[x] # NoFile
      <4>1. claimed[r] # NoFile => [claimed[r] EXCEPT !.full = TRUE] \in Claim
        <5> SUFFICES ASSUME claimed[r] \in Claim
                     PROVE  [claimed[r] EXCEPT !.full = TRUE] \in Claim
          BY DEF TypeOK
        <5> QED BY DEF Claim
      <4> QED BY <2>4, <4>1, ClaimAssumption DEF ClaimAssumption, TypeOK
    <3> QED BY <1>13, <2>1, <2>2, <2>4, <3>2, <3>3, Handless DEF Fill
  <2> QED BY <1>13, <2>2, <2>3, <2>4 DEF Fill
\* The steps that begin something start from a fresh hand.
<1>14. ASSUME NEW p \in Web, Begin(p) PROVE HandInv'
  <2>1. Same
    BY <1>14 DEF Begin, Classify, PollStart, ForeignSweep, Revoke, DeliverRead, TakeRead, histories
  <2>2. CASE UNCHANGED web
    BY <2>1, <2>2 DEF HandInv, OpenIsUnhanded, OneWinner, Winner
  <2>3. CASE ~UNCHANGED web
    <3>1. ASSUME NEW path \in Paths, Classify(p, path) PROVE HandInv'
      <4>1. [Rest EXCEPT !.pc = "reading", !.path = path].pc = "reading"
        BY DEF Rest
      <4> QED BY <1>s, <2>1, <3>1, <4>1 DEF Classify
    <3>2. CASE PollStart(p) \/ ForeignSweep(p) \/ Revoke(p)
      <4>1. PICK h : /\ Hold(p, h)
                     /\ \/ h = [Rest EXCEPT !.pc = "list", !.task = "poll"]
                        \/ h = [Rest EXCEPT !.pc = "list"]
                        \/ h = [Rest EXCEPT !.pc = "list", !.task = "purge"]
        BY <3>2 DEF PollStart, ForeignSweep, Revoke
      <4>2. h.pc = "list"
        BY <4>1 DEF Rest
      <4> QED BY <1>s, <2>1, <4>1, <4>2
    <3>3. ASSUME NEW r \in Requests, DeliverRead(p, r) \/ TakeRead(p, r) PROVE HandInv'
      <4>1. PICK h : /\ Hold(p, h)
                     /\ \/ h = [Rest EXCEPT !.pc = "take", !.r = r]
                        \/ h = [Rest EXCEPT !.pc = "stage", !.r = r, !.age = claimed[r].age]
        BY <2>3, <3>3 DEF DeliverRead, TakeRead
      <4>2. h.pc \in {"take", "stage"}
        BY <4>1 DEF Rest
      <4> QED BY <1>s, <2>1, <4>1, <4>2
    <3> QED BY <1>14, <3>1, <3>2, <3>3 DEF Begin
  <2> QED BY <2>2, <2>3
<1>15. CASE Tick
  <2>1. \A p \in Web : web'[p].pc = web[p].pc /\ web'[p].r = web[p].r
    BY <1>15, <1>r DEF Tick, Hands, Hand
  <2>2. \A r \in Requests : /\ pending'[r] # NoFile => pending[r] # NoFile
                            /\ claimed[r] # NoFile => claimed'[r] # NoFile
    <3>1. ASSUME NEW r \in Requests, claimed[r] # NoFile PROVE claimed'[r] # NoFile
      <4>1. PICK c \in Claim : c = claimed[r]
        BY <3>1 DEF TypeOK
      <4>2. Older(c.age, ClaimTtl) \in Age(ClaimTtl)
        BY <4>1, BridgeAssumption DEF Claim, Older, Age, BridgeAssumption
      <4>3. claimed'[r] = [c EXCEPT !.age = Older(c.age, ClaimTtl)]
        BY <1>15, <3>1, <4>1 DEF Tick
      <4>4. claimed'[r] \in Claim
        BY <4>1, <4>2, <4>3 DEF Claim
      <4> QED BY <4>4, ClaimAssumption DEF ClaimAssumption
    <3> QED BY <1>15, <3>1 DEF Tick
  <2>3. UNCHANGED <<handed, unclaimed, asked>>
    BY <1>15 DEF Tick, histories
  <2> QED BY <2>1, <2>2, <2>3 DEF HandInv, OpenIsUnhanded, OneWinner, Winner
<1>16. CASE UNCHANGED vars
  BY <1>16 DEF vars, histories, HandInv, OpenIsUnhanded, OneWinner, Winner
<1>17. ASSUME NEW p \in Web, GoOn(p) PROVE HandInv'
  BY <1>1, <1>2, <1>3, <1>4, <1>5, <1>6, <1>7, <1>8, <1>9, <1>10, <1>11, <1>12, <1>13, <1>17,
     HandCreate, HandRetire DEF GoOn
<1> QED BY <1>4, <1>14, <1>15, <1>16, <1>17 DEF Next

\* However many processes poll at a time, a request is handed out a second time
\* only after a claim of it has been consumed, swept, purged or unlinked by a
\* write that failed.
THEOREM HandedOnce == Spec => []HandedOutOncePerClaim
<1>1. Init => WellAsked
  BY DEF Init, WellAsked, Rest, Working, BusySteps
<1>2. TypeOK /\ HandInv => HandedOutOncePerClaim
  BY DEF TypeOK, HandInv, OneWinner, HandedOutOncePerClaim
<1> QED BY <1>1, <1>2, TypeInit, TypeStep, AskedStep, HandInit, HandStep, PTL DEF Spec

\* A poll takes a request up only by reading its pending record.
LEMMA TakesUp ==
    TypeOK /\ [Next]_vars =>
      \A p \in Web, r \in Requests : Claims(p, r)' => Claims(p, r) \/ pending[r] # NoFile
<1> SUFFICES ASSUME TypeOK, [Next]_vars, NEW p \in Web, NEW r \in Requests,
                    Claims(p, r)', ~Claims(p, r)
             PROVE  pending[r] # NoFile
  OBVIOUS
<1> USE DEF FreeSteps, BusySteps
<1>r. \A q \in Web : web[q] \in Hands
  BY DEF TypeOK, Hands
<1>s. ASSUME NEW q \in Web, NEW h, Hold(q, h),
             \/ h.pc \notin {"claim", "fill", "retire"}
             \/ web[q].pc \in {"claim", "fill"} /\ h.r = web[q].r
      PROVE  FALSE
  <2>1. web'[q] = h /\ \A x \in Web \ {q} : web'[x] = web[x]
    BY <1>s DEF TypeOK, Hold
  <2> QED BY <1>s, <2>1 DEF Claims
<1>e. ASSUME NEW q \in Web, Hold(q, Rest) PROVE FALSE
  BY <1>s, <1>e DEF Rest
<1>p. ASSUME NEW q \in Web, NEW pc, Step(q, pc),
             pc \notin {"claim", "fill", "retire"} \/ web[q].pc \in {"claim", "fill"}
      PROVE  FALSE
  <2>1. PICK h : h = [web[q] EXCEPT !.pc = pc]
    OBVIOUS
  <2>2. h.pc = pc /\ h.r = web[q].r /\ Hold(q, h)
    BY <1>p, <1>r, <2>1 DEF Step, Hold, Hands, Hand
  <2> QED BY <1>p, <1>s, <2>2
<1>1. ASSUME NEW q \in Web, ListDir(q) PROVE FALSE
  <2>1. [web[q] EXCEPT !.pc = "sweep", !.todo = FilesOf("pending")].pc = "sweep"
    BY <1>r DEF Hands, Hand
  <2> QED BY <1>1, <1>s, <2>1 DEF ListDir
<1>2. ASSUME NEW q \in Web, Unstage(q) \/ Stage(q) \/ Serve(q) \/ Close(q) PROVE FALSE
  BY <1>2, <1>p DEF Unstage, Stage, Serve, Close
<1>3. ASSUME NEW q \in Web, Take(q) PROVE FALSE
  BY <1>3, <1>p, <1>e DEF Take
<1>4. ASSUME NEW q \in Web, PollEnd(q) \/ Note(q) \/ Register(q) \/ Crash(q) \/ Enqueue(q)
      PROVE  FALSE
  BY <1>4, <1>e DEF PollEnd, Note, Register, Crash, Enqueue
<1>5. ASSUME NEW q \in Web, SweepNext(q) PROVE FALSE
  <2>1. PICK h : /\ Hold(q, h)
                 /\ \/ h = [web[q] EXCEPT !.dir = "claimed", !.todo = FilesOf("claimed")]
                    \/ h = [web[q] EXCEPT !.dir = "served", !.todo = FilesOf("served")]
                    \/ h = [web[q] EXCEPT !.pc = "poll", !.dir = "pending",
                                          !.todo = FilesOf("pending")]
                    \/ h = [web[q] EXCEPT !.pc = "asking"]
                    \/ h = Rest
    BY <1>5 DEF SweepNext
  <2>2. web[q].pc = "sweep"
    BY <1>5 DEF SweepNext, At
  <2>3. /\ [web[q] EXCEPT !.dir = "claimed", !.todo = FilesOf("claimed")].pc = "sweep"
        /\ [web[q] EXCEPT !.dir = "served", !.todo = FilesOf("served")].pc = "sweep"
    BY <1>r, <2>2 DEF Hands, Hand
  <2>4. /\ [web[q] EXCEPT !.pc = "poll", !.dir = "pending", !.todo = FilesOf("pending")].pc = "poll"
        /\ [web[q] EXCEPT !.pc = "asking"].pc = "asking"
        /\ Rest.pc = "rest"
    BY <1>r DEF Rest, Hands, Hand
  <2>5. h.pc \in {"sweep", "poll", "asking", "rest"}
    BY <2>1, <2>3, <2>4
  <2> QED BY <1>s, <2>1, <2>5
<1>6. ASSUME NEW q \in Web, NEW x \in Requests, SweepLook(q, x) PROVE FALSE
  <2>1. PICK v : v = Verdict(q, x)
    OBVIOUS
  <2>2. v \in {"unstage", "discard", "sweep"}
    BY <2>1 DEF Verdict
  <2>3. PICK h : h = [web[q] EXCEPT !.pc = v, !.todo = @ \ {x},
                                    !.r = IF v = "sweep" THEN NoOne ELSE x]
    OBVIOUS
  <2>4. h.pc = v
    BY <1>r, <2>3 DEF Hands, Hand
  <2> QED BY <1>6, <1>s, <2>1, <2>2, <2>3, <2>4 DEF SweepLook
<1>7. ASSUME NEW q \in Web, Read(q) PROVE FALSE
  <2>1. [web[q] EXCEPT !.pc = "list", !.task = "ask"].pc = "list"
    BY <1>r DEF Hands, Hand
  <2> QED BY <1>7, <1>e, <1>s, <2>1 DEF Read
\* The only step that takes something up has just read it.
<1>8. ASSUME NEW q \in Web, NEW x \in Requests, PollLook(q, x) PROVE pending[r] # NoFile
  <2>1. [web[q] EXCEPT !.todo = @ \ {x}].pc = "poll"
    BY <1>8, <1>r DEF PollLook, At, Hands, Hand
  <2>2. PICK h : h = [web[q] EXCEPT !.pc = "claim", !.r = x, !.age = 0, !.todo = @ \ {x}]
    OBVIOUS
  <2>3. pending[x] # NoFile /\ Hold(q, h)
    BY <1>8, <1>s, <2>1, <2>2 DEF PollLook
  <2>4. web'[q] = h /\ \A y \in Web \ {q} : web'[y] = web[y]
    BY <2>3 DEF TypeOK, Hold
  <2>5. h.r = x
    BY <1>r, <2>2 DEF Hands, Hand
  <2> QED BY <2>3, <2>4, <2>5 DEF Claims
<1>9. ASSUME NEW q \in Web, Discard(q) PROVE FALSE
  <2>1. [web[q] EXCEPT !.pc = "sweep", !.r = NoOne].pc = "sweep"
    BY <1>r DEF Hands, Hand
  <2> QED BY <1>9, <1>s, <2>1 DEF Discard
<1>10. ASSUME NEW q \in Web, Create(q) PROVE FALSE
  <2>1. [web[q] EXCEPT !.pc = "poll", !.r = NoOne].pc = "poll"
    BY <1>r DEF Hands, Hand
  <2> QED BY <1>10, <1>s, <1>p, <2>1 DEF Create, At
<1>11. ASSUME NEW q \in Web, Fill(q) PROVE FALSE
  BY <1>11, <1>p, <1>e DEF Fill, At
<1>12. ASSUME NEW q \in Web, Retire(q) PROVE FALSE
  <2>1. [web[q] EXCEPT !.pc = "poll", !.r = NoOne, !.got = @ \cup {web[q].r}].pc = "poll"
    BY <1>r DEF Hands, Hand
  <2> QED BY <1>12, <1>s, <2>1 DEF Retire
<1>13. ASSUME NEW q \in Web, Begin(q) PROVE FALSE
  <2>1. ASSUME NEW path \in Paths, Classify(q, path) PROVE FALSE
    <3>1. [Rest EXCEPT !.pc = "reading", !.path = path].pc = "reading"
      BY DEF Rest
    <3> QED BY <1>s, <2>1, <3>1 DEF Classify
  <2>2. CASE PollStart(q) \/ ForeignSweep(q) \/ Revoke(q)
    <3>1. /\ [Rest EXCEPT !.pc = "list", !.task = "poll"].pc = "list"
          /\ [Rest EXCEPT !.pc = "list"].pc = "list"
          /\ [Rest EXCEPT !.pc = "list", !.task = "purge"].pc = "list"
      BY DEF Rest
    <3> QED BY <1>s, <2>2, <3>1 DEF PollStart, ForeignSweep, Revoke
  <2>3. ASSUME NEW x \in Requests, DeliverRead(q, x) \/ TakeRead(q, x) PROVE FALSE
    <3>1. /\ [Rest EXCEPT !.pc = "take", !.r = x].pc = "take"
          /\ [Rest EXCEPT !.pc = "stage", !.r = x, !.age = claimed[x].age].pc = "stage"
      BY DEF Rest
    <3>2. ~UNCHANGED web
      BY DEF Claims
    <3> QED BY <1>s, <2>3, <3>1, <3>2 DEF DeliverRead, TakeRead
  <2> QED BY <1>13, <2>1, <2>2, <2>3 DEF Begin
<1>14. CASE Tick
  <2>1. \A q \in Web : web'[q].pc = web[q].pc /\ web'[q].r = web[q].r
    BY <1>14, <1>r DEF Tick, Hands, Hand
  <2> QED BY <2>1 DEF Claims
<1>15. CASE UNCHANGED vars
  BY <1>15 DEF vars, Claims
<1>16. ASSUME NEW q \in Web, GoOn(q) PROVE pending[r] # NoFile
  BY <1>1, <1>2, <1>3, <1>4, <1>5, <1>6, <1>7, <1>8, <1>9, <1>10, <1>11, <1>12, <1>16 DEF GoOn
<1> QED BY <1>4, <1>13, <1>14, <1>15, <1>16 DEF Next

\* Once a request has been handed out no poll takes it up any more, however many
\* processes poll and whatever becomes of its claim.
THEOREM NoneAfterwards == Spec => NoLaterTaker
<1>1. Init => WellAsked
  BY DEF Init, WellAsked, Rest, Working, BusySteps
<1>2. TypeOK /\ HandInv /\ [Next]_vars =>
        [\A p \in Web, r \in Requests : handed[r] > 0 /\ Claims(p, r)' => Claims(p, r)]_vars
  BY TakesUp DEF HandInv, OpenIsUnhanded
<1> QED BY <1>1, <1>2, TypeInit, TypeStep, AskedStep, HandInit, HandStep,
           PTL DEF Spec, NoLaterTaker

-----------------------------------------------------------------------------
(* No request is lost *)

\* Reasons for which a request may be gone for good.
Excused(r) == consumed[r] > 0 \/ revoked \/ r \in judged

\* What a process has in hand can be relied on: only a revocation purges, what a
\* sweep removes was judged, what was given or taken was handed out or consumed,
\* and the claim a poll has created is still its own unless there is a reason.
Sound(p, h) ==
    /\ h.task = "purge" => revoked
    /\ h.pc \in {"unstage", "discard"} => Excused(h.r)
    /\ h.pc \in {"serve", "close"} => consumed[h.r] > 0
    /\ h.pc \in {"stage", "note"} => handed[h.r] > 0
    /\ \A r \in h.got : handed[r] > 0
    /\ h.pc = "fill" => \/ Excused(h.r)
                        \/ /\ claimed[h.r] # NoFile /\ claimed[h.r].by = p
                           /\ ~claimed[h.r].full /\ handed[h.r] = 0
    /\ h.pc = "retire" => \/ Excused(h.r)
                          \/ /\ Readable(h.r) /\ claimed[h.r].by = p
                             /\ handed[h.r] = 0

\* What the agent has been given was handed out, and the claim of what was handed
\* out stands unless there is a reason.
AgentHanded == \A r \in agent : handed[r] > 0
HandedStands == \A r \in Requests : handed[r] > 0 => Excused(r) \/ Readable(r)

\* NoRequestLost says nothing of what a process still has in hand, and a sweep,
\* a delivery and a poll each act on what they read earlier: the hands have to
\* be part of the invariant.
LossInv == (\A p \in Web : Sound(p, web[p])) /\ AgentHanded /\ HandedStands

\* An empty queue and idle processes.
LEMMA LossInit == Init => LossInv
BY DEF Init, LossInv, Sound, AgentHanded, HandedStands, Rest

\* A hand at a step that relies on nothing.
PlainSteps == {"rest", "list", "sweep", "poll", "reading", "asking", "claim", "take", "register"}

LEMMA PlainHand ==
    ASSUME NEW p, NEW h, h.pc \in PlainSteps,
           h.task = "purge" => revoked, \A r \in h.got : handed[r] > 0
    PROVE  Sound(p, h)
BY DEF Sound, PlainSteps

\* Reasons only accrue, and nothing that was handed out becomes unhanded.
Accrues == /\ revoked => revoked'
           /\ judged \subseteq judged'
           /\ \A r \in Requests : consumed[r] > 0 => consumed'[r] > 0
           /\ \A r \in Requests : handed[r] > 0 => handed'[r] > 0

\* A hand stays sound through a step that leaves its request alone, or gives it a
\* reason.
LEMMA StaysSound ==
    ASSUME NEW p \in Web, NEW h \in Hands, Sound(p, h), Accrues,
           h.pc \in {"fill", "retire"} =>
              \/ Excused(h.r)'
              \/ claimed'[h.r] = claimed[h.r] /\ handed'[h.r] = handed[h.r]
    PROVE  Sound(p, h)'
<1>1. h.pc \in BusySteps => h.r \in Requests
  BY DEF Hands, Hand, FreeSteps, BusySteps
<1>2. h.got \subseteq Requests
  BY DEF Hands, Hand
<1>3. \A r \in Requests : Excused(r) => Excused(r)'
  BY DEF Accrues, Excused
<1>4. /\ h.task = "purge" => revoked'
      /\ h.pc \in {"unstage", "discard"} => Excused(h.r)'
      /\ h.pc \in {"serve", "close"} => consumed'[h.r] > 0
      /\ h.pc \in {"stage", "note"} => handed'[h.r] > 0
      /\ \A r \in h.got : handed'[r] > 0
  BY <1>1, <1>2, <1>3 DEF Sound, Accrues, BusySteps
<1>5. h.pc = "fill" => \/ Excused(h.r)'
                       \/ /\ claimed'[h.r] # NoFile /\ claimed'[h.r].by = p
                          /\ ~claimed'[h.r].full /\ handed'[h.r] = 0
  BY <1>1, <1>3 DEF Sound, BusySteps
<1>6. h.pc = "retire" => \/ Excused(h.r)'
                         \/ /\ Readable(h.r)' /\ claimed'[h.r].by = p
                            /\ handed'[h.r] = 0
  BY <1>1, <1>3 DEF Sound, BusySteps, Readable
<1> QED BY <1>4, <1>5, <1>6 DEF Sound

\* One process moves and changes the claim or the hand-outs of r at most: the
\* others stay sound when there is a reason, or none of them is about to hand r out.
LEMMA OneMoves ==
    ASSUME TypeOK, LossInv, NEW p \in Web, NEW h, Hold(p, h), Sound(p, h)', Accrues,
           NEW r, \A x \in Requests \ {r} : claimed'[x] = claimed[x] /\ handed'[x] = handed[x],
           Excused(r)' \/ \A q \in Web \ {p} : ~Winner(q, r),
           r \in Requests /\ handed'[r] > 0 => Excused(r)' \/ Readable(r)',
           AgentHanded'
    PROVE  LossInv'
<1>1. web'[p] = h /\ \A q \in Web \ {p} : web'[q] = web[q]
  BY DEF TypeOK, Hold
<1>2. ASSUME NEW q \in Web \ {p}, NEW g, g = web[q] PROVE Sound(q, g)'
  <2>1. g \in Hands /\ Sound(q, g)
    BY <1>2 DEF TypeOK, Hands, LossInv
  <2>2. g.pc \in {"fill", "retire"} => g.r \in Requests
    BY <2>1 DEF Hands, Hand, FreeSteps, BusySteps
  <2>3. g.pc \in {"fill", "retire"} =>
           \/ Excused(g.r)'
           \/ claimed'[g.r] = claimed[g.r] /\ handed'[g.r] = handed[g.r]
    BY <1>2, <2>2 DEF Winner
  <2> QED BY <2>1, <2>3, StaysSound
<1>3. ASSUME NEW q \in Web PROVE Sound(q, web[q])'
  <2>1. PICK g : g = web'[q]
    OBVIOUS
  <2>2. Sound(q, g)'
    BY <1>1, <1>2, <2>1
  <2> QED BY <2>1, <2>2 DEF Sound, Excused, Readable
<1>4. HandedStands'
  <2> SUFFICES ASSUME NEW x \in Requests, handed'[x] > 0
               PROVE  Excused(x)' \/ Readable(x)'
    BY DEF HandedStands
  <2>1. CASE x = r
    BY <2>1
  <2>2. CASE x # r
    <3>1. Excused(x) \/ Readable(x)
      BY <2>2 DEF LossInv, HandedStands
    <3>2. Excused(x) => Excused(x)'
      BY DEF Accrues, Excused
    <3>3. Readable(x) => Readable(x)'
      BY <2>2 DEF Readable
    <3> QED BY <3>1, <3>2, <3>3
  <2> QED BY <2>1, <2>2
<1> QED BY <1>3, <1>4 DEF LossInv

\* A step that changes neither claims nor hand-outs.
LEMMA QuietStep ==
    ASSUME TypeOK, LossInv, NEW p \in Web, NEW h, Hold(p, h), Sound(p, h)', Accrues,
           UNCHANGED <<claimed, handed>>, AgentHanded'
    PROVE  LossInv'
<1>1. NoOne \notin Requests
  BY BridgeAssumption DEF BridgeAssumption
<1>2. \A q \in Web : ~Winner(q, NoOne)
  BY <1>1 DEF Winner, TypeOK, Hand, FreeSteps, BusySteps
<1> QED BY <1>1, <1>2, OneMoves

\* A step to a plain hand that hands nothing out.
LEMMA PlainStep ==
    ASSUME TypeOK, LossInv, NEW p \in Web, NEW h, Hold(p, h), h.pc \in PlainSteps,
           h.task = "purge" => revoked', h.got \subseteq web[p].got,
           Accrues, UNCHANGED <<claimed, handed, agent>>
    PROVE  LossInv'
<1>1. \A r \in h.got : handed[r] > 0
  BY DEF LossInv, Sound
<1>2. Sound(p, h)'
  BY <1>1 DEF Sound, PlainSteps
<1>3. AgentHanded'
  BY DEF LossInv, AgentHanded
<1> QED BY <1>2, <1>3, QuietStep

\* The steps that only change the hand.
LEMMA HandMoves ==
    ASSUME TypeOK, LossInv, NEW p \in Web,
           \/ ListDir(p) \/ Unstage(p) \/ SweepNext(p) \/ Read(p) \/ Enqueue(p) \/ PollEnd(p)
           \/ Register(p) \/ Serve(p) \/ Stage(p) \/ Take(p) \/ Crash(p)
    PROVE  LossInv'
<1> USE DEF FreeSteps, BusySteps, PlainSteps
<1>r. web[p] \in Hands
  BY DEF TypeOK, Hands
<1>f. Sound(p, web[p])
  BY DEF LossInv
<1> DEFINE Same == UNCHANGED <<claimed, handed, consumed, revoked, judged>>
<1>a. Same => Accrues
  BY DEF Accrues
<1>s. ASSUME NEW h, Hold(p, h), h.pc \in PlainSteps, h.task \in {web[p].task, "rest", "ask"},
             h.got \subseteq web[p].got, Same, agent' = agent
      PROVE  LossInv'
  BY <1>a, <1>f, <1>s, PlainStep DEF Sound
<1>e. ASSUME Hold(p, Rest), Same, agent' = agent PROVE LossInv'
  <2>1. Rest.pc = "rest" /\ Rest.task = "rest" /\ Rest.got = {}
    BY DEF Rest
  <2> QED BY <1>s, <1>e, <2>1
\* A step on the same request, with what the hand then says.
<1>p. ASSUME NEW pc, Step(p, pc), Accrues, UNCHANGED <<claimed, handed, agent>>,
             pc \in {"discard", "close", "note", "serve"}, NEW r, r = web[p].r,
             pc = "discard" => Excused(r)',
             pc \in {"close", "serve"} => consumed'[r] > 0,
             pc = "note" => handed[r] > 0
      PROVE  LossInv'
  <2>1. PICK h : h = [web[p] EXCEPT !.pc = pc]
    OBVIOUS
  <2>2. /\ h.pc = pc /\ h.r = web[p].r /\ h.task = web[p].task /\ h.got = web[p].got
        /\ Hold(p, h)
    BY <1>p, <1>r, <2>1 DEF Step, Hold, Hands, Hand
  <2>3. Sound(p, h)'
    BY <1>f, <1>p, <2>2 DEF Sound, Accrues
  <2>4. AgentHanded'
    BY <1>p DEF LossInv, AgentHanded
  <2> QED BY <1>p, <2>2, <2>3, <2>4, QuietStep
<1>1. CASE ListDir(p)
  <2>1. PICK h : h = [web[p] EXCEPT !.pc = "sweep", !.todo = FilesOf("pending")]
    OBVIOUS
  <2>2. h.pc = "sweep" /\ h.task = web[p].task /\ h.got = web[p].got
    BY <1>r, <2>1 DEF Hands, Hand
  <2> QED BY <1>1, <1>s, <2>1, <2>2 DEF ListDir, histories
<1>2. CASE Unstage(p)
  <2>0. PICK r : r = web[p].r
    OBVIOUS
  <2>1. Excused(r)
    BY <1>2, <1>f, <2>0 DEF Unstage, At, Sound
  <2>2. Excused(r)'
    BY <1>2, <2>1 DEF Unstage, Excused, histories
  <2> QED BY <1>2, <1>a, <1>p, <2>0, <2>2 DEF Unstage, histories
<1>3. CASE SweepNext(p)
  <2>1. PICK h : /\ Hold(p, h)
                 /\ \/ h = [web[p] EXCEPT !.dir = "claimed", !.todo = FilesOf("claimed")]
                    \/ h = [web[p] EXCEPT !.dir = "served", !.todo = FilesOf("served")]
                    \/ h = [web[p] EXCEPT !.pc = "poll", !.dir = "pending",
                                          !.todo = FilesOf("pending")]
                    \/ h = [web[p] EXCEPT !.pc = "asking"]
                    \/ h = Rest
    BY <1>3 DEF SweepNext
  <2>2. web[p].pc = "sweep"
    BY <1>3 DEF SweepNext, At
  <2>3. CASE h = Rest
    BY <1>3, <1>e, <2>1, <2>3 DEF SweepNext, histories
  <2>4. CASE h # Rest
    <3>1. h.pc \in {"sweep", "poll", "asking"} /\ h.task = web[p].task /\ h.got = web[p].got
      BY <1>r, <2>1, <2>2, <2>4 DEF Hands, Hand
    <3> QED BY <1>3, <1>s, <2>1, <3>1 DEF SweepNext, histories
  <2> QED BY <2>3, <2>4
<1>4. CASE Read(p)
  <2>1. PICK h : h = [web[p] EXCEPT !.pc = "list", !.task = "ask"]
    OBVIOUS
  <2>2. h.pc = "list" /\ h.task = "ask" /\ h.got = web[p].got
    BY <1>r, <2>1 DEF Hands, Hand
  <2> QED BY <1>4, <1>e, <1>s, <2>1, <2>2 DEF Read, histories
<1>5. CASE Register(p) \/ Crash(p) \/ Enqueue(p)
  BY <1>5, <1>e DEF Register, Crash, Enqueue, histories
<1>6. CASE PollEnd(p)
  <2>1. AgentHanded'
    BY <1>6, <1>f DEF PollEnd, LossInv, AgentHanded, Sound, histories
  <2>2. Sound(p, Rest)'
    BY DEF Sound, Rest
  <2> QED BY <1>6, <1>a, <2>1, <2>2, QuietStep DEF PollEnd, histories
<1>7. CASE Serve(p)
  <2>1. consumed[web[p].r] > 0
    BY <1>7, <1>f DEF Serve, At, Sound
  <2>2. PICK r : r = web[p].r
    OBVIOUS
  <2> QED BY <1>7, <1>a, <1>p, <2>1, <2>2 DEF Serve, histories
<1>8. CASE Stage(p)
  <2>1. handed[web[p].r] > 0
    BY <1>8, <1>f DEF Stage, At, Sound
  <2>2. PICK r : r = web[p].r
    OBVIOUS
  <2> QED BY <1>8, <1>a, <1>p, <2>1, <2>2 DEF Stage
<1>9. CASE Take(p)
  <2>0. web[p].pc = "take"
    BY <1>9 DEF Take, At
  <2>1. PICK r \in Requests : r = web[p].r
    BY <1>r, <2>0 DEF Hands, Hand
  <2>2. CASE consumed' = consumed /\ Hold(p, Rest)
    BY <1>9, <1>e, <2>2 DEF Take
  <2>3. CASE consumed' = [consumed EXCEPT ![r] = @ + 1] /\ Step(p, "serve")
    <3>1. consumed'[r] > 0 /\ \A x \in Requests : consumed[x] > 0 => consumed'[x] > 0
      BY <2>3 DEF TypeOK
    <3>2. Accrues
      BY <1>9, <3>1 DEF Take, Accrues
    <3> QED BY <1>9, <1>p, <2>1, <2>3, <3>1, <3>2 DEF Take
  <2> QED BY <1>9, <2>1, <2>2, <2>3 DEF Take
<1> QED BY <1>1, <1>2, <1>3, <1>4, <1>5, <1>6, <1>7, <1>8, <1>9

\* A look at one file: what a sweep will remove is judged now.
LEMMA HandLooks ==
    ASSUME TypeOK, LossInv, NEW p \in Web, NEW r \in Requests,
           SweepLook(p, r) \/ PollLook(p, r)
    PROVE  LossInv'
<1> USE DEF FreeSteps, BusySteps, PlainSteps
<1>r. web[p] \in Hands
  BY DEF TypeOK, Hands
<1>f. Sound(p, web[p])
  BY DEF LossInv
<1>g. AgentHanded'
  BY DEF SweepLook, PollLook, LossInv, AgentHanded, histories
<1>1. CASE SweepLook(p, r)
  <2>1. PICK v : v = Verdict(p, r)
    OBVIOUS
  <2>2. v \in {"unstage", "discard", "sweep"}
    BY <2>1 DEF Verdict
  <2>3. PICK h : h = [web[p] EXCEPT !.pc = v, !.todo = @ \ {r},
                                    !.r = IF v = "sweep" THEN NoOne ELSE r]
    OBVIOUS
  <2>4. /\ h.pc = v /\ h.task = web[p].task /\ h.got = web[p].got
        /\ v # "sweep" => h.r = r
    BY <1>r, <2>2, <2>3 DEF Hands, Hand
  <2>5. Accrues /\ Hold(p, h) /\ UNCHANGED <<claimed, handed, revoked>>
    BY <1>1, <2>1, <2>3 DEF SweepLook, Accrues
  <2>6. v # "sweep" => Excused(r)'
    BY <1>1, <1>f, <2>1 DEF SweepLook, Sound, Excused
  <2>7. Sound(p, h)'
    BY <1>f, <2>2, <2>4, <2>5, <2>6 DEF Sound
  <2> QED BY <1>g, <2>5, <2>7, QuietStep
<1>2. CASE PollLook(p, r)
  <2>1. PICK h : /\ Hold(p, h)
                 /\ \/ h = [web[p] EXCEPT !.todo = @ \ {r}]
                    \/ h = [web[p] EXCEPT !.pc = "claim", !.r = r, !.age = 0, !.todo = @ \ {r}]
    BY <1>2 DEF PollLook
  <2>2. h.pc \in {"poll", "claim"} /\ h.task = web[p].task /\ h.got = web[p].got
    BY <1>2, <1>r, <2>1 DEF PollLook, At, Hands, Hand
  <2>3. UNCHANGED <<claimed, handed, consumed, revoked, judged, agent>>
    BY <1>2 DEF PollLook, histories
  <2>4. Accrues
    BY <2>3 DEF Accrues
  <2> QED BY <1>f, <2>1, <2>2, <2>3, <2>4, PlainStep DEF Sound
<1> QED BY <1>1, <1>2

\* The steps that begin something.
LEMMA HandBegins ==
    ASSUME TypeOK, LossInv, NEW p \in Web, Begin(p)
    PROVE  LossInv'
<1> USE DEF PlainSteps
<1> DEFINE Same == UNCHANGED <<claimed, handed, consumed, judged>>
<1>a. Same /\ (revoked => revoked') => Accrues
  BY DEF Accrues
<1>s. ASSUME NEW h, Hold(p, h), h.pc \in PlainSteps, h.task = "purge" => revoked', h.got = {},
             Same, revoked => revoked', agent' = agent
      PROVE  LossInv'
  BY <1>a, <1>s, PlainStep
<1>1. ASSUME NEW path \in Paths, Classify(p, path) PROVE LossInv'
  <2>1. PICK h : h = [Rest EXCEPT !.pc = "reading", !.path = path]
    OBVIOUS
  <2>2. h.pc = "reading" /\ h.task = "rest" /\ h.got = {}
    BY <2>1 DEF Rest
  <2> QED BY <1>1, <1>s, <2>1, <2>2 DEF Classify, histories
<1>2. CASE PollStart(p) \/ ForeignSweep(p) \/ Revoke(p)
  <2>1. PICK h : /\ Hold(p, h)
                 /\ \/ h = [Rest EXCEPT !.pc = "list", !.task = "poll"]
                    \/ h = [Rest EXCEPT !.pc = "list"]
                    \/ h = [Rest EXCEPT !.pc = "list", !.task = "purge"] /\ revoked'
    BY <1>2 DEF PollStart, ForeignSweep, Revoke
  <2>2. h.pc = "list" /\ h.got = {} /\ (h.task = "purge" => revoked')
    BY <2>1 DEF Rest
  <2>3. Same /\ agent' = agent /\ (revoked => revoked')
    BY <1>2 DEF PollStart, ForeignSweep, Revoke, histories
  <2> QED BY <1>s, <2>1, <2>2, <2>3
<1>3. ASSUME NEW r \in Requests, DeliverRead(p, r) PROVE LossInv'
  <2>1. Same /\ revoked' = revoked /\ agent' = agent \ {r}
    BY <1>3 DEF DeliverRead, histories
  <2>2. AgentHanded'
    BY <2>1 DEF LossInv, AgentHanded
  <2>3. CASE UNCHANGED web
    <3>1. ASSUME NEW q \in Web PROVE Sound(q, web[q])'
      BY <2>1, <2>3 DEF LossInv, Sound, Excused, Readable
    <3>2. HandedStands'
      BY <2>1 DEF LossInv, HandedStands, Excused, Readable
    <3> QED BY <2>2, <3>1, <3>2 DEF LossInv
  <2>4. CASE ~UNCHANGED web
    <3>1. PICK h : h = [Rest EXCEPT !.pc = "stage", !.r = r, !.age = claimed[r].age]
      OBVIOUS
    <3>2. Hold(p, h) /\ r \in agent
      BY <1>3, <2>4, <3>1 DEF DeliverRead
    <3>3. h.pc = "stage" /\ h.r = r /\ h.got = {} /\ h.task = "rest"
      BY <3>1 DEF Rest
    <3>4. handed'[r] > 0
      BY <2>1, <3>2 DEF LossInv, AgentHanded
    <3>5. Sound(p, h)'
      BY <3>3, <3>4 DEF Sound
    <3> QED BY <1>a, <2>1, <2>2, <3>2, <3>5, QuietStep
  <2> QED BY <2>3, <2>4
<1>4. ASSUME NEW r \in Requests, TakeRead(p, r) PROVE LossInv'
  <2>1. PICK h : h = [Rest EXCEPT !.pc = "take", !.r = r]
    OBVIOUS
  <2>2. h.pc = "take" /\ h.task = "rest" /\ h.got = {}
    BY <2>1 DEF Rest
  <2> QED BY <1>4, <1>s, <2>1, <2>2 DEF TakeRead, histories
<1> QED BY <1>1, <1>2, <1>3, <1>4 DEF Begin

\* What is unlinked was judged, or the agent is revoked.
LEMMA LossDiscard ==
    ASSUME TypeOK, LossInv, NEW p \in Web, Discard(p)
    PROVE  LossInv'
<1>r. web[p] \in Hands /\ Sound(p, web[p])
  BY DEF TypeOK, Hands, LossInv
<1>1. PICK r \in Requests : r = web[p].r
  BY <1>r DEF Discard, At, Hands, Hand, FreeSteps, BusySteps
<1>2. PICK h : h = [web[p] EXCEPT !.pc = "sweep", !.r = NoOne]
  OBVIOUS
<1>3. h.pc = "sweep" /\ h.task = web[p].task /\ h.got = web[p].got
  BY <1>r, <1>2 DEF Hands, Hand
<1>4. Hold(p, h) /\ UNCHANGED <<handed, consumed, revoked, judged, agent>>
  BY <1>2 DEF Discard
<1>5. Accrues
  BY <1>4 DEF Accrues
<1>6. Excused(r)'
  BY <1>r, <1>1, <1>4 DEF Discard, At, Sound, Excused
<1>7. \A x \in Requests \ {r} : claimed'[x] = claimed[x] /\ handed'[x] = handed[x]
  BY <1>1, <1>4 DEF Discard, TypeOK
<1>8. Sound(p, h)'
  BY <1>r, <1>3, <1>4 DEF Sound
<1>9. AgentHanded'
  BY <1>4 DEF LossInv, AgentHanded
<1> QED BY <1>4, <1>5, <1>6, <1>7, <1>8, <1>9, OneMoves

\* The claim is removed after its bytes were taken.
LEMMA LossClose ==
    ASSUME TypeOK, LossInv, NEW p \in Web, Close(p)
    PROVE  LossInv'
<1>r. web[p] \in Hands /\ Sound(p, web[p])
  BY DEF TypeOK, Hands, LossInv
<1>1. PICK r \in Requests : r = web[p].r
  BY <1>r DEF Close, At, Hands, Hand, FreeSteps, BusySteps
<1>2. PICK h : h = [web[p] EXCEPT !.pc = "register"]
  OBVIOUS
<1>3. h.pc = "register" /\ h.task = web[p].task /\ h.got = web[p].got
  BY <1>r, <1>2 DEF Hands, Hand
<1>4. Hold(p, h) /\ UNCHANGED <<handed, consumed, revoked, judged, agent>>
  BY <1>2 DEF Close, Step, Hold
<1>5. Accrues
  BY <1>4 DEF Accrues
<1>6. Excused(r)'
  BY <1>r, <1>1, <1>4 DEF Close, At, Sound, Excused
<1>7. \A x \in Requests \ {r} : claimed'[x] = claimed[x] /\ handed'[x] = handed[x]
  BY <1>1, <1>4 DEF Close, TypeOK
<1>8. Sound(p, h)'
  BY <1>r, <1>3, <1>4 DEF Sound
<1>9. AgentHanded'
  BY <1>4 DEF LossInv, AgentHanded
<1> QED BY <1>4, <1>5, <1>6, <1>7, <1>8, <1>9, OneMoves

\* A delivery writes the claim of what was handed out: no poll is about to hand
\* it out, unless there is a reason.
LEMMA LossNote ==
    ASSUME TypeOK, LossInv, NEW p \in Web, Note(p)
    PROVE  LossInv'
<1>r. web[p] \in Hands /\ Sound(p, web[p]) /\ web[p].pc = "note"
  BY DEF TypeOK, Hands, LossInv, Note, At
<1>1. PICK r \in Requests : r = web[p].r
  BY <1>r DEF Hands, Hand, FreeSteps, BusySteps
<1>2. PICK c : c = [by |-> p, full |-> TRUE, age |-> web[p].age]
  OBVIOUS
<1>3. c \in Claim /\ c.full
  BY <1>r, <1>2 DEF Hands, Hand, Claim
<1>4. /\ Hold(p, Rest) /\ claimed' = [claimed EXCEPT ![r] = c]
      /\ UNCHANGED <<handed, consumed, revoked, judged, agent>>
  BY <1>1, <1>2 DEF Note, histories
<1>5. Accrues
  BY <1>4 DEF Accrues
<1>6. /\ claimed'[r] = c
      /\ \A x \in Requests \ {r} : claimed'[x] = claimed[x] /\ handed'[x] = handed[x]
  BY <1>4 DEF TypeOK
<1>7. Readable(r)'
  BY <1>3, <1>6, ClaimAssumption DEF Readable, ClaimAssumption
<1>8. handed[r] > 0
  BY <1>r, <1>1 DEF Sound
<1>9. Excused(r)' \/ \A q \in Web \ {p} : ~Winner(q, r)
  <2>1. Excused(r) => Excused(r)'
    BY <1>5 DEF Accrues, Excused
  <2>2. ASSUME NEW q \in Web, Winner(q, r) PROVE Excused(r)
    BY <1>8, <2>2 DEF LossInv, Sound, Winner
  <2> QED BY <2>1, <2>2
<1>10. Sound(p, Rest)'
  BY DEF Sound, Rest
<1>11. AgentHanded'
  BY <1>4 DEF LossInv, AgentHanded
<1> QED BY <1>4, <1>5, <1>6, <1>7, <1>9, <1>10, <1>11, OneMoves

\* The claim a poll creates: there was none, so that nothing had been handed out
\* and nobody was about to, unless there is a reason.
LEMMA LossCreate ==
    ASSUME TypeOK, LossInv, NEW p \in Web, Create(p)
    PROVE  LossInv'
<1>r. web[p] \in Hands /\ Sound(p, web[p]) /\ web[p].pc = "claim"
  BY DEF TypeOK, Hands, LossInv, Create, At
<1>1. PICK r \in Requests : r = web[p].r
  BY <1>r DEF Hands, Hand, FreeSteps, BusySteps
<1>2. UNCHANGED <<handed, consumed, revoked, judged, agent>> /\ Accrues
  BY DEF Create, histories, Accrues
<1>3. CASE claimed[r] # NoFile
  <2>1. PICK h : h = [web[p] EXCEPT !.pc = "poll", !.r = NoOne]
    OBVIOUS
  <2>2. h.pc = "poll" /\ h.task = web[p].task /\ h.got = web[p].got
    BY <1>r, <2>1 DEF Hands, Hand
  <2>3. Hold(p, h) /\ claimed' = claimed
    BY <1>1, <1>3, <2>1 DEF Create
  <2> QED BY <1>r, <1>2, <2>2, <2>3, PlainStep DEF Sound, PlainSteps
<1>4. CASE claimed[r] = NoFile
  <2>1. PICK h : h = [web[p] EXCEPT !.pc = "fill"]
    OBVIOUS
  <2>2. h.pc = "fill" /\ h.r = r /\ h.task = web[p].task /\ h.got = web[p].got
    BY <1>r, <1>1, <2>1 DEF Hands, Hand
  <2>3. PICK c : c = [by |-> p, full |-> FALSE, age |-> web[p].age]
    OBVIOUS
  <2>4. c \in Claim /\ c.by = p /\ ~c.full
    BY <1>r, <2>3 DEF Hands, Hand, Claim
  <2>5. Hold(p, h) /\ claimed' = [claimed EXCEPT ![r] = c]
    BY <1>1, <1>4, <2>1, <2>3 DEF Create, Step, Hold
  <2>6. /\ claimed'[r] = c /\ c # NoFile
        /\ \A x \in Requests \ {r} : claimed'[x] = claimed[x] /\ handed'[x] = handed[x]
    BY <1>2, <2>4, <2>5, ClaimAssumption DEF TypeOK, ClaimAssumption
  <2>7. Excused(r) => Excused(r)'
    BY <1>2 DEF Accrues, Excused
  <2>8. handed[r] = 0 \/ Excused(r)
    BY <1>4 DEF LossInv, HandedStands, Readable, TypeOK
  <2>9. ASSUME NEW q \in Web, Winner(q, r) PROVE Excused(r)
    BY <1>4, <2>9 DEF LossInv, Sound, Winner, Readable
  <2>10. Sound(p, h)'
    BY <1>r, <1>2, <2>2, <2>4, <2>6, <2>7, <2>8 DEF Sound
  <2>11. AgentHanded'
    BY <1>2 DEF LossInv, AgentHanded
  <2>12. handed'[r] > 0 => Excused(r)'
    BY <1>2, <2>7, <2>8
  <2> QED BY <1>2, <2>5, <2>6, <2>7, <2>9, <2>10, <2>11, <2>12, OneMoves
<1> QED BY <1>3, <1>4

\* The claim is written, or unlinked because the write failed: it is the poll's
\* own, and no other's, unless there is a reason.
LEMMA LossFill ==
    ASSUME TypeOK, LossInv, NEW p \in Web, Fill(p)
    PROVE  LossInv'
<1>r. web[p] \in Hands /\ Sound(p, web[p]) /\ web[p].pc = "fill"
  BY DEF TypeOK, Hands, LossInv, Fill, At
<1>1. PICK r \in Requests : r = web[p].r
  BY <1>r DEF Hands, Hand, FreeSteps, BusySteps
<1>2. UNCHANGED <<handed, consumed, revoked, judged, agent>> /\ Accrues
  BY DEF Fill, Accrues
<1>3. Excused(r) => Excused(r)'
  BY <1>2 DEF Accrues, Excused
<1>4. Excused(r) \/ (claimed[r] # NoFile /\ claimed[r].by = p /\ ~claimed[r].full /\ handed[r] = 0)
  BY <1>r, <1>1 DEF Sound
<1>5. Excused(r)' \/ \A q \in Web \ {p} : ~Winner(q, r)
  <2>1. ASSUME NEW q \in Web \ {p}, Winner(q, r) PROVE Excused(r)
    BY <1>4, <2>1 DEF LossInv, Sound, Winner
  <2> QED BY <1>3, <2>1
<1>6. AgentHanded'
  BY <1>2 DEF LossInv, AgentHanded
<1>7. handed'[r] > 0 => Excused(r)'
  BY <1>2, <1>3, <1>4
<1>8. CASE Hold(p, Rest) /\ claimed' = [claimed EXCEPT ![r] = NoFile]
  <2>1. Sound(p, Rest)'
    BY DEF Sound, Rest
  <2>2. \A x \in Requests \ {r} : claimed'[x] = claimed[x] /\ handed'[x] = handed[x]
    BY <1>2, <1>8 DEF TypeOK
  <2> QED BY <1>2, <1>5, <1>6, <1>7, <1>8, <2>1, <2>2, OneMoves
<1>9. CASE /\ Step(p, "retire")
           /\ claimed' = IF claimed[r] # NoFile /\ claimed[r].by = p
                         THEN [claimed EXCEPT ![r].full = TRUE] ELSE claimed
  <2>1. PICK h : h = [web[p] EXCEPT !.pc = "retire"]
    OBVIOUS
  <2>2. /\ h.pc = "retire" /\ h.r = r /\ h.task = web[p].task /\ h.got = web[p].got
        /\ Hold(p, h)
    BY <1>r, <1>1, <1>9, <2>1 DEF Step, Hold, Hands, Hand
  <2>3. \A x \in Requests \ {r} : claimed'[x] = claimed[x] /\ handed'[x] = handed[x]
    BY <1>2, <1>9 DEF TypeOK
  <2>4. Excused(r)' \/ (Readable(r)' /\ claimed'[r].by = p /\ handed'[r] = 0)
    <3> SUFFICES ASSUME ~Excused(r)
                 PROVE  Readable(r)' /\ claimed'[r].by = p /\ handed'[r] = 0
      BY <1>3
    <3>1. PICK c \in Claim : c = claimed[r] /\ c.by = p
      BY <1>4 DEF TypeOK
    <3>2. claimed'[r] = [c EXCEPT !.full = TRUE]
      BY <1>4, <1>9, <3>1 DEF TypeOK
    <3>3. claimed'[r] \in Claim /\ claimed'[r].full /\ claimed'[r].by = p
      BY <3>1, <3>2 DEF Claim
    <3> QED BY <1>2, <1>4, <3>3, ClaimAssumption DEF Readable, ClaimAssumption
  <2>5. Sound(p, h)'
    BY <1>r, <1>2, <2>2, <2>4 DEF Sound
  <2> QED BY <1>2, <1>5, <1>6, <1>7, <2>2, <2>3, <2>5, OneMoves
<1> QED BY <1>1, <1>8, <1>9 DEF Fill

\* The hand-out: the claim stands, and no other poll has it.
LEMMA LossRetire ==
    ASSUME TypeOK, LossInv, NEW p \in Web, Retire(p)
    PROVE  LossInv'
<1>r. web[p] \in Hands /\ Sound(p, web[p]) /\ web[p].pc = "retire"
  BY DEF TypeOK, Hands, LossInv, Retire, At
<1>1. PICK r \in Requests : r = web[p].r
  BY <1>r DEF Hands, Hand, FreeSteps, BusySteps
<1>2. PICK h : h = [web[p] EXCEPT !.pc = "poll", !.r = NoOne, !.got = @ \cup {r}]
  OBVIOUS
<1>3. h.pc = "poll" /\ h.task = web[p].task /\ h.got = web[p].got \cup {r}
  BY <1>r, <1>2 DEF Hands, Hand
<1>4. /\ Hold(p, h) /\ handed' = [handed EXCEPT ![r] = @ + 1]
      /\ UNCHANGED <<claimed, consumed, revoked, judged, agent>>
  BY <1>1, <1>2 DEF Retire
<1>5. /\ handed'[r] > 0
      /\ \A x \in Requests \ {r} : claimed'[x] = claimed[x] /\ handed'[x] = handed[x]
      /\ \A x \in Requests : handed[x] > 0 => handed'[x] > 0
  BY <1>4 DEF TypeOK
<1>6. Accrues
  BY <1>4, <1>5 DEF Accrues
<1>7. Excused(r) => Excused(r)'
  BY <1>6 DEF Accrues, Excused
<1>8. Excused(r) \/ (Readable(r) /\ claimed[r].by = p)
  BY <1>r, <1>1 DEF Sound
<1>9. Excused(r)' \/ \A q \in Web \ {p} : ~Winner(q, r)
  <2>1. ASSUME NEW q \in Web \ {p}, Winner(q, r) PROVE Excused(r)
    BY <1>8, <2>1 DEF LossInv, Sound, Winner, Readable
  <2> QED BY <1>7, <2>1
<1>10. Excused(r)' \/ Readable(r)'
  BY <1>4, <1>7, <1>8 DEF Readable
<1>11. web[p].got \subseteq Requests /\ agent \subseteq Requests
  BY <1>r DEF Hands, Hand, TypeOK
<1>12. Sound(p, h)'
  BY <1>r, <1>3, <1>4, <1>5, <1>11 DEF Sound
<1>13. AgentHanded'
  BY <1>4, <1>5, <1>11 DEF LossInv, AgentHanded
<1> QED BY <1>4, <1>5, <1>6, <1>9, <1>10, <1>12, <1>13, OneMoves

\* Only the ages change.
LEMMA LossTick ==
    ASSUME TypeOK, LossInv, Tick
    PROVE  LossInv'
<1>1. UNCHANGED <<handed, consumed, revoked, judged, agent>>
  BY DEF Tick, histories
<1>2. ASSUME NEW q \in Web
      PROVE  /\ web'[q].pc = web[q].pc /\ web'[q].r = web[q].r /\ web'[q].task = web[q].task
             /\ web'[q].got = web[q].got
  BY DEF Tick, TypeOK, Hand
<1>3. ASSUME NEW r \in Requests, claimed[r] # NoFile
      PROVE  claimed'[r] # NoFile /\ claimed'[r].full = claimed[r].full
             /\ claimed'[r].by = claimed[r].by
  <2>1. PICK c \in Claim : c = claimed[r]
    BY <1>3 DEF TypeOK
  <2>2. Older(c.age, ClaimTtl) \in Age(ClaimTtl)
    BY <2>1, BridgeAssumption DEF Claim, Older, Age, BridgeAssumption
  <2>3. claimed'[r] = [c EXCEPT !.age = Older(c.age, ClaimTtl)]
    BY <1>3, <2>1 DEF Tick
  <2>4. claimed'[r] \in Claim /\ claimed'[r].full = c.full /\ claimed'[r].by = c.by
    BY <2>1, <2>2, <2>3 DEF Claim
  <2> QED BY <2>1, <2>4, ClaimAssumption DEF ClaimAssumption
<1>4. \A r \in Requests : Readable(r) => Readable(r)'
  BY <1>3 DEF Readable
<1>5. \A r : Excused(r) => Excused(r)'
  BY <1>1 DEF Excused
<1>6. ASSUME NEW q \in Web PROVE Sound(q, web[q])'
  <2>1. Sound(q, web[q])
    BY DEF LossInv
  <2>2. PICK g, h : g = web[q] /\ h = web'[q]
    OBVIOUS
  <2>3. /\ h.pc = g.pc /\ h.r = g.r /\ h.task = g.task /\ h.got = g.got
    BY <1>2, <2>2
  <2>4. g.pc \in {"fill", "retire"} => g.r \in Requests
    BY <2>2 DEF TypeOK, Hand, FreeSteps, BusySteps
  <2>5. /\ h.task = "purge" => revoked'
        /\ h.pc \in {"unstage", "discard"} => Excused(h.r)'
        /\ h.pc \in {"serve", "close"} => consumed'[h.r] > 0
        /\ h.pc \in {"stage", "note"} => handed'[h.r] > 0
        /\ \A r \in h.got : handed'[r] > 0
    BY <1>1, <1>5, <2>1, <2>2, <2>3 DEF Sound
  <2>6. h.pc = "fill" => \/ Excused(h.r)'
                         \/ /\ claimed'[h.r] # NoFile /\ claimed'[h.r].by = q
                            /\ ~claimed'[h.r].full /\ handed'[h.r] = 0
    BY <1>1, <1>3, <1>5, <2>1, <2>2, <2>3, <2>4 DEF Sound
  <2>7. h.pc = "retire" => \/ Excused(h.r)'
                           \/ /\ Readable(h.r)' /\ claimed'[h.r].by = q
                              /\ handed'[h.r] = 0
    BY <1>1, <1>3, <1>4, <1>5, <2>1, <2>2, <2>3, <2>4 DEF Sound, Readable
  <2>8. Sound(q, h)'
    BY <2>5, <2>6, <2>7 DEF Sound
  <2> QED BY <2>2, <2>8 DEF Sound, Excused, Readable
<1>7. AgentHanded' /\ HandedStands'
  BY <1>1, <1>4, <1>5 DEF LossInv, AgentHanded, HandedStands
<1> QED BY <1>6, <1>7 DEF LossInv

\* Every step keeps what the processes have in hand reliable.
LEMMA LossStep == TypeOK /\ LossInv /\ [Next]_vars => LossInv'
<1> SUFFICES ASSUME TypeOK, LossInv, [Next]_vars PROVE LossInv'
  OBVIOUS
<1>1. ASSUME NEW p \in Web, GoOn(p) PROVE LossInv'
  BY <1>1, HandMoves, HandLooks, LossDiscard, LossClose, LossNote, LossCreate, LossFill,
     LossRetire DEF GoOn
<1>2. ASSUME NEW p \in Web, Crash(p) PROVE LossInv'
  BY <1>2, HandMoves
<1>3. CASE UNCHANGED vars
  <2>1. UNCHANGED <<web, claimed, handed, consumed, revoked, judged, agent>>
    BY <1>3 DEF vars
  <2> QED BY <2>1 DEF LossInv, AgentHanded, HandedStands, Sound, Excused, Readable
<1> QED BY <1>1, <1>2, <1>3, HandBegins, LossTick DEF Next

\* The steps that can make a request disappear have a reason.
LEMMA LossReason ==
    TypeOK /\ LossInv /\ [Next]_vars =>
      \A r \in Requests :
         Findable(r) /\ ~Findable(r)' => consumed[r] > 0 \/ r \in judged \/ revoked
<1> SUFFICES ASSUME TypeOK, LossInv, [Next]_vars, NEW r \in Requests,
                    pending[r] # NoFile \/ Readable(r), pending'[r] = NoFile, ~Readable(r)',
                    ~Excused(r)
             PROVE  FALSE
  BY DEF Findable, Listed, Excused, Readable
<1>f. \A p \in Web : web[p] \in Hands /\ Sound(p, web[p])
  BY DEF TypeOK, Hands, LossInv
<1>1. ASSUME UNCHANGED <<pending, claimed>> PROVE FALSE
  BY <1>1 DEF Readable
<1>2. ASSUME NEW p \in Web, Discard(p) PROVE FALSE
  <2>1. web[p].r # r
    BY <1>f, <1>2 DEF Discard, At, Sound
  <2>2. pending'[r] = pending[r] /\ claimed'[r] = claimed[r]
    BY <1>2, <2>1 DEF Discard, TypeOK
  <2> QED BY <2>2 DEF Readable
<1>3. ASSUME NEW p \in Web, Close(p) PROVE FALSE
  <2>1. web[p].r # r
    BY <1>f, <1>3 DEF Close, At, Sound, Excused
  <2>2. pending'[r] = pending[r] /\ claimed'[r] = claimed[r]
    BY <1>3, <2>1 DEF Close, TypeOK
  <2> QED BY <2>2 DEF Readable
<1>4. ASSUME NEW p \in Web, Retire(p) PROVE FALSE
  <2>1. claimed' = claimed
    BY <1>4 DEF Retire
  <2>2. ~Readable(r)
    BY <2>1 DEF Readable
  <2>3. web[p].r # r
    BY <1>f, <1>4, <2>2 DEF Retire, At, Sound
  <2>4. pending'[r] = pending[r]
    BY <1>4, <2>3 DEF Retire, TypeOK
  <2> QED BY <2>2, <2>4
<1>5. ASSUME NEW p \in Web, Create(p) PROVE FALSE
  <2>1. pending' = pending /\ Readable(r)
    BY <1>5 DEF Create
  <2>2. claimed'[r] = claimed[r]
    BY <1>5, <2>1 DEF Create, Readable, TypeOK
  <2> QED BY <2>1, <2>2 DEF Readable
<1>6. ASSUME NEW p \in Web, Fill(p) PROVE FALSE
  <2>1. pending' = pending /\ Readable(r)
    BY <1>6 DEF Fill
  <2>2. web[p].r # r
    BY <1>f, <1>6, <2>1 DEF Fill, At, Sound, Readable
  <2>3. claimed'[r] = claimed[r]
    BY <1>6, <2>2 DEF Fill, TypeOK
  <2> QED BY <2>1, <2>3 DEF Readable
<1>7. ASSUME NEW p \in Web, Note(p) PROVE FALSE
  <2>1. pending' = pending /\ Readable(r)
    BY <1>7 DEF Note
  <2>2. PICK c : c = [by |-> p, full |-> TRUE, age |-> web[p].age]
    OBVIOUS
  <2>3. c \in Claim /\ c.full
    BY <1>f, <2>2 DEF Hands, Hand, Claim
  <2>4. claimed'[r] = claimed[r] \/ claimed'[r] = c
    BY <1>7, <2>2 DEF Note, TypeOK
  <2> QED BY <2>1, <2>3, <2>4, ClaimAssumption DEF Readable, ClaimAssumption
<1>8. ASSUME NEW p \in Web, Enqueue(p) PROVE FALSE
  <2>1. claimed' = claimed
    BY <1>8 DEF Enqueue
  <2>2. pending[r] # NoFile
    BY <2>1 DEF Readable
  <2>3. pending'[r] # NoFile
    BY <1>8, <2>2, BridgeAssumption DEF Enqueue, TypeOK, BridgeAssumption
  <2> QED BY <2>3
<1>9. CASE Tick
  <2>1. ASSUME Readable(r) PROVE FALSE
    <3>1. PICK c \in Claim : c = claimed[r] /\ c.full
      BY <2>1 DEF Readable, TypeOK
    <3>2. Older(c.age, ClaimTtl) \in Age(ClaimTtl)
      BY <3>1, BridgeAssumption DEF Claim, Older, Age, BridgeAssumption
    <3>3. claimed'[r] = [c EXCEPT !.age = Older(c.age, ClaimTtl)]
      BY <1>9, <2>1, <3>1 DEF Tick, Readable
    <3>4. claimed'[r] \in Claim /\ claimed'[r].full
      BY <3>1, <3>2, <3>3 DEF Claim
    <3> QED BY <3>4, ClaimAssumption DEF Readable, ClaimAssumption
  <2>2. ASSUME pending[r] # NoFile PROVE FALSE
    <3>1. pending[r] \in Nat
      BY <2>2, BridgeAssumption DEF TypeOK, Age, BridgeAssumption
    <3>2. pending'[r] = Older(pending[r], RequestTtl)
      BY <1>9, <2>2 DEF Tick
    <3> QED BY <3>1, <3>2, BridgeAssumption DEF Older, BridgeAssumption
  <2> QED BY <2>1, <2>2
<1>10. ASSUME NEW p \in Web,
              \/ ListDir(p) \/ Unstage(p) \/ SweepNext(p) \/ Read(p) \/ PollEnd(p)
              \/ Stage(p) \/ Take(p) \/ Serve(p) \/ Register(p)
       PROVE  FALSE
  BY <1>1, <1>10 DEF ListDir, Unstage, SweepNext, Read, PollEnd, Stage, Take, Serve, Register
<1>11. ASSUME NEW p \in Web, NEW x \in Requests, SweepLook(p, x) \/ PollLook(p, x) PROVE FALSE
  BY <1>1, <1>11 DEF SweepLook, PollLook
<1>12. ASSUME NEW p \in Web, Begin(p) \/ Crash(p) PROVE FALSE
  <2>1. UNCHANGED <<pending, claimed>>
    BY <1>12 DEF Begin, Classify, PollStart, ForeignSweep, Revoke, DeliverRead, TakeRead, Crash
  <2> QED BY <1>1, <2>1
<1>13. CASE UNCHANGED vars
  BY <1>1, <1>13 DEF vars
<1> QED BY <1>2, <1>3, <1>4, <1>5, <1>6, <1>7, <1>8, <1>9, <1>10, <1>11, <1>12, <1>13
        DEF Next, GoOn

\* However many processes poll, sweep, deliver, take and die, a request leaves the
\* queue only because its bytes were taken, because a sweep had found it or its
\* claim too old or unreadable, or because the agent was revoked.
THEOREM NothingLost == Spec => NoRequestLost
<1>1. Init => WellAsked
  BY DEF Init, WellAsked, Rest, Working, BusySteps
<1>2. TypeOK /\ LossInv /\ [Next]_vars =>
        [\A r \in Requests :
          Findable(r) /\ ~Findable(r)' => consumed[r] > 0 \/ r \in judged \/ revoked]_vars
  BY LossReason
<1> QED BY <1>1, <1>2, TypeInit, TypeStep, AskedStep, LossInit, LossStep,
           PTL DEF Spec, NoRequestLost
=============================================================================
