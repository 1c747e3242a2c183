---------------------- MODULE JobStoreLifecycle_proofs ----------------------
(***************************************************************************)
(* The job store implements the job lifecycle, and hands no job out too    *)
(* often, for any number of web processes and one worker process per       *)
(* queue: the deployment runs one service unit for each of the three       *)
(* queues (deploy/archiosk-perception.service and its two siblings).       *)
(* Overlapping enqueues, workers that outlive their lease, crashes,        *)
(* retries, desk moves and interrupted erasures are included.              *)
(***************************************************************************)
EXTENDS JobStore_proofs

OneWorker == \A v, w \in Workers : v = w

USE JobStoreAssumption, NoFileAssumption DEF JobStoreAssumption

-----------------------------------------------------------------------------
(* The inductive invariant *)

\* What may be handed out for the submissions that went through.
Budget(j) == MaxAttempts * submitted[j]

\* An enqueue in flight carries a fresh record.
EnqueueInv ==
    \A u \in Web : web[u] # Idle => web[u].rec.state = "queued" /\ web[u].rec.attempts = 0

\* A job was put on disk at least once, its file counts what was handed out
\* since the last time, and if it is queued it has an attempt left.
FileInv(j) ==
    /\ handouts[j] <= Budget(j)
    /\ (files[j] # NoFile /\ Live(j)) =>
         /\ submitted[j] > 0
         /\ handouts[j] + MaxAttempts <= files[j].attempts + Budget(j)
         /\ files[j].state = "queued" => files[j].attempts < MaxAttempts

\* The job in a worker's hand is open; it is queued only if it was put on disk
\* again meanwhile.  What the worker is about to write counts every hand-out
\* since the last submission it may have missed.  Nothing it writes counts once
\* the project is deleted.
HandInv(w) ==
    LET j   == worker[w].job
        rec == worker[w].rec
    IN  (worker[w] # Idle /\ Live(j)) =>
          /\ files[j] # NoFile
          /\ worker[w].pc = "claiming" =>
               /\ files[j].state \in Open
               /\ \/ /\ rec.state = "running"
                     /\ handouts[j] + 1 + MaxAttempts <= rec.attempts + Budget(j)
                  \/ /\ rec.state = "failed"
                     /\ files[j].state = "queued" => submitted[j] > 1
                     /\ handouts[j] + MaxAttempts <= rec.attempts + Budget(j)
          /\ worker[w].pc \in {"working", "settling"} =>
               \/ files[j].state = "running"
               \/ files[j].state = "queued" /\ submitted[j] > 1
          /\ worker[w].pc = "settling" =>
               /\ handouts[j] + MaxAttempts <= rec.attempts + Budget(j)
               /\ \/ rec.state \in Terminal
                  \/ rec.state = "queued" /\ rec.attempts < MaxAttempts

ErasingDeleted == erasing # NoOne => erasing \in marker

LifecycleInv ==
    /\ TypeOK /\ EnqueueInv /\ ErasingDeleted
    /\ \A j \in Jobs : FileInv(j)
    /\ \A w \in Workers : HandInv(w)

-----------------------------------------------------------------------------
\* A record is not the mark of an absent file, an idle process no hand.
LEMMA NotIdle ==
    /\ \A rec \in JobRecord : rec # NoFile
    /\ \A pcs, h : (h \in Hand(pcs) /\ "idle" \notin pcs) => h # Idle
    /\ Idle.job = NoOne /\ Idle.pc = "idle"
    /\ NoOne \notin Jobs
  BY DEF Hand, Idle

LEMMA BudgetType ==
    ASSUME TypeOK, NEW j \in Jobs
    PROVE  Budget(j) \in Nat
  <1>1. \A m, n \in Nat : m * n \in Nat
    OBVIOUS
  <1> QED BY <1>1 DEF TypeOK, Budget

\* A submission adds MAX_ATTEMPTS to what may be handed out.
LEMMA BudgetGrows ==
    ASSUME TypeOK, NEW j \in Jobs, submitted'[j] = submitted[j] + 1
    PROVE  Budget(j)' = Budget(j) + MaxAttempts
  <1>1. \A m, n \in Nat : m * (n + 1) = m * n + m
    OBVIOUS
  <1> QED BY <1>1 DEF TypeOK, Budget

LEMMA InitLifecycleInv == Init => LifecycleInv
  <1> SUFFICES ASSUME Init PROVE LifecycleInv
    OBVIOUS
  <1>1. TypeOK
    BY InitType
  <1>2. EnqueueInv /\ ErasingDeleted /\ \A w \in Workers : HandInv(w)
    BY DEF Init, EnqueueInv, HandInv, ErasingDeleted, Idle
  <1>3. ASSUME NEW j \in Jobs PROVE FileInv(j)
    BY <1>1, BudgetType DEF Init, FileInv
  <1> QED BY <1>1, <1>2, <1>3 DEF LifecycleInv

\* What the invariant says of a job's file depends on these alone ...
LEMMA FileFrame ==
    ASSUME NEW j \in Jobs, FileInv(j), TypeOK,
           Live(j)' => Live(j),
           files'[j] # NoFile => /\ files[j] # NoFile /\ files'[j].state = files[j].state
                                 /\ files'[j].attempts = files[j].attempts,
           UNCHANGED history
    PROVE  FileInv(j)'
  BY DEF FileInv, Budget, history

\* ... and what it says of a worker's hand on these.
LEMMA HandFrame ==
    ASSUME NEW w \in Workers, HandInv(w), TypeOK,
           worker'[w] = worker[w],
           Live(worker[w].job)' => Live(worker[w].job),
           Live(worker[w].job)' =>
               (files[worker[w].job] # NoFile =>
                  /\ files'[worker[w].job] # NoFile
                  /\ files'[worker[w].job].state = files[worker[w].job].state),
           UNCHANGED history
    PROVE  HandInv(w)'
  BY DEF HandInv, Budget, history

\* A step that touches neither the files nor the counts.
LEMMA InvFrame ==
    ASSUME LifecycleInv, UNCHANGED <<files, history, worker>>, marker \subseteq marker'
    PROVE  (\A j \in Jobs : FileInv(j)') /\ (\A w \in Workers : HandInv(w)')
  <1>1. \A j : Live(j)' => Live(j)
    BY DEF Live
  <1>2. ASSUME NEW j \in Jobs PROVE FileInv(j)'
    BY <1>1, FileFrame DEF LifecycleInv
  <1>3. ASSUME NEW w \in Workers PROVE HandInv(w)'
    BY <1>1, HandFrame DEF LifecycleInv
  <1> QED BY <1>2, <1>3

-----------------------------------------------------------------------------
(* One lemma per action that matters to the invariant *)

LEMMA EnqueueReadKeepsInv ==
    ASSUME LifecycleInv, NEW u \in Web, NEW j \in Jobs, EnqueueRead(u, j)
    PROVE  /\ EnqueueInv' /\ ErasingDeleted'
           /\ (\A k \in Jobs : FileInv(k)') /\ (\A w \in Workers : HandInv(w)')
  <1>1. EnqueueInv'
    BY DEF LifecycleInv, EnqueueInv, EnqueueRead, FreshRecord, TypeOK
  <1>2. ErasingDeleted' /\ (\A k \in Jobs : FileInv(k)') /\ (\A w \in Workers : HandInv(w)')
    BY InvFrame DEF LifecycleInv, ErasingDeleted, EnqueueRead, projectVars
  <1> QED BY <1>1, <1>2

\* A submission that lands starts the file's count again and adds to what may
\* be handed out; it may land under the hands of a worker.
LEMMA EnqueueWriteKeepsInv ==
    ASSUME LifecycleInv, NEW u \in Web, EnqueueWrite(u)
    PROVE  /\ EnqueueInv' /\ ErasingDeleted'
           /\ (\A k \in Jobs : FileInv(k)') /\ (\A w \in Workers : HandInv(w)')
  <1>1. PICK j \in Jobs, rec \in JobRecord : j = web[u].job /\ rec = web[u].rec
    BY WebHand DEF LifecycleInv, EnqueueWrite
  <1>2. /\ rec.state = "queued" /\ rec.attempts = 0 /\ rec # NoFile
        /\ Write(j, rec) /\ UNCHANGED <<marker, erasing, worker, handouts>>
        /\ submitted' = IF Live(j) THEN [submitted EXCEPT ![j] = @ + 1] ELSE submitted
    BY <1>1, NotIdle DEF LifecycleInv, EnqueueInv, EnqueueWrite, projectVars
  <1>3. EnqueueInv' /\ ErasingDeleted'
    BY DEF LifecycleInv, TypeOK, EnqueueInv, ErasingDeleted, EnqueueWrite, projectVars
  <1>4. CASE ~Live(j)
    <2>1. UNCHANGED <<files, history, worker, marker>>
      BY <1>2, <1>4 DEF Write, history
    <2> QED BY <1>3, <2>1, InvFrame
  <1>5. CASE Live(j)
    <2>1. /\ files'[j] = rec /\ \A k \in Jobs : k # j => files'[k] = files[k]
          /\ submitted'[j] = submitted[j] + 1
          /\ \A k \in Jobs : k # j => submitted'[k] = submitted[k]
          /\ \A k : Live(k)' = Live(k)
      BY <1>2, <1>5 DEF Write, LifecycleInv, TypeOK, Live
    <2>2. /\ Budget(j)' = Budget(j) + MaxAttempts /\ Budget(j) \in Nat
          /\ submitted[j] \in Nat /\ handouts[j] \in Nat
          /\ \A k \in Jobs : k # j => Budget(k)' = Budget(k)
      BY <2>1, BudgetGrows, BudgetType DEF LifecycleInv, TypeOK, Budget
    <2>3. ASSUME NEW k \in Jobs PROVE FileInv(k)'
      <3>1. FileInv(k)
        BY DEF LifecycleInv
      <3>2. CASE k # j
        BY <1>2, <2>1, <2>2, <3>1, <3>2 DEF FileInv
      <3>3. CASE k = j
        <4>1. handouts'[j] <= Budget(j)'
          BY <1>2, <2>2, <3>1, <3>3 DEF FileInv
        <4>2. submitted'[j] > 0 /\ handouts'[j] + MaxAttempts <= files'[j].attempts + Budget(j)'
          BY <1>2, <2>1, <2>2, <3>1, <3>3 DEF FileInv
        <4> QED BY <1>2, <2>1, <3>3, <4>1, <4>2 DEF FileInv
      <3> QED BY <3>2, <3>3
    <2>4. ASSUME NEW w \in Workers PROVE HandInv(w)'
      <3>1. HandInv(w) /\ worker'[w] = worker[w]
        BY <1>2 DEF LifecycleInv
      <3>2. worker[w] # Idle => worker[w].job \in Jobs /\ worker[w].rec \in JobRecord
        BY DEF LifecycleInv, TypeOK, Hand
      <3>3. CASE worker[w].job # j
        BY <1>2, <2>1, <2>2, <3>1, <3>2, <3>3 DEF HandInv
      <3>4. CASE worker[w].job = j /\ worker[w] # Idle
        <4>1. files[j] # NoFile /\ submitted[j] > 0
          BY <1>5, <3>1, <3>2, <3>4 DEF HandInv, LifecycleInv, FileInv
        <4>2. submitted'[j] > 1 /\ files'[j] # NoFile /\ files'[j].state = "queued"
          BY <1>2, <2>1, <2>2, <4>1
        <4>3. PICK at \in Nat : at = worker[w].rec.attempts
          BY <3>2, <3>4 DEF JobRecord
        <4>4. /\ handouts[j] + 1 + MaxAttempts <= at + Budget(j)
                    => handouts'[j] + 1 + MaxAttempts <= at + Budget(j)'
              /\ handouts[j] + MaxAttempts <= at + Budget(j)
                    => handouts'[j] + MaxAttempts <= at + Budget(j)'
          BY <1>2, <2>2
        <4> QED BY <1>2, <1>5, <2>1, <3>1, <3>4, <4>2, <4>3, <4>4 DEF HandInv, Open
      <3>5. CASE worker[w] = Idle
        BY <3>1, <3>5 DEF HandInv
      <3> QED BY <3>3, <3>4, <3>5
    <2> QED BY <1>3, <2>3, <2>4
  <1> QED BY <1>4, <1>5

LEMMA ClaimListKeepsInv ==
    ASSUME LifecycleInv, NEW w \in Workers, NEW j \in Jobs, ClaimList(w, j), OneWorker
    PROVE  /\ EnqueueInv' /\ ErasingDeleted'
           /\ (\A k \in Jobs : FileInv(k)') /\ (\A v \in Workers : HandInv(v)')
  <1>1. files[j] \in JobRecord /\ files[j] # NoFile /\ files[j].state \in Open
    BY DEF ClaimList, Candidates, Open, LifecycleInv, TypeOK
  <1>2. UNCHANGED <<files, history, marker, erasing, web>>
    BY DEF ClaimList, projectVars
  <1>3. PICK rec : rec = ClaimRecord(files[j], w)
    OBVIOUS
  <1>4. worker'[w] = [pc |-> "claiming", job |-> j, rec |-> rec]
    BY <1>3 DEF ClaimList, LifecycleInv, TypeOK
  <1>5. ASSUME NEW k \in Jobs PROVE FileInv(k)'
    BY <1>2, FileFrame DEF LifecycleInv, Live
  <1>6. HandInv(w)'
    <2>1. Budget(j) \in Nat /\ handouts[j] \in Nat /\ files[j].attempts \in Nat
      BY <1>1, BudgetType DEF LifecycleInv, TypeOK, JobRecord
    <2>2. /\ files'[j] = files[j] /\ handouts'[j] = handouts[j]
          /\ submitted'[j] = submitted[j] /\ Budget(j)' = Budget(j)
      BY <1>2 DEF history, Budget
    <2>3. CASE files[j].attempts >= MaxAttempts
      <3>1. rec.state = "failed" /\ rec.attempts = files[j].attempts
        BY <1>1, <1>3, <2>3 DEF ClaimRecord, JobRecord
      <3>2. Live(j) => /\ handouts[j] + MaxAttempts <= rec.attempts + Budget(j)
                       /\ files[j].state # "queued"
        BY <1>1, <2>1, <2>3, <3>1 DEF LifecycleInv, FileInv
      <3> QED BY <1>1, <1>2, <1>4, <2>2, <3>1, <3>2 DEF HandInv, Live
    <2>4. CASE ~(files[j].attempts >= MaxAttempts)
      <3>1. rec.state = "running" /\ rec.attempts = files[j].attempts + 1
        BY <1>1, <1>3, <2>4 DEF ClaimRecord, JobRecord
      <3>2. Live(j) => handouts[j] + 1 + MaxAttempts <= rec.attempts + Budget(j)
        BY <1>1, <2>1, <3>1 DEF LifecycleInv, FileInv
      <3> QED BY <1>1, <1>2, <1>4, <2>2, <3>1, <3>2 DEF HandInv, Live
    <2> QED BY <2>3, <2>4
  <1>7. \A v \in Workers : HandInv(v)'
    BY <1>6 DEF OneWorker
  <1>8. EnqueueInv' /\ ErasingDeleted'
    BY <1>2 DEF LifecycleInv, EnqueueInv, ErasingDeleted
  <1> QED BY <1>5, <1>7, <1>8

\* A worker's write replaces the file of its own live job and no other.
LEMMA WorkerWrites ==
    ASSUME LifecycleInv, NEW j \in Jobs, NEW rec \in JobRecord, Write(j, rec), Live(j)
    PROVE  files'[j] = rec /\ rec # NoFile /\ \A k \in Jobs : k # j => files'[k] = files[k]
  BY NotIdle DEF LifecycleInv, TypeOK, Write

LEMMA ClaimWriteKeepsInv ==
    ASSUME LifecycleInv, NEW w \in Workers, ClaimWrite(w), OneWorker
    PROVE  /\ EnqueueInv' /\ ErasingDeleted'
           /\ (\A k \in Jobs : FileInv(k)') /\ (\A v \in Workers : HandInv(v)')
  <1>1. PICK j \in Jobs, rec \in JobRecord : j = worker[w].job /\ rec = worker[w].rec
    BY WorkerHand DEF LifecycleInv, ClaimWrite
  <1>2. /\ Write(j, rec) /\ UNCHANGED <<marker, erasing, web, submitted>>
        /\ worker[w] # Idle /\ worker[w].pc = "claiming"
    BY <1>1 DEF ClaimWrite, projectVars, Idle
  <1>3. EnqueueInv' /\ ErasingDeleted'
    BY <1>2 DEF LifecycleInv, EnqueueInv, ErasingDeleted
  <1>4. \A k : Live(k)' = Live(k) /\ Budget(k)' = Budget(k)
    BY <1>2 DEF Live, Budget
  <1>5. CASE ~Live(j)
    <2>1. UNCHANGED <<files, history>> /\ worker'[w] = Idle
      BY <1>1, <1>2, <1>5 DEF ClaimWrite, Write, history, LifecycleInv, TypeOK
    <2>2. \A k \in Jobs : FileInv(k)'
      BY <1>4, <2>1, FileFrame DEF LifecycleInv
    <2>3. HandInv(w)'
      BY <2>1 DEF HandInv
    <2> QED BY <1>3, <2>2, <2>3 DEF OneWorker
  <1>6. CASE Live(j)
    <2>1. files'[j] = rec /\ rec # NoFile /\ \A k \in Jobs : k # j => files'[k] = files[k]
      BY <1>2, <1>6, WorkerWrites
    <2>2. /\ files[j] # NoFile /\ files[j].state \in Open
          /\ \/ /\ rec.state = "running"
                /\ handouts[j] + 1 + MaxAttempts <= rec.attempts + Budget(j)
             \/ /\ rec.state = "failed"
                /\ handouts[j] + MaxAttempts <= rec.attempts + Budget(j)
      BY <1>1, <1>2, <1>6 DEF LifecycleInv, HandInv
    <2>3. /\ Budget(j) \in Nat /\ handouts[j] \in Nat /\ handouts \in [Jobs -> Nat]
          /\ rec.attempts \in 0..MaxAttempts /\ submitted[j] > 0
      BY <1>1, <1>6, <2>2, BudgetType DEF LifecycleInv, TypeOK, JobRecord, FileInv
    <2>4. \A k \in Jobs : k # j => handouts'[k] = handouts[k]
      BY <1>1, <2>3 DEF ClaimWrite
    <2>5. \A k \in Jobs : k # j => FileInv(k)'
      BY <1>2, <1>4, <2>1, <2>4 DEF LifecycleInv, FileInv
    <2>6. CASE rec.state = "running"
      <3>1. handouts[j] + 1 + MaxAttempts <= rec.attempts + Budget(j)
        BY <2>2, <2>6
      <3>2. handouts'[j] = handouts[j] + 1 \/ handouts'[j] = handouts[j]
        BY <1>1, <2>3 DEF ClaimWrite
      <3>3. FileInv(j)'
        <4>1. handouts'[j] + MaxAttempts <= rec.attempts + Budget(j) /\ handouts'[j] <= Budget(j)
          BY <2>3, <3>1, <3>2
        <4> QED BY <1>2, <1>4, <2>1, <2>3, <2>6, <4>1 DEF FileInv
      <3>4. worker'[w].pc = "working" /\ worker'[w].job = j
        BY <1>1, <1>6, <2>6 DEF ClaimWrite, LifecycleInv, TypeOK, Hand, Idle
      <3>5. HandInv(w)'
        BY <2>1, <2>6, <3>4 DEF HandInv
      <3> QED BY <1>3, <2>5, <3>3, <3>5 DEF OneWorker
    <2>7. CASE rec.state = "failed"
      <3>1. handouts' = handouts /\ worker'[w] = Idle
        BY <1>1, <2>7 DEF ClaimWrite, LifecycleInv, TypeOK
      <3>2. handouts[j] + MaxAttempts <= rec.attempts + Budget(j) /\ handouts[j] <= Budget(j)
        BY <2>2, <2>7 DEF LifecycleInv, FileInv
      <3>3. FileInv(j)'
        BY <1>2, <1>4, <2>1, <2>3, <2>7, <3>1, <3>2 DEF FileInv
      <3>4. HandInv(w)'
        BY <3>1 DEF HandInv
      <3> QED BY <1>3, <2>5, <3>3, <3>4 DEF OneWorker
    <2> QED BY <2>2, <2>6, <2>7
  <1> QED BY <1>5, <1>6

\* What the two settling calls compute from an open job's record.
LEMMA SettledRecord ==
    ASSUME NEW file \in JobRecord, file.state \in Open,
           NEW rec \in {[file EXCEPT !.state = s] : s \in Terminal} \cup {Released(file)}
    PROVE  /\ rec.attempts = file.attempts
           /\ rec.state \in Terminal \/ (rec.state = "queued" /\ rec.attempts < MaxAttempts)
  <1>1. CASE rec \in {[file EXCEPT !.state = s] : s \in Terminal}
    BY <1>1 DEF JobRecord
  <1>2. CASE rec = Released(file) /\ file.attempts >= MaxAttempts
    BY <1>2 DEF Released, JobRecord, Terminal
  <1>3. CASE rec = Released(file) /\ ~(file.attempts >= MaxAttempts)
    <2>1. file.attempts < MaxAttempts
      BY <1>3 DEF JobRecord
    <2> QED BY <1>3, <2>1 DEF Released, JobRecord
  <1> QED BY <1>1, <1>2, <1>3

LEMMA SettleKeepsInv ==
    ASSUME LifecycleInv, NEW w \in Workers, Settle(w), OneWorker
    PROVE  /\ EnqueueInv' /\ ErasingDeleted'
           /\ (\A k \in Jobs : FileInv(k)') /\ (\A v \in Workers : HandInv(v)')
  <1>1. PICK j \in Jobs : j = worker[w].job /\ worker[w] # Idle /\ worker[w].pc = "working"
    BY DEF Settle, Idle, LifecycleInv, TypeOK, Hand
  <1>2. PICK rec \in {[Current(w) EXCEPT !.state = s] : s \in Terminal}
                        \cup {Released(Current(w))} :
           worker' = [worker EXCEPT ![w].pc = "settling", ![w].rec = rec]
    BY DEF Settle
  <1>3. worker'[w].pc = "settling" /\ worker'[w].job = j /\ worker'[w].rec = rec
    BY <1>1, <1>2 DEF LifecycleInv, TypeOK, Hand
  <1>4. UNCHANGED <<files, history, marker, erasing, web>>
    BY DEF Settle, projectVars
  <1>5. \A k \in Jobs : FileInv(k)'
    BY <1>4, FileFrame DEF LifecycleInv, Live
  <1>6. HandInv(w)'
    <2>1. SUFFICES ASSUME Live(j) PROVE HandInv(w)'
      BY <1>3, <1>4 DEF HandInv, Live
    <2>2. /\ files[j] \in JobRecord /\ files[j] # NoFile
          /\ files[j].state = "running" \/ (files[j].state = "queued" /\ submitted[j] > 1)
      BY <1>1, <2>1 DEF LifecycleInv, HandInv, TypeOK
    <2>3. files[j].state \in Open /\ Current(w) = files[j]
      BY <1>1, <2>2 DEF Open, Current
    <2>4. /\ rec.attempts = files[j].attempts
          /\ rec.state \in Terminal \/ (rec.state = "queued" /\ rec.attempts < MaxAttempts)
      BY <1>2, <2>2, <2>3, SettledRecord
    <2>5. handouts[j] + MaxAttempts <= rec.attempts + Budget(j)
      BY <2>1, <2>2, <2>4 DEF LifecycleInv, FileInv
    <2>6. /\ files' = files /\ handouts' = handouts /\ submitted' = submitted
          /\ Budget(j)' = Budget(j)
      BY <1>4 DEF history, Budget
    <2> QED BY <1>3, <2>2, <2>4, <2>5, <2>6 DEF HandInv
  <1>7. EnqueueInv' /\ ErasingDeleted'
    BY <1>4 DEF LifecycleInv, EnqueueInv, ErasingDeleted
  <1> QED BY <1>5, <1>6, <1>7 DEF OneWorker

LEMMA SettleWriteKeepsInv ==
    ASSUME LifecycleInv, NEW w \in Workers, SettleWrite(w), OneWorker
    PROVE  /\ EnqueueInv' /\ ErasingDeleted'
           /\ (\A k \in Jobs : FileInv(k)') /\ (\A v \in Workers : HandInv(v)')
  <1>1. PICK j \in Jobs, rec \in JobRecord : j = worker[w].job /\ rec = worker[w].rec
    BY WorkerHand DEF LifecycleInv, SettleWrite
  <1>2. /\ Write(j, rec) /\ UNCHANGED <<marker, erasing, web, history>>
        /\ worker[w] # Idle /\ worker[w].pc = "settling" /\ worker'[w] = Idle
    BY <1>1 DEF SettleWrite, projectVars, Idle, LifecycleInv, TypeOK
  <1>3. EnqueueInv' /\ ErasingDeleted'
    BY <1>2 DEF LifecycleInv, EnqueueInv, ErasingDeleted
  <1>4. \A v \in Workers : HandInv(v)'
    BY <1>2 DEF HandInv, OneWorker
  <1>5. \A k : Live(k)' = Live(k) /\ Budget(k)' = Budget(k)
    BY <1>2 DEF Live, Budget, history
  <1>6. ASSUME NEW k \in Jobs PROVE FileInv(k)'
    <2>1. FileInv(k)
      BY DEF LifecycleInv
    <2>2. CASE files'[k] = files[k]
      BY <1>2, <1>5, <2>1, <2>2, FileFrame DEF LifecycleInv
    <2>3. CASE k = j /\ Live(j)
      <3>1. files'[j] = rec
        BY <1>2, <2>3, WorkerWrites
      <3>2. /\ files[j] # NoFile
            /\ handouts[j] + MaxAttempts <= rec.attempts + Budget(j)
            /\ rec.state \in Terminal \/ (rec.state = "queued" /\ rec.attempts < MaxAttempts)
        BY <1>1, <1>2, <2>3 DEF LifecycleInv, HandInv
      <3>3. rec.state = "queued" => rec.attempts < MaxAttempts
        BY <3>2 DEF Terminal
      <3> QED BY <1>2, <1>5, <2>1, <2>3, <3>1, <3>2, <3>3 DEF FileInv, history
    <2>4. (k = j /\ Live(j)) \/ files'[k] = files[k]
      BY <1>2 DEF Write, LifecycleInv, TypeOK
    <2> QED BY <2>2, <2>3, <2>4
  <1> QED BY <1>3, <1>4, <1>6

LEMMA CrashKeepsInv ==
    ASSUME LifecycleInv, NEW w \in Workers, WorkerCrash(w), OneWorker
    PROVE  /\ EnqueueInv' /\ ErasingDeleted'
           /\ (\A k \in Jobs : FileInv(k)') /\ (\A v \in Workers : HandInv(v)')
  <1>1. UNCHANGED <<files, history, marker, erasing, web>> /\ worker'[w] = Idle
    BY DEF WorkerCrash, projectVars, LifecycleInv, TypeOK
  <1>2. \A k \in Jobs : FileInv(k)'
    BY <1>1, FileFrame DEF LifecycleInv, Live
  <1>3. EnqueueInv' /\ ErasingDeleted' /\ HandInv(w)'
    BY <1>1 DEF LifecycleInv, EnqueueInv, ErasingDeleted, HandInv
  <1> QED BY <1>2, <1>3 DEF OneWorker

\* A lease may run out under a worker at work: its hand does not speak of it.
LEMMA LeaseExpiresKeepsInv ==
    ASSUME LifecycleInv, NEW j \in Jobs, LeaseExpires(j)
    PROVE  /\ EnqueueInv' /\ ErasingDeleted'
           /\ (\A k \in Jobs : FileInv(k)') /\ (\A v \in Workers : HandInv(v)')
  <1>1. /\ files[j] \in JobRecord /\ UNCHANGED <<marker, erasing, web, worker, history>>
        /\ files' = [files EXCEPT ![j] = [files[j] EXCEPT !.lease = "expired"]]
    BY DEF LeaseExpires, LifecycleInv, TypeOK, projectVars
  <1>2. PICK rec : rec = [files[j] EXCEPT !.lease = "expired"]
    OBVIOUS
  <1>3. rec \in JobRecord /\ rec.state = files[j].state /\ rec.attempts = files[j].attempts
    BY <1>1, <1>2 DEF JobRecord
  <1>4. \A k \in Jobs : /\ files'[k] = NoFile <=> files[k] = NoFile
                        /\ files'[k].state = files[k].state
                        /\ files'[k].attempts = files[k].attempts
    BY <1>1, <1>2, <1>3, NotIdle DEF LifecycleInv, TypeOK
  <1>5. \A k : Live(k)' = Live(k)
    BY <1>1 DEF Live
  <1>6. \A k \in Jobs : FileInv(k)'
    BY <1>1, <1>4, <1>5, FileFrame DEF LifecycleInv
  <1>7. ASSUME NEW w \in Workers PROVE HandInv(w)'
    <2>1. CASE worker[w] = Idle
      BY <1>1, <2>1 DEF HandInv
    <2>2. CASE worker[w] # Idle
      <3>1. worker[w].job \in Jobs
        BY <2>2 DEF LifecycleInv, TypeOK, Hand
      <3> QED BY <1>1, <1>4, <1>5, <3>1, HandFrame DEF LifecycleInv
    <2> QED BY <2>1, <2>2
  <1>8. EnqueueInv' /\ ErasingDeleted'
    BY <1>1 DEF LifecycleInv, EnqueueInv, ErasingDeleted
  <1> QED BY <1>6, <1>7, <1>8

LEMMA EraseJobKeepsInv ==
    ASSUME LifecycleInv, NEW j \in Jobs, EraseJob(j)
    PROVE  /\ EnqueueInv' /\ ErasingDeleted'
           /\ (\A k \in Jobs : FileInv(k)') /\ (\A v \in Workers : HandInv(v)')
  <1>1. /\ ~Live(j) /\ UNCHANGED <<marker, erasing, web, worker, history>>
        /\ files'[j] = NoFile /\ \A k \in Jobs : k # j => files'[k] = files[k]
    BY DEF EraseJob, LifecycleInv, TypeOK, ErasingDeleted, Live, projectVars
  <1>2. \A k : Live(k)' = Live(k)
    BY <1>1 DEF Live
  <1>3. ASSUME NEW k \in Jobs PROVE FileInv(k)'
    BY <1>1, <1>2, FileFrame DEF LifecycleInv
  <1>4. ASSUME NEW w \in Workers PROVE HandInv(w)'
    <2>1. CASE worker[w] = Idle
      BY <1>1, <2>1 DEF HandInv
    <2>2. CASE worker[w] # Idle
      <3>1. worker[w].job \in Jobs
        BY <2>2 DEF LifecycleInv, TypeOK, Hand
      <3> QED BY <1>1, <1>2, <3>1, HandFrame DEF LifecycleInv
    <2> QED BY <2>1, <2>2
  <1>5. EnqueueInv' /\ ErasingDeleted'
    BY <1>1 DEF LifecycleInv, EnqueueInv, ErasingDeleted
  <1> QED BY <1>3, <1>4, <1>5

LEMMA ProjectStepKeepsInv ==
    ASSUME LifecycleInv, UNCHANGED <<files, history, worker, web>>,
           \/ UNCHANGED <<marker, erasing>>
           \/ \E p \in Projects : marker' = marker \cup {p} /\ erasing' = p
           \/ marker' = marker /\ erasing' = NoOne
    PROVE  /\ EnqueueInv' /\ ErasingDeleted'
           /\ (\A k \in Jobs : FileInv(k)') /\ (\A v \in Workers : HandInv(v)')
  <1>1. EnqueueInv' /\ ErasingDeleted'
    BY DEF LifecycleInv, EnqueueInv, ErasingDeleted
  <1> QED BY <1>1, InvFrame

LEMMA LifecycleInvInductive ==
    ASSUME OneWorker PROVE LifecycleInv /\ [Next]_vars => LifecycleInv'
  <1> SUFFICES ASSUME LifecycleInv, [Next]_vars PROVE LifecycleInv'
    OBVIOUS
  <1> DEFINE Kept == /\ EnqueueInv' /\ ErasingDeleted'
                     /\ (\A k \in Jobs : FileInv(k)') /\ (\A v \in Workers : HandInv(v)')
  <1>1. TypeOK'
    BY TypeInductive DEF LifecycleInv
  <1>2. ASSUME NEW u \in Web, NEW j \in Jobs, EnqueueRead(u, j) PROVE Kept
    BY <1>2, EnqueueReadKeepsInv
  <1>3. ASSUME NEW u \in Web, EnqueueWrite(u) PROVE Kept
    BY <1>3, EnqueueWriteKeepsInv
  <1>4. ASSUME NEW w \in Workers, NEW j \in Jobs, ClaimList(w, j) PROVE Kept
    BY <1>4, ClaimListKeepsInv
  <1>5. ASSUME NEW w \in Workers, ClaimWrite(w) \/ Settle(w) \/ SettleWrite(w) \/ WorkerCrash(w)
        PROVE  Kept
    BY <1>5, ClaimWriteKeepsInv, SettleKeepsInv, SettleWriteKeepsInv, CrashKeepsInv
  <1>6. ASSUME NEW j \in Jobs, LeaseExpires(j) \/ EraseJob(j) PROVE Kept
    BY <1>6, LeaseExpiresKeepsInv, EraseJobKeepsInv
  <1>7. ASSUME NEW j \in Jobs, BecomesReady(j) PROVE Kept
    BY <1>7, ProjectStepKeepsInv DEF BecomesReady, projectVars
  <1>8. ASSUME NEW p \in Projects, Shelve(p) \/ Restore(p) PROVE Kept
    BY <1>8, ProjectStepKeepsInv DEF Shelve, Restore
  <1>9. ASSUME NEW p \in Projects, EraseCommit(p) \/ EraseWorkspace(p) PROVE Kept
    BY <1>9, ProjectStepKeepsInv DEF EraseCommit, EraseWorkspace
  <1>10. ASSUME EraserCrash PROVE Kept
    BY <1>10, ProjectStepKeepsInv DEF EraserCrash
  <1>11. ASSUME UNCHANGED vars PROVE Kept
    BY <1>11, ProjectStepKeepsInv DEF vars, history
  <1>12. Kept
    <2> HIDE DEF Kept
    <2> QED
      BY <1>2, <1>3, <1>4, <1>5, <1>6, <1>7, <1>8, <1>9, <1>10, <1>11 DEF Next
  <1> QED BY <1>1, <1>12 DEF LifecycleInv

\* Whatever number of requests enqueue a job at once, and whatever deaths,
\* leases and retries it goes through, it is handed to its queue's worker at
\* most MAX_ATTEMPTS times for each time it was put on disk.
THEOREM HandoutsLimited ==
    ASSUME OneWorker PROVE Spec => []HandoutsBounded
  <1>1. LifecycleInv => HandoutsBounded
    BY DEF LifecycleInv, FileInv, Budget, HandoutsBounded
  <1> QED BY <1>1, InitLifecycleInv, LifecycleInvInductive, PTL DEF Spec

-----------------------------------------------------------------------------
(* The refinement *)

StatusOf == [j \in Jobs |-> Status(j)]
CallsOf  == [u \in Web |-> web[u].job]

LEMMA InitRefines == Init => Lifecycle!Init
  BY DEF Init, Lifecycle!Init, Status, Idle

\* A step that changes no file's state, no marker, no call and no count is
\* invisible.
LEMMA Invisible ==
    ASSUME UNCHANGED <<marker, web, history>>,
           \A j \in Jobs : \/ files'[j] = files[j]
                           \/ /\ files'[j] # NoFile /\ files[j] # NoFile
                              /\ files'[j].state = files[j].state
    PROVE  UNCHANGED Lifecycle!lifecycle
  <1>1. \A j \in Jobs : Status(j)' = Status(j)
    BY DEF Status
  <1>2. StatusOf' = StatusOf /\ CallsOf' = CallsOf
    BY <1>1 DEF StatusOf, CallsOf
  <1> QED BY <1>2 DEF Lifecycle!lifecycle, StatusOf, CallsOf, history

\* One file changes: the rest of the map is a function update.
LEMMA OneFile ==
    ASSUME NEW j \in Jobs, UNCHANGED marker,
           \A k \in Jobs : k # j => files'[k] = files[k]
    PROVE  StatusOf' = [StatusOf EXCEPT ![j] = Status(j)']
  <1>1. \A k \in Jobs : k # j => Status(k)' = Status(k)
    BY DEF Status
  <1> QED BY <1>1 DEF StatusOf

\* One caller begins, or ends.
LEMMA OneCall ==
    ASSUME NEW u \in Web, NEW hand, web' = [web EXCEPT ![u] = hand], TypeOK
    PROVE  CallsOf' = [CallsOf EXCEPT ![u] = hand.job]
  BY DEF CallsOf, TypeOK

LEMMA AskRefines ==
    ASSUME LifecycleInv, NEW u \in Web, NEW j \in Jobs, EnqueueRead(u, j)
    PROVE  Lifecycle!Ask(u, j)
  <1>1. /\ web[u] = Idle /\ files[j] = NoFile /\ ProjectOf[j] \notin marker
        /\ UNCHANGED <<files, marker, submitted, handouts>>
    BY DEF EnqueueRead, projectVars, history
  <1>2. PICK hand : hand = [pc |-> "writing", job |-> j, rec |-> FreshRecord]
    OBVIOUS
  <1>3. CallsOf' = [CallsOf EXCEPT ![u] = j]
    <2>1. web' = [web EXCEPT ![u] = hand] /\ hand.job = j
      BY <1>2 DEF EnqueueRead
    <2> QED BY <2>1, OneCall DEF LifecycleInv
  <1>4. StatusOf[j] = "absent" /\ CallsOf[u] = NoOne
    BY <1>1 DEF StatusOf, Status, CallsOf, Idle
  <1>5. StatusOf' = StatusOf
    BY <1>1 DEF StatusOf, Status
  <1> QED BY <1>1, <1>3, <1>4, <1>5 DEF Lifecycle!Ask, StatusOf, CallsOf

LEMMA EnqueueRefines ==
    ASSUME LifecycleInv, NEW u \in Web, EnqueueWrite(u)
    PROVE  Lifecycle!Next
  <1>1. PICK j \in Jobs, rec \in JobRecord : j = web[u].job /\ rec = web[u].rec
    BY WebHand DEF LifecycleInv, EnqueueWrite
  <1>2. /\ rec.state = "queued" /\ Write(j, rec) /\ UNCHANGED <<marker, handouts>>
        /\ rec # NoFile /\ j # NoOne
        /\ submitted' = IF Live(j) THEN [submitted EXCEPT ![j] = @ + 1] ELSE submitted
    BY <1>1, NotIdle DEF LifecycleInv, EnqueueInv, EnqueueWrite, projectVars
  <1>3. CallsOf[u] = j /\ CallsOf' = [CallsOf EXCEPT ![u] = NoOne]
    <2>1. web' = [web EXCEPT ![u] = Idle] /\ Idle.job = NoOne
      BY NotIdle DEF EnqueueWrite
    <2>2. CallsOf' = [CallsOf EXCEPT ![u] = NoOne]
      BY <2>1, OneCall DEF LifecycleInv
    <2> QED BY <1>1, <2>2 DEF CallsOf
  <1>4. CASE Live(j)
    <2>1. files'[j] = rec /\ \A k \in Jobs : k # j => files'[k] = files[k]
      BY <1>2, <1>4, WorkerWrites
    <2>2. Status(j) # "erased" /\ Status(j)' = "queued"
      <3>1. Status(j)' = "queued"
        BY <1>2, <2>1 DEF Status, Terminal
      <3>2. files[j] # NoFile => files[j].state # "erased"
        BY DEF LifecycleInv, TypeOK, JobRecord, Terminal, Open
      <3> QED BY <1>4, <3>1, <3>2 DEF Status, Live
    <2>3. StatusOf[j] # "erased" /\ StatusOf' = [StatusOf EXCEPT ![j] = "queued"]
      BY <1>2, <2>1, <2>2, OneFile DEF StatusOf
    <2>4. submitted' = [submitted EXCEPT ![j] = submitted[j] + 1]
      BY <1>2, <1>4
    <2>5. Lifecycle!Submit(u)
      BY <1>2, <1>3, <2>3, <2>4 DEF Lifecycle!Submit, StatusOf, CallsOf
    <2> QED BY <2>5 DEF Lifecycle!Next
  <1>5. CASE ~Live(j)
    <2>1. UNCHANGED <<files, marker, submitted, handouts>>
      BY <1>2, <1>5 DEF Write
    <2>2. StatusOf' = StatusOf
      BY <2>1 DEF StatusOf, Status
    <2>3. Lifecycle!Drop(u)
      BY <1>2, <1>3, <2>1, <2>2 DEF Lifecycle!Drop, StatusOf, CallsOf
    <2> QED BY <2>3 DEF Lifecycle!Next
  <1> QED BY <1>4, <1>5

\* A worker's write for a live project replaces the record of its own job.
LEMMA WorkerWriteStep ==
    ASSUME LifecycleInv, NEW j \in Jobs, NEW rec \in JobRecord, Write(j, rec),
           UNCHANGED <<marker, web>>, Live(j), files[j] \in JobRecord
    PROVE  /\ StatusOf[j] = (IF files[j].state \in Terminal THEN "settled" ELSE files[j].state)
           /\ StatusOf' = [StatusOf EXCEPT ![j] =
                             IF rec.state \in Terminal THEN "settled" ELSE rec.state]
           /\ CallsOf' = CallsOf
  <1>1. files'[j] = rec /\ \A k \in Jobs : k # j => files'[k] = files[k]
    BY WorkerWrites
  <1>2. rec # NoFile /\ files[j] # NoFile
    BY NotIdle
  <1>3. /\ Status(j) = (IF files[j].state \in Terminal THEN "settled" ELSE files[j].state)
        /\ Status(j)' = (IF rec.state \in Terminal THEN "settled" ELSE rec.state)
    BY <1>1, <1>2 DEF Status
  <1>4. StatusOf' = [StatusOf EXCEPT ![j] = Status(j)']
    BY <1>1, OneFile
  <1> QED BY <1>3, <1>4 DEF StatusOf, CallsOf

\* A settlement of an open job.
LEMMA SettlesOpen ==
    ASSUME NEW j \in Jobs, StatusOf[j] = "running" \/ (StatusOf[j] = "queued" /\ submitted[j] > 1),
           StatusOf' = [StatusOf EXCEPT ![j] = "settled"], CallsOf' = CallsOf,
           UNCHANGED <<submitted, handouts>>
    PROVE  Lifecycle!Next
  <1>1. Lifecycle!Settle(j)
    BY DEF Lifecycle!Settle, Lifecycle!Resubmitted, StatusOf, CallsOf
  <1> QED BY <1>1 DEF Lifecycle!Next

LEMMA ClaimRefines ==
    ASSUME LifecycleInv, NEW w \in Workers, ClaimWrite(w)
    PROVE  [Lifecycle!Next]_(Lifecycle!lifecycle)
  <1>1. PICK j \in Jobs, rec \in JobRecord : j = worker[w].job /\ rec = worker[w].rec
    BY WorkerHand DEF LifecycleInv, ClaimWrite
  <1>2. Write(j, rec) /\ UNCHANGED <<marker, web, submitted>>
    BY <1>1 DEF ClaimWrite, projectVars
  <1>3. CASE Live(j)
    <2>1. /\ files[j] \in JobRecord /\ files[j].state \in Open
          /\ \/ /\ rec.state = "running"
                /\ handouts[j] + 1 + MaxAttempts <= rec.attempts + Budget(j)
             \/ /\ rec.state = "failed"
                /\ files[j].state = "queued" => submitted[j] > 1
      BY <1>1, <1>3 DEF LifecycleInv, HandInv, TypeOK, ClaimWrite, Idle
    <2>2. /\ StatusOf[j] = files[j].state /\ StatusOf[j] \in {"queued", "running"}
          /\ StatusOf' = [StatusOf EXCEPT ![j] =
                             IF rec.state \in Terminal THEN "settled" ELSE rec.state]
          /\ CallsOf' = CallsOf
      BY <1>2, <1>3, <2>1, WorkerWriteStep DEF Open, Terminal
    <2>3. CASE rec.state = "failed"
      <3>1. UNCHANGED handouts
        BY <1>1, <2>3 DEF ClaimWrite
      <3>2. StatusOf' = [StatusOf EXCEPT ![j] = "settled"]
        BY <2>2, <2>3 DEF Terminal
      <3>3. StatusOf[j] = "running" \/ (StatusOf[j] = "queued" /\ submitted[j] > 1)
        BY <2>1, <2>2, <2>3
      <3> QED BY <1>2, <2>2, <3>1, <3>2, <3>3, SettlesOpen
    <2>4. CASE rec.state = "running"
      <3>1. handouts[j] < Budget(j) /\ handouts[j] \in Nat
        <4>1. Budget(j) \in Nat /\ handouts[j] \in Nat /\ rec.attempts \in 0..MaxAttempts
          BY BudgetType DEF LifecycleInv, TypeOK, JobRecord
        <4> QED BY <2>1, <2>4, <4>1
      <3>2. handouts' = [handouts EXCEPT ![j] = handouts[j] + 1]
        <4>1. handouts[j] <= MaxAttempts * submitted[j]
          BY DEF LifecycleInv, FileInv, Budget
        <4> QED BY <1>1, <1>3, <2>4, <4>1 DEF ClaimWrite
      <3>3. StatusOf' = [StatusOf EXCEPT ![j] = "running"]
        BY <2>2, <2>4 DEF Terminal
      <3>4. Lifecycle!AttemptLeft(j)
        BY <3>1 DEF Lifecycle!AttemptLeft, Budget
      <3>5. Lifecycle!Try(j)
        BY <1>2, <2>2, <3>2, <3>3, <3>4 DEF Lifecycle!Try, StatusOf, CallsOf
      <3> QED BY <3>5 DEF Lifecycle!Next
    <2> QED BY <2>1, <2>3, <2>4
  <1>4. CASE ~Live(j)
    <2>1. UNCHANGED <<files, handouts>>
      BY <1>1, <1>2, <1>4 DEF Write, ClaimWrite
    <2> QED BY <1>2, <2>1, Invisible DEF history
  <1> QED BY <1>3, <1>4

LEMMA SettleRefines ==
    ASSUME LifecycleInv, NEW w \in Workers, SettleWrite(w)
    PROVE  [Lifecycle!Next]_(Lifecycle!lifecycle)
  <1>1. PICK j \in Jobs, rec \in JobRecord : j = worker[w].job /\ rec = worker[w].rec
    BY WorkerHand DEF LifecycleInv, SettleWrite
  <1>2. Write(j, rec) /\ UNCHANGED <<marker, web, submitted, handouts>>
    BY <1>1 DEF SettleWrite, projectVars, history
  <1>3. CASE Live(j)
    <2>1. /\ files[j] \in JobRecord
          /\ files[j].state = "running" \/ (files[j].state = "queued" /\ submitted[j] > 1)
          /\ handouts[j] + MaxAttempts <= rec.attempts + Budget(j)
          /\ \/ rec.state \in Terminal
             \/ rec.state = "queued" /\ rec.attempts < MaxAttempts
      BY <1>1, <1>3 DEF LifecycleInv, HandInv, TypeOK, SettleWrite, Idle
    <2>2. /\ StatusOf[j] = files[j].state
          /\ StatusOf' = [StatusOf EXCEPT ![j] =
                             IF rec.state \in Terminal THEN "settled" ELSE rec.state]
          /\ CallsOf' = CallsOf
      BY <1>2, <1>3, <2>1, WorkerWriteStep DEF Terminal
    <2>3. CASE rec.state \in Terminal
      BY <1>2, <2>1, <2>2, <2>3, SettlesOpen
    <2>4. CASE rec.state = "queued" /\ rec.attempts < MaxAttempts
      <3>1. StatusOf' = [StatusOf EXCEPT ![j] = "queued"]
        BY <2>2, <2>4 DEF Terminal
      <3>2. handouts[j] < Budget(j)
        <4>1. Budget(j) \in Nat /\ handouts[j] \in Nat /\ rec.attempts \in 0..MaxAttempts
          BY BudgetType DEF LifecycleInv, TypeOK, JobRecord
        <4> QED BY <2>1, <2>4, <4>1
      <3>3. CASE files[j].state = "running"
        <4>1. Lifecycle!AttemptLeft(j)
          BY <3>2 DEF Lifecycle!AttemptLeft, Budget
        <4>2. Lifecycle!PutBack(j)
          BY <1>2, <2>2, <3>1, <3>3, <4>1 DEF Lifecycle!PutBack, StatusOf, CallsOf
        <4> QED BY <4>2 DEF Lifecycle!Next
      <3>4. CASE files[j].state = "queued"
        <4>1. StatusOf' = StatusOf
          BY <2>2, <3>1, <3>4 DEF StatusOf
        <4> QED BY <1>2, <2>2, <4>1 DEF Lifecycle!lifecycle, StatusOf, CallsOf
      <3> QED BY <2>1, <3>3, <3>4
    <2> QED BY <2>1, <2>3, <2>4
  <1>4. CASE ~Live(j)
    BY <1>2, <1>4, Invisible DEF Write, history
  <1> QED BY <1>3, <1>4

\* The marker takes every job of the project that has no file yet ...
LEMMA EraseCommitRefines ==
    ASSUME LifecycleInv, NEW p \in Projects, EraseCommit(p)
    PROVE  [Lifecycle!Next]_(Lifecycle!lifecycle)
  <1>0. PICK S \in SUBSET Jobs : S = {j \in Jobs : ProjectOf[j] = p /\ files[j] = NoFile}
    OBVIOUS
  <1>1. /\ marker' = marker \cup {p} /\ p \notin marker
        /\ UNCHANGED <<files, web, submitted, handouts>>
    BY DEF EraseCommit, history
  <1>2. \A j \in S : StatusOf[j] # "erased"
    BY <1>0, <1>1 DEF StatusOf, Status
  <1>3. \A j \in Jobs : Status(j)' = IF j \in S THEN "erased" ELSE Status(j)
    BY <1>0, <1>1 DEF Status
  <1>4. StatusOf' = [j \in Jobs |-> IF j \in S THEN "erased" ELSE StatusOf[j]]
    BY <1>3 DEF StatusOf
  <1>5. CallsOf' = CallsOf
    BY <1>1 DEF CallsOf
  <1>6. Lifecycle!Erase(S)
    BY <1>1, <1>2, <1>4, <1>5 DEF Lifecycle!Erase, StatusOf, CallsOf
  <1>7. CASE S = {}
    <2>1. StatusOf' = StatusOf
      BY <1>4, <1>7 DEF StatusOf
    <2> QED BY <1>1, <1>5, <2>1 DEF Lifecycle!lifecycle, StatusOf, CallsOf
  <1>8. CASE S # {}
    BY <1>6, <1>8 DEF Lifecycle!Next
  <1> QED BY <1>7, <1>8

\* ... and the erasure takes the others, one by one.
LEMMA EraseJobRefines ==
    ASSUME LifecycleInv, NEW j \in Jobs, EraseJob(j)
    PROVE  Lifecycle!Next
  <1>1. /\ files[j] # NoFile /\ files'[j] = NoFile
        /\ \A k \in Jobs : k # j => files'[k] = files[k]
        /\ UNCHANGED <<marker, web, submitted, handouts>> /\ ProjectOf[j] \in marker
    BY DEF EraseJob, LifecycleInv, TypeOK, ErasingDeleted, projectVars, history
  <1>2. Status(j)' = "erased"
    BY <1>1 DEF Status
  <1>3. StatusOf' = [StatusOf EXCEPT ![j] = "erased"] /\ CallsOf' = CallsOf
    BY <1>1, <1>2, OneFile DEF CallsOf
  <1>4. StatusOf[j] # "erased"
    BY <1>1 DEF StatusOf, Status, LifecycleInv, TypeOK, JobRecord, Terminal, Open
  <1>5. Lifecycle!Erase({j})
    BY <1>1, <1>3, <1>4 DEF Lifecycle!Erase, StatusOf, CallsOf
  <1>6. {j} \in SUBSET Jobs /\ {j} # {}
    OBVIOUS
  <1> QED BY <1>5, <1>6 DEF Lifecycle!Next

LEMMA StepRefines ==
    LifecycleInv /\ [Next]_vars => [Lifecycle!Next]_(Lifecycle!lifecycle)
  <1> SUFFICES ASSUME LifecycleInv, [Next]_vars
               PROVE  [Lifecycle!Next]_(Lifecycle!lifecycle)
    OBVIOUS
  <1>1. ASSUME NEW u \in Web, NEW j \in Jobs, EnqueueRead(u, j) PROVE Lifecycle!Next
    BY <1>1, AskRefines DEF Lifecycle!Next
  <1>2. ASSUME NEW u \in Web, EnqueueWrite(u) PROVE Lifecycle!Next
    BY <1>2, EnqueueRefines
  <1>3. ASSUME NEW w \in Workers, ClaimWrite(w) \/ SettleWrite(w)
        PROVE  [Lifecycle!Next]_(Lifecycle!lifecycle)
    BY <1>3, ClaimRefines, SettleRefines
  <1>4. ASSUME NEW j \in Jobs, EraseJob(j) PROVE Lifecycle!Next
    BY <1>4, EraseJobRefines
  <1>5. ASSUME NEW j \in Jobs, LeaseExpires(j)
        PROVE  [Lifecycle!Next]_(Lifecycle!lifecycle)
    <2>1. /\ files[j] \in JobRecord
          /\ files' = [files EXCEPT ![j] = [files[j] EXCEPT !.lease = "expired"]]
          /\ UNCHANGED <<marker, web, history>>
      BY <1>5 DEF LeaseExpires, LifecycleInv, TypeOK, projectVars
    <2>2. /\ files'[j] \in JobRecord /\ files'[j].state = files[j].state
          /\ \A k \in Jobs : k # j => files'[k] = files[k]
      BY <2>1 DEF LifecycleInv, TypeOK, JobRecord
    <2> QED BY <2>1, <2>2, NotIdle, Invisible
  <1>6. ASSUME NEW p \in Projects, EraseCommit(p)
        PROVE  [Lifecycle!Next]_(Lifecycle!lifecycle)
    BY <1>6, EraseCommitRefines
  <1>7. ASSUME UNCHANGED <<files, marker, web, history>>
        PROVE  [Lifecycle!Next]_(Lifecycle!lifecycle)
    BY <1>7, Invisible
  <1> QED
    BY <1>1, <1>2, <1>3, <1>4, <1>5, <1>6, <1>7
       DEF Next, vars, history, projectVars, ClaimList, Settle, WorkerCrash,
           BecomesReady, Shelve, Restore, EraseWorkspace, EraserCrash

\* Whatever number of requests enqueue at once, the job files, the locks and
\* the leases implement the job lifecycle for a queue with one worker: a job
\* is submitted by callers that found it absent and by nobody else, tried at
\* most MAX_ATTEMPTS times for each submission, settled by its tries alone,
\* and nothing happens to it after its project is deleted.
THEOREM StoreImplementsLifecycle ==
    ASSUME OneWorker PROVE Spec => ImplementsLifecycle
  <1>1. Spec => []LifecycleInv
    BY InitLifecycleInv, LifecycleInvInductive, PTL DEF Spec
  <1>2. Spec => Lifecycle!Spec
    BY <1>1, StepRefines, InitRefines, PTL DEF Spec, Lifecycle!Spec
  <1> QED BY <1>2 DEF ImplementsLifecycle
=============================================================================
