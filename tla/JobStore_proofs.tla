-------------------------- MODULE JobStore_proofs --------------------------
(***************************************************************************)
(* Theorems about JobStore, for every number of jobs, projects, web        *)
(* processes and workers.                                                  *)
(***************************************************************************)
EXTENDS JobStore, TLAPS

USE JobStoreAssumption DEF JobStoreAssumption

\* What the claim and the release compute from a record is a record.
LEMMA ClaimRecordType ==
    ASSUME NEW w \in Workers, NEW rec \in JobRecord
    PROVE  ClaimRecord(rec, w) \in JobRecord
  <1>1. CASE rec.attempts >= MaxAttempts
    BY <1>1 DEF ClaimRecord, JobRecord, Terminal
  <1>2. CASE ~(rec.attempts >= MaxAttempts)
    <2>1. rec.attempts + 1 \in 0..MaxAttempts
      BY <1>2 DEF JobRecord
    <2> QED BY <1>2, <2>1 DEF ClaimRecord, JobRecord, Open
  <1> QED BY <1>1, <1>2

LEMMA ReleasedType ==
    ASSUME NEW rec \in JobRecord
    PROVE  Released(rec) \in JobRecord
  BY DEF Released, JobRecord, Terminal, Open

\* A process that is not idle holds a job and a record.
LEMMA WorkerHand ==
    ASSUME TypeOK, NEW w \in Workers, worker[w].pc # "idle"
    PROVE  /\ worker[w] \in Hand({"claiming", "working", "settling"})
           /\ worker[w].job \in Jobs /\ worker[w].rec \in JobRecord
  BY DEF TypeOK, Hand, Idle

LEMMA WebHand ==
    ASSUME TypeOK, NEW u \in Web, web[u] # Idle
    PROVE  web[u].job \in Jobs /\ web[u].rec \in JobRecord
  BY DEF TypeOK, Hand

\* _write of a record keeps the directory well-formed.
LEMMA WriteType ==
    ASSUME TypeOK, NEW j \in Jobs, NEW rec \in JobRecord, Write(j, rec)
    PROVE  files' \in [Jobs -> JobRecord \cup {NoFile}]
  BY DEF TypeOK, Write

-----------------------------------------------------------------------------
LEMMA TypeInductive == TypeOK /\ [Next]_vars => TypeOK'
  <1> SUFFICES ASSUME TypeOK, [Next]_vars PROVE TypeOK'
    OBVIOUS
  <1>1. ASSUME NEW u \in Web, NEW j \in Jobs, EnqueueRead(u, j) PROVE TypeOK'
    <2>1. FreshRecord \in JobRecord
      BY DEF FreshRecord, JobRecord, Open, TypeOK
    <2>2. [pc |-> "writing", job |-> j, rec |-> FreshRecord] \in Hand({"writing"})
      BY <2>1 DEF Hand
    <2> QED BY <1>1, <2>2 DEF TypeOK, EnqueueRead, projectVars, history
  <1>2. ASSUME NEW u \in Web, EnqueueWrite(u) PROVE TypeOK'
    <2>1. web[u].job \in Jobs /\ web[u].rec \in JobRecord
      BY <1>2, WebHand DEF EnqueueWrite
    <2>2. files' \in [Jobs -> JobRecord \cup {NoFile}]
      BY <1>2, <2>1, WriteType DEF EnqueueWrite
    <2>3. submitted' \in [Jobs -> Nat]
      BY <1>2, <2>1 DEF TypeOK, EnqueueWrite
    <2> QED BY <1>2, <2>2, <2>3 DEF TypeOK, EnqueueWrite, projectVars
  <1>3. ASSUME NEW w \in Workers, NEW j \in Jobs, ClaimList(w, j) PROVE TypeOK'
    <2>1. files[j] \in JobRecord
      BY <1>3 DEF ClaimList, Candidates, TypeOK
    <2>2. [pc |-> "claiming", job |-> j, rec |-> ClaimRecord(files[j], w)]
              \in Hand({"claiming", "working", "settling"})
      BY <2>1, ClaimRecordType DEF Hand
    <2> QED BY <1>3, <2>2 DEF TypeOK, ClaimList, projectVars, history
  <1>4. ASSUME NEW w \in Workers, ClaimWrite(w) PROVE TypeOK'
    <2>1. /\ worker[w] \in Hand({"claiming", "working", "settling"})
          /\ worker[w].job \in Jobs /\ worker[w].rec \in JobRecord
      BY <1>4, WorkerHand DEF ClaimWrite
    <2>2. files' \in [Jobs -> JobRecord \cup {NoFile}]
      BY <1>4, <2>1, WriteType DEF ClaimWrite
    <2>3. worker' \in [Workers -> {Idle} \cup Hand({"claiming", "working", "settling"})]
      <3>1. [worker[w] EXCEPT !.pc = "working"] \in Hand({"claiming", "working", "settling"})
        BY <2>1 DEF Hand
      <3> QED BY <1>4, <3>1 DEF TypeOK, ClaimWrite
    <2>4. handouts' \in [Jobs -> Nat]
      BY <1>4, <2>1 DEF TypeOK, ClaimWrite
    <2> QED BY <1>4, <2>2, <2>3, <2>4 DEF TypeOK, ClaimWrite, projectVars, history
  <1>5. ASSUME NEW w \in Workers, Settle(w) PROVE TypeOK'
    <2>1. /\ worker[w] \in Hand({"claiming", "working", "settling"})
          /\ worker[w].job \in Jobs /\ worker[w].rec \in JobRecord
      BY <1>5, WorkerHand DEF Settle
    <2>2. Current(w) \in JobRecord
      BY <2>1 DEF Current, TypeOK
    <2>3. PICK rec \in {[Current(w) EXCEPT !.state = s] : s \in Terminal}
                          \cup {Released(Current(w))} :
             worker' = [worker EXCEPT ![w].pc = "settling", ![w].rec = rec]
      BY <1>5 DEF Settle
    <2>4. rec \in JobRecord
      BY <2>2, <2>3, ReleasedType DEF JobRecord, Terminal
    <2>5. [[worker[w] EXCEPT !.pc = "settling"] EXCEPT !.rec = rec]
             \in Hand({"claiming", "working", "settling"})
      BY <2>1, <2>4 DEF Hand
    <2>6. worker' \in [Workers -> {Idle} \cup Hand({"claiming", "working", "settling"})]
      BY <2>3, <2>5 DEF TypeOK
    <2> QED BY <1>5, <2>6 DEF TypeOK, Settle, projectVars, history
  <1>6. ASSUME NEW w \in Workers, SettleWrite(w) PROVE TypeOK'
    <2>1. worker[w].job \in Jobs /\ worker[w].rec \in JobRecord
      BY <1>6, WorkerHand DEF SettleWrite
    <2>2. files' \in [Jobs -> JobRecord \cup {NoFile}]
      BY <1>6, <2>1, WriteType DEF SettleWrite
    <2> QED BY <1>6, <2>2 DEF TypeOK, SettleWrite, projectVars, history
  <1>7. ASSUME NEW w \in Workers, WorkerCrash(w) PROVE TypeOK'
    BY <1>7 DEF TypeOK, WorkerCrash, projectVars, history
  <1>8. ASSUME NEW j \in Jobs, LeaseExpires(j) PROVE TypeOK'
    <2>1. [files[j] EXCEPT !.lease = "expired"] \in JobRecord
      BY <1>8 DEF LeaseExpires, TypeOK, JobRecord
    <2> QED BY <1>8, <2>1 DEF TypeOK, LeaseExpires, projectVars, history
  <1>9. ASSUME NEW j \in Jobs, BecomesReady(j) \/ EraseJob(j) PROVE TypeOK'
    BY <1>9 DEF TypeOK, BecomesReady, EraseJob, projectVars, history
  <1>10. ASSUME NEW p \in Projects, Shelve(p) \/ Restore(p) PROVE TypeOK'
    BY <1>10 DEF TypeOK, Shelve, Restore, history
  <1>11. ASSUME NEW p \in Projects, EraseCommit(p) \/ EraseWorkspace(p) PROVE TypeOK'
    BY <1>11 DEF TypeOK, EraseCommit, EraseWorkspace, history
  <1>12. CASE EraserCrash
    BY <1>12 DEF TypeOK, EraserCrash, history
  <1>13. CASE UNCHANGED vars
    BY <1>13 DEF TypeOK, vars
  <1> QED
    BY <1>1, <1>2, <1>3, <1>4, <1>5, <1>6, <1>7, <1>8, <1>9, <1>10, <1>11,
       <1>12, <1>13 DEF Next

LEMMA InitType == Init => TypeOK
  BY DEF Init, TypeOK, Idle

\* Every record on disk or in a process's hand is well-formed; in particular
\* no attempt count ever passes MAX_ATTEMPTS.
THEOREM TypeCorrect == Spec => []TypeOK
  BY InitType, TypeInductive, PTL DEF Spec

-----------------------------------------------------------------------------
(* A deleted project's jobs *)

\* _write leaves the files of deleted projects alone.
LEMMA WriteSparesTheDeleted ==
    ASSUME TypeOK, NEW j \in Jobs, NEW rec, Write(j, rec),
           NEW k \in Jobs, ProjectOf[k] \in marker
    PROVE  files'[k] = files[k]
  BY DEF TypeOK, Write, Live

\* The erasure order and the lock around every write keep OrphansAreWithheld.
LEMMA OrphansInductive ==
    TypeOK /\ OrphansAreWithheld /\ [Next]_vars => OrphansAreWithheld'
  <1> SUFFICES ASSUME TypeOK, OrphansAreWithheld, [Next]_vars,
                      NEW k \in Jobs, ProjectOf[k] \in marker', files'[k] # NoFile
               PROVE  ProjectOf[k] \in present' \cap shelved'
    BY DEF OrphansAreWithheld
  <1> USE DEF OrphansAreWithheld
  <1>1. ASSUME NEW u \in Web, NEW j \in Jobs, EnqueueRead(u, j)
        PROVE  ProjectOf[k] \in present' \cap shelved'
    BY <1>1 DEF EnqueueRead, projectVars, history
  <1>2. ASSUME NEW u \in Web, EnqueueWrite(u)
        PROVE  ProjectOf[k] \in present' \cap shelved'
    BY <1>2, WebHand, WriteSparesTheDeleted DEF EnqueueWrite, projectVars, history
  <1>3. ASSUME NEW w \in Workers, NEW j \in Jobs, ClaimList(w, j)
        PROVE  ProjectOf[k] \in present' \cap shelved'
    BY <1>3 DEF ClaimList, projectVars, history
  <1>4. ASSUME NEW w \in Workers, ClaimWrite(w)
        PROVE  ProjectOf[k] \in present' \cap shelved'
    BY <1>4, WorkerHand, WriteSparesTheDeleted DEF ClaimWrite, projectVars, history
  <1>5. ASSUME NEW w \in Workers, Settle(w) \/ WorkerCrash(w)
        PROVE  ProjectOf[k] \in present' \cap shelved'
    BY <1>5 DEF Settle, WorkerCrash, projectVars, history
  <1>6. ASSUME NEW w \in Workers, SettleWrite(w)
        PROVE  ProjectOf[k] \in present' \cap shelved'
    BY <1>6, WorkerHand, WriteSparesTheDeleted DEF SettleWrite, projectVars, history
  <1>7. ASSUME NEW j \in Jobs, LeaseExpires(j) \/ BecomesReady(j) \/ EraseJob(j)
        PROVE  ProjectOf[k] \in present' \cap shelved'
    <2>1. files[k] # NoFile
      BY <1>7 DEF TypeOK, LeaseExpires, BecomesReady, EraseJob
    <2> QED BY <1>7, <2>1 DEF LeaseExpires, BecomesReady, EraseJob, projectVars, history
  <1>8. ASSUME NEW p \in Projects, Shelve(p) \/ Restore(p)
        PROVE  ProjectOf[k] \in present' \cap shelved'
    BY <1>8 DEF Shelve, Restore
  <1>9. ASSUME NEW p \in Projects, EraseCommit(p)
        PROVE  ProjectOf[k] \in present' \cap shelved'
    BY <1>9 DEF EraseCommit
  <1>10. ASSUME NEW p \in Projects, EraseWorkspace(p)
         PROVE  ProjectOf[k] \in present' \cap shelved'
    BY <1>10 DEF EraseWorkspace
  <1>11. CASE EraserCrash
    BY <1>11 DEF EraserCrash
  <1>12. CASE UNCHANGED vars
    BY <1>12 DEF vars
  <1> QED
    BY <1>1, <1>2, <1>3, <1>4, <1>5, <1>6, <1>7, <1>8, <1>9, <1>10, <1>11, <1>12
       DEF Next

\* Whatever an interrupted erasure leaves of a deleted project's jobs, the
\* workspace file beside it still withholds them from claim_next.
THEOREM OrphansWithheld == Spec => []OrphansAreWithheld
  <1>1. Init => OrphansAreWithheld
    BY DEF Init, OrphansAreWithheld
  <1> QED BY <1>1, InitType, TypeInductive, OrphansInductive, PTL DEF Spec

\* The step property under NoResurrection.
DeletedStayDeleted ==
    \A j \in Jobs : ProjectOf[j] \in marker =>
        files'[j] \in {files[j], NoFile}
          \/ (files[j] # NoFile /\ files'[j] = [files[j] EXCEPT !.lease = "expired"])

\* No process, however late it comes back with a record in hand, writes a
\* job file of a deleted project.
THEOREM NothingResurrected == Spec => NoResurrection
  <1>1. TypeOK /\ [Next]_vars => [DeletedStayDeleted]_vars
    <2> SUFFICES ASSUME TypeOK, Next, NEW k \in Jobs, ProjectOf[k] \in marker
                 PROVE  files'[k] \in {files[k], NoFile}
                          \/ (files[k] # NoFile
                               /\ files'[k] = [files[k] EXCEPT !.lease = "expired"])
      BY DEF DeletedStayDeleted
    <2>1. ASSUME NEW u \in Web, EnqueueWrite(u) PROVE files'[k] = files[k]
      BY <2>1, WebHand, WriteSparesTheDeleted DEF EnqueueWrite
    <2>2. ASSUME NEW w \in Workers, ClaimWrite(w) PROVE files'[k] = files[k]
      BY <2>2, WorkerHand, WriteSparesTheDeleted DEF ClaimWrite
    <2>3. ASSUME NEW w \in Workers, SettleWrite(w) PROVE files'[k] = files[k]
      BY <2>3, WorkerHand, WriteSparesTheDeleted DEF SettleWrite
    <2>4. ASSUME NEW j \in Jobs, EraseJob(j) PROVE files'[k] \in {files[k], NoFile}
      BY <2>4 DEF EraseJob, TypeOK
    <2>5. ASSUME NEW j \in Jobs, LeaseExpires(j)
          PROVE  \/ files'[k] = files[k]
                 \/ files[k] # NoFile /\ files'[k] = [files[k] EXCEPT !.lease = "expired"]
      BY <2>5 DEF LeaseExpires, TypeOK
    <2>6. ASSUME UNCHANGED files PROVE files'[k] = files[k]
      BY <2>6
    <2> QED
      BY <2>1, <2>2, <2>3, <2>4, <2>5, <2>6
         DEF Next, EnqueueRead, ClaimList, Settle, WorkerCrash, BecomesReady,
             Shelve, Restore, EraseCommit, EraseWorkspace, EraserCrash
  <1>2. Spec => [][DeletedStayDeleted]_vars
    BY <1>1, InitType, TypeInductive, PTL DEF Spec
  <1> QED BY <1>2 DEF NoResurrection, DeletedStayDeleted
=============================================================================
