---------------------------- MODULE JobLifecycle ----------------------------
(***************************************************************************)
(* What the job queue of services/perception_jobs.py promises to the rest  *)
(* of the program, without files, locks, leases or worker processes.       *)
(*                                                                         *)
(* Any number of callers ask for a job at once.  A caller that finds it    *)
(* puts nothing in; callers that found it absent all do, so a job may be   *)
(* submitted again under the hands of its worker, and be open again after  *)
(* it was settled: as often as calls began before it was first submitted,  *)
(* and never more.  It is tried at most MaxAttempts times for each         *)
(* submission, settled by a try that ends or by the last one, and gone for *)
(* good once its project is deleted.                                       *)
(***************************************************************************)
EXTENDS Naturals

CONSTANTS Jobs, Callers, MaxAttempts, NoOne

VARIABLES
    status,     \* where each job stands
    calls,      \* the job each caller is submitting, or NoOne
    submitted,  \* submissions that went through, per job
    tries       \* attempts spent on it

lifecycle == <<status, calls, submitted, tries>>

Init ==
    /\ status = [j \in Jobs |-> "absent"]
    /\ calls = [u \in Callers |-> NoOne]
    /\ submitted = [j \in Jobs |-> 0]
    /\ tries = [j \in Jobs |-> 0]

AttemptLeft(j) == tries[j] < MaxAttempts * submitted[j]

\* Submitted again under the hands of a worker.
Resubmitted(j) == status[j] = "queued" /\ submitted[j] > 1

\* A caller finds no job.
Ask(u, j) ==
    /\ calls[u] = NoOne
    /\ status[j] = "absent"
    /\ calls' = [calls EXCEPT ![u] = j]
    /\ UNCHANGED <<status, submitted, tries>>

Submit(u) ==
    LET j == calls[u]
    IN  /\ j # NoOne
        /\ status[j] # "erased"
        /\ status' = [status EXCEPT ![j] = "queued"]
        /\ submitted' = [submitted EXCEPT ![j] = @ + 1]
        /\ calls' = [calls EXCEPT ![u] = NoOne]
        /\ UNCHANGED tries

\* A caller is refused: the project was deleted meanwhile.
Drop(u) ==
    /\ calls[u] # NoOne
    /\ calls' = [calls EXCEPT ![u] = NoOne]
    /\ UNCHANGED <<status, submitted, tries>>

\* A queued job, or one whose worker is gone, is tried (again).
Try(j) ==
    /\ status[j] \in {"queued", "running"}
    /\ AttemptLeft(j)
    /\ status' = [status EXCEPT ![j] = "running"]
    /\ tries' = [tries EXCEPT ![j] = @ + 1]
    /\ UNCHANGED <<calls, submitted>>

\* An attempt ends without a result and leaves another one.
PutBack(j) ==
    /\ status[j] = "running"
    /\ AttemptLeft(j)
    /\ status' = [status EXCEPT ![j] = "queued"]
    /\ UNCHANGED <<calls, submitted, tries>>

\* An attempt ends with a result, or the last one is spent.
Settle(j) ==
    /\ status[j] = "running" \/ Resubmitted(j)
    /\ status' = [status EXCEPT ![j] = "settled"]
    /\ UNCHANGED <<calls, submitted, tries>>

\* The jobs of a deleted project go, whatever they were doing.
Erase(S) ==
    /\ \A j \in S : status[j] # "erased"
    /\ status' = [j \in Jobs |-> IF j \in S THEN "erased" ELSE status[j]]
    /\ UNCHANGED <<calls, submitted, tries>>

Next ==
    \/ \E u \in Callers, j \in Jobs : Ask(u, j)
    \/ \E u \in Callers : Submit(u) \/ Drop(u)
    \/ \E j \in Jobs : Try(j) \/ PutBack(j) \/ Settle(j)
    \/ \E S \in SUBSET Jobs : S # {} /\ Erase(S)

Spec == Init /\ [][Next]_lifecycle
=============================================================================
