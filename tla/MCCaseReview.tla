---------------------------- MODULE MCCaseReview ----------------------------
(***************************************************************************)
(* Instances of CaseReview: an owner and an admin, one session each.       *)
(***************************************************************************)
EXTENDS CaseReview, TLC

CONSTANTS ann, bob, annTab, bobTab

MCWho == (annTab :> ann) @@ (bobTab :> bob)

\* The workspace after ann created a Case, attached a Source, recorded an
\* analysis, confirmed its finding, discussed it, and archived the Case.
ArchivedWorkspace ==
    [EmptyWorkspace EXCEPT
        !.cases = <<[NewCase(ann, 0, TRUE) EXCEPT !.archived = TRUE]>>,
        !.findings = <<[NewFinding(1, 0) EXCEPT !.verdict = "Correct",
                                                !.disposition = "Confirmed"]>>,
        !.threads = <<NewThread(1, 0, TRUE)>>]

\* From nothing, or from that archive.
ReviewInit ==
    /\ stored \in {EmptyWorkspace, ArchivedWorkspace}
    /\ held = [s \in Sessions |-> NoCopy]
    /\ foreign = {} /\ uncounted = {}
    /\ owed = [s \in Sessions |-> {}]
    /\ logged = {}
    /\ lost = {}

ReviewSpec == ReviewInit /\ [][Next]_vars
=============================================================================
