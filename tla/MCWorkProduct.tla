---------------------------- MODULE MCWorkProduct ----------------------------
(***************************************************************************)
(* Instances of WorkProduct: two requests at a time, from nothing, from a  *)
(* product that waits for its issue, and from a claim.                     *)
(***************************************************************************)
EXTENDS WorkProduct, TLC

CONSTANTS this, that

\* A product of one section, written, reviewed and approved.
ApprovedProduct ==
    [NewProduct(1, <<[text |-> this, accepted |-> TRUE, removed |-> FALSE]>>)
        EXCEPT !.state = "approved_for_issue", !.verdict = "reviewed"]

PracticeInit ==
    /\ stored \in {EmptyWorkspace,
                   [EmptyWorkspace EXCEPT !.products = <<ApprovedProduct>>],
                   [EmptyWorkspace EXCEPT !.claims = <<NewClaim>>]}
    /\ held = [s \in Sessions |-> NoCopy]
    /\ todo = [s \in Sessions |-> NoTask]
    /\ halves = {}

PracticeSpec == PracticeInit /\ [][Next]_vars

\* Sessions are interchangeable.
AnyTab == Permutations(Sessions)
=============================================================================
