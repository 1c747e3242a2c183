-------------------------- MODULE PracticePromise --------------------------
(***************************************************************************)
(* What the workspace store promises about work products and claims,       *)
(* without requests, copies, versions or second saves: each act is one     *)
(* act on what is there now.  A product is issued as it stands when it is  *)
(* issued, after a review that let it pass, and what is exported later is  *)
(* what was issued; a revision begins as its issued predecessor and comes  *)
(* with its link; a claim is adopted as a record of its own, which no      *)
(* other claim names; a correction is linked before anybody else decides   *)
(* about it, and corrects one claim.                                       *)
(***************************************************************************)
EXTENDS Naturals, Sequences

CONSTANTS Kinds, Refusals

VARIABLES
    products,   \* what each product says, where it stands, what was exported
    claims,     \* what was decided about each claim, and the records it names
    links       \* which product, or claim, replaces which

practice == <<products, claims, links>>

Init ==
    /\ products = <<>>
    /\ claims = <<>>
    /\ links = {}

NewClaim == [state |-> "proposed", observation |-> 0, finding |-> 0]

Draft ==
    /\ products' = Append(products, [state |-> "draft", says |-> {}, exports |-> <<>>])
    /\ UNCHANGED <<claims, links>>

\* Whatever the edit, it changes what the product says and nothing else.
Edit(p) ==
    /\ products[p].state # "issued"
    /\ products' = [products EXCEPT ![p].says = products'[p].says]
    /\ UNCHANGED <<claims, links>>

Review(p, decision) ==
    /\ products[p].state # "issued"
    /\ products' = [products EXCEPT ![p].state = decision]
    /\ UNCHANGED <<claims, links>>

Approve(p) ==
    /\ products[p].state = "reviewed"
    /\ products' = [products EXCEPT ![p].state = "approved_for_issue"]
    /\ UNCHANGED <<claims, links>>

Issue(p) ==
    /\ products[p].state = "approved_for_issue"
    /\ products' = [products EXCEPT ![p].state = "issued"]
    /\ UNCHANGED <<claims, links>>

Export(p) ==
    /\ products' = [products EXCEPT ![p].exports = Append(@, products[p].says)]
    /\ UNCHANGED <<claims, links>>

Revise(p) ==
    /\ products[p].state = "issued"
    /\ products' = Append(products, [products[p] EXCEPT !.state = "draft", !.exports = <<>>])
    /\ links' = links \cup {[of |-> "product", old |-> p, new |-> Len(products) + 1]}
    /\ UNCHANGED claims

Record ==
    /\ claims' = Append(claims, NewClaim)
    /\ UNCHANGED <<products, links>>

\* The claim is marked, and from then on names record m.
Adopt(c, kind, m) ==
    /\ m # 0
    /\ \A d \in DOMAIN claims : m \notin {claims[d].observation, claims[d].finding}
    /\ claims' = [claims EXCEPT ![c] =
          IF kind = "observation" THEN [@ EXCEPT !.state = kind, !.observation = m]
                                  ELSE [@ EXCEPT !.state = kind, !.finding = m]]
    /\ UNCHANGED <<products, links>>

Decide(c, decision) ==
    /\ claims' = [claims EXCEPT ![c].state = decision]
    /\ UNCHANGED <<products, links>>

\* The claim that was recorded last, and not yet decided, corrects claim c.
Correct(c) ==
    LET new == Len(claims) IN
    /\ c < new
    /\ claims[new] = NewClaim
    /\ \A l \in links : l.of = "claim" => l.new # new
    /\ links' = links \cup {[of |-> "claim", old |-> c, new |-> new]}
    /\ UNCHANGED <<products, claims>>

Next ==
    \/ Draft \/ Record
    \/ \E p \in DOMAIN products :
          \/ Edit(p) \/ Approve(p) \/ Issue(p) \/ Export(p) \/ Revise(p)
          \/ \E d \in {"reviewed", "revisions_required"} : Review(p, d)
    \/ \E c \in DOMAIN claims :
          \/ Correct(c)
          \/ \E d \in Refusals : Decide(c, d)
          \/ \E k \in Kinds, m \in {claims'[c].observation, claims'[c].finding} : Adopt(c, k, m)

Spec == Init /\ [][Next]_practice
=============================================================================
