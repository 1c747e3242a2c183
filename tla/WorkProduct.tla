---------------------------- MODULE WorkProduct ----------------------------
(***************************************************************************)
(* Work products and claims of services/case_workspace.py, the two records *)
(* whose operations reach the workspace file in more than one save.        *)
(*                                                                         *)
(* A work product is drafted section by section, reviewed, approved,       *)
(* issued, exported, and revised by a successor.  A claim is recorded,     *)
(* adopted as an observation or as a finding, disputed or rejected, and    *)
(* corrected by a successor.  Adopting mints the new record in a save of   *)
(* its own and marks the claim in a second one; so does correcting, and    *)
(* revising saves its finished draft twice.                                *)
(*                                                                         *)
(* Products, sections, claims and minted records are the lists of the file *)
(* and are named by their place in it.  Of a list of reviews only the last *)
(* decides anything, so it alone is kept.  What the Case of a product or   *)
(* of a minted finding allows is the business of CaseReview.               *)
(***************************************************************************)
EXTENDS WorkspaceSessions, Sequences

CONSTANTS
    Texts,          \* what a section may say
    MaxProducts, MaxSections, MaxExports,   \* bounds: lengths of the lists
    MaxClaims, MaxMinted

VARIABLES
    todo,           \* the second save each session still has to make
    halves          \* history: second saves that were never made

vars == <<stored, held, todo, halves>>

ASSUME WorkProductAssumption ==
    /\ MaxProducts \in Nat /\ MaxSections \in Nat /\ MaxExports \in Nat
    /\ MaxClaims \in Nat /\ MaxMinted \in Nat

ReviewDecisions == {"reviewed", "revisions_required"}
ProductStates == {"draft", "approved_for_issue", "issued"} \cup ReviewDecisions
Content == SUBSET (Nat \X Texts)

Section == [text : Texts, accepted : BOOLEAN, removed : BOOLEAN]
\* Its seal holds issued_checksum, once there is one.
Product == [state : ProductStates, revision : Nat, sections : Seq(Section),
            verdict : ReviewDecisions \cup {"none"},
            seal : SUBSET Content, exports : Seq(Content)]

\* What a claim may be adopted as, and what else may be decided about it.
Kinds == {"observation", "finding"}
Refusals == {"disputed", "rejected", "requires_specialist", "requires_authority"}
Claim == [state : {"proposed"} \cup Kinds \cup Refusals, observation : Nat, finding : Nat]
Minted == [kind : Kinds, claim : Nat]

\* A Supersession record: the new product, or claim, replaces the old one.
Link == [of : {"product", "claim"}, old : Nat, new : Nat]

Workspace == [version : Nat, products : Seq(Product), claims : Seq(Claim),
              minted : Seq(Minted), links : SUBSET Link]

ASSUME NoCopyAssumption == NoCopy \notin Workspace

\* The second half of an operation: what it is about, and what it has made.
Task == [op : Kinds \cup {"none", "correct", "revise"}, id : Nat, made : Nat]
NoTask == [op |-> "none", id |-> 0, made |-> 0]

ProductIds(ws) == 1..Len(ws.products)
ClaimIds(ws) == 1..Len(ws.claims)
MintedIds(ws) == 1..Len(ws.minted)

WellNamed(ws) ==
    /\ \A m \in MintedIds(ws) : ws.minted[m].claim \in ClaimIds(ws)
    /\ \A c \in ClaimIds(ws) : /\ ws.claims[c].observation \in 0..Len(ws.minted)
                               /\ ws.claims[c].finding \in 0..Len(ws.minted)

TypeOK ==
    /\ stored \in Workspace /\ WellNamed(stored)
    /\ held \in [Sessions -> Workspace \cup {NoCopy}]
    /\ \A s \in Sessions : Holding(s) => WellNamed(held[s])
    /\ todo \in [Sessions -> Task]
    /\ halves \subseteq Task
    /\ \A s \in Sessions : todo[s] # NoTask => Holding(s)

EmptyWorkspace == [version |-> 0, products |-> <<>>, claims |-> <<>>,
                   minted |-> <<>>, links |-> {}]

Init ==
    /\ stored = EmptyWorkspace
    /\ held = [s \in Sessions |-> NoCopy]
    /\ todo = [s \in Sessions |-> NoTask]
    /\ halves = {}

-----------------------------------------------------------------------------
\* One request at the workspace file.

BeginRoute(s) == Load(s) /\ UNCHANGED <<todo, halves>>

\* A check refuses, the version has moved, the route is over or the process
\* dies; what it had still to save is never saved.
EndRoute(s) ==
    /\ GiveUp(s)
    /\ todo' = [todo EXCEPT ![s] = NoTask]
    /\ halves' = IF todo[s] = NoTask THEN halves ELSE halves \cup {todo[s]}

\* At the start of an operation.
Free(s) == Holding(s) /\ todo[s] = NoTask

\* An operation that is done with one save.
Write(s, ws) == Save(s, ws) /\ UNCHANGED <<todo, halves>>

\* An operation of a route that goes on with the copy it has just saved.
WriteOn(s, ws) == SaveThen(s, ws, Stamped(ws)) /\ UNCHANGED <<todo, halves>>

\* The first of two saves, and the second.
WriteFirst(s, ws, task) ==
    /\ SaveThen(s, ws, Stamped(ws))
    /\ todo' = [todo EXCEPT ![s] = task]
    /\ UNCHANGED halves

WriteSecond(s, ws) ==
    /\ Save(s, ws)
    /\ todo' = [todo EXCEPT ![s] = NoTask]
    /\ UNCHANGED halves

-----------------------------------------------------------------------------
\* Work products.

NewProduct(revision, sections) ==
    [state |-> "draft", revision |-> revision, sections |-> sections,
     verdict |-> "none", seal |-> {}, exports |-> <<>>]

Active(wp) == {i \in 1..Len(wp.sections) : ~wp.sections[i].removed}

\* _work_product_content_checksum: what the active sections say.  A section is
\* named by its place; in the code by an id, which a revision draws afresh, so
\* that there a revision never has its predecessor's checksum.  No property
\* compares the checksums of two products.
Checksum(wp) == {<<i, wp.sections[i].text>> : i \in Active(wp)}

Editable(wp) == wp.state # "issued"

\* The routes that compose a whole brief go on to its sections.
CreateWorkProduct(s) ==
    /\ Free(s)
    /\ Len(held[s].products) < MaxProducts
    /\ WriteOn(s, [held[s] EXCEPT !.products = Append(@, NewProduct(1, <<>>))])

AddSection(s) ==
    /\ Free(s)
    /\ \E p \in ProductIds(held[s]), t \in Texts :
          /\ Editable(held[s].products[p])
          /\ Len(held[s].products[p].sections) < MaxSections
          /\ WriteOn(s, [held[s] EXCEPT !.products[p].sections =
                 Append(@, [text |-> t, accepted |-> FALSE, removed |-> FALSE])])

\* Neither the state of the product nor the acceptance of the section is
\* taken back by an edit.
EditSection(s) ==
    /\ Free(s)
    /\ \E p \in ProductIds(held[s]) : \E i \in Active(held[s].products[p]), t \in Texts :
          /\ Editable(held[s].products[p])
          /\ Write(s, [held[s] EXCEPT !.products[p].sections[i].text = t])

AcceptSection(s) ==
    /\ Free(s)
    /\ \E p \in ProductIds(held[s]) : \E i \in Active(held[s].products[p]) :
          /\ Editable(held[s].products[p])
          /\ Write(s, [held[s] EXCEPT !.products[p].sections[i].accepted = TRUE])

\* Mutant of RemoveSection: asks for no editable product.
RemoveSectionOfAny(s) ==
    /\ Free(s)
    /\ \E p \in ProductIds(held[s]) : \E i \in Active(held[s].products[p]) :
          Write(s, [held[s] EXCEPT !.products[p].sections[i].removed = TRUE])

RemoveSection(s) ==
    /\ Free(s)
    /\ \E p \in ProductIds(held[s]) : \E i \in Active(held[s].products[p]) :
          /\ Editable(held[s].products[p])
          /\ Write(s, [held[s] EXCEPT !.products[p].sections[i].removed = TRUE])

\* Mutant of Review: an approval survives the reviewer's second thoughts.
ReviewKeepingApproval(s) ==
    /\ Free(s)
    /\ \E p \in ProductIds(held[s]), d \in ReviewDecisions :
          /\ Editable(held[s].products[p])
          /\ Write(s, [held[s] EXCEPT !.products[p] = [@ EXCEPT
                 !.verdict = d, !.state = IF @ = "approved_for_issue" THEN @ ELSE d]])

Review(s) ==
    /\ Free(s)
    /\ \E p \in ProductIds(held[s]), d \in ReviewDecisions :
          /\ Editable(held[s].products[p])
          /\ Write(s, [held[s] EXCEPT !.products[p] = [@ EXCEPT !.verdict = d, !.state = d]])

ApproveForIssue(s) ==
    /\ Free(s)
    /\ \E p \in ProductIds(held[s]) :
          /\ held[s].products[p].state = "reviewed"
          /\ Write(s, [held[s] EXCEPT !.products[p].state = "approved_for_issue"])

Issue(s) ==
    /\ Free(s)
    /\ \E p \in ProductIds(held[s]) :
          /\ held[s].products[p].state = "approved_for_issue"
          /\ Write(s, [held[s] EXCEPT !.products[p] = [@ EXCEPT
                 !.state = "issued", !.seal = {Checksum(held[s].products[p])}]])

\* Mutant of Revise: the successor of any product, issued or not.
ReviseAny(s) ==
    /\ Free(s)
    /\ Len(held[s].products) < MaxProducts
    /\ \E p \in ProductIds(held[s]) :
          LET new == Len(held[s].products) + 1
              old == held[s].products[p]
          IN  WriteFirst(s, [held[s] EXCEPT
                  !.products = Append(@, NewProduct(old.revision + 1, old.sections)),
                  !.links = @ \cup {[of |-> "product", old |-> p, new |-> new]}],
                  [op |-> "revise", id |-> p, made |-> new])

\* record_supersession saves the new draft together with its link ...
Revise(s) ==
    /\ Free(s)
    /\ Len(held[s].products) < MaxProducts
    /\ \E p \in ProductIds(held[s]) :
          LET new == Len(held[s].products) + 1
              old == held[s].products[p]
          IN  /\ old.state = "issued"
              /\ WriteFirst(s, [held[s] EXCEPT
                     !.products = Append(@, NewProduct(old.revision + 1, old.sections)),
                     !.links = @ \cup {[of |-> "product", old |-> p, new |-> new]}],
                     [op |-> "revise", id |-> p, made |-> new])

\* ... and revise_work_product saves once more, with nothing new.
FinishRevision(s) == todo[s].op = "revise" /\ WriteSecond(s, held[s])

\* The bytes are rendered from the loaded copy and sent after this save.
Export(s) ==
    /\ Free(s)
    /\ \E p \in ProductIds(held[s]) :
          /\ Len(held[s].products[p].exports) < MaxExports
          /\ Write(s, [held[s] EXCEPT !.products[p].exports =
                 Append(@, Checksum(held[s].products[p]))])

-----------------------------------------------------------------------------
\* Claims.

NewClaim == [state |-> "proposed", observation |-> 0, finding |-> 0]

RecordClaim(s) ==
    /\ Free(s)
    /\ Len(held[s].claims) < MaxClaims
    /\ WriteOn(s, [held[s] EXCEPT !.claims = Append(@, NewClaim)])

\* Mutant of Adopted: the id of a finding lands in the observation's field.
AdoptedAsObservation(claim, k, m) == [claim EXCEPT !.state = k, !.observation = m]

\* The claim, adopted as record m of kind k.
Adopted(claim, k, m) ==
    IF k = "observation" THEN [claim EXCEPT !.state = k, !.observation = m]
                         ELSE [claim EXCEPT !.state = k, !.finding = m]

\* Mutant of Mint: the claim is marked before the record is there.
MarkFirst(s) ==
    /\ Free(s)
    /\ Len(held[s].minted) < MaxMinted
    /\ \E c \in ClaimIds(held[s]), k \in Kinds :
          WriteFirst(s, [held[s] EXCEPT
              !.claims[c] = Adopted(@, k, Len(held[s].minted) + 1)],
              [op |-> k, id |-> c, made |-> Len(held[s].minted) + 1])

\* accept_claim_as_observation and accept_claim_as_finding: the record is
\* minted and saved (record_derived_observation, record_analysis) ...
Mint(s) ==
    /\ Free(s)
    /\ Len(held[s].minted) < MaxMinted
    /\ \E c \in ClaimIds(held[s]), k \in Kinds :
          WriteFirst(s, [held[s] EXCEPT
              !.minted = Append(@, [kind |-> k, claim |-> c])],
              [op |-> k, id |-> c, made |-> Len(held[s].minted) + 1])

\* ... and then the claim is marked, whatever was decided about it before.
Adopt(s) ==
    /\ todo[s].op \in Kinds
    /\ WriteSecond(s, [held[s] EXCEPT !.claims[todo[s].id] =
                           Adopted(@, todo[s].op, todo[s].made)])

\* Mutant of Decide: the decision withdraws the adoption as well.
DecideAndForget(s) ==
    /\ Free(s)
    /\ \E c \in ClaimIds(held[s]), d \in Refusals :
          Write(s, [held[s] EXCEPT !.claims[c] = [NewClaim EXCEPT !.state = d]])

\* _set_claim_adoption_state leaves what was adopted from the claim in place.
Decide(s) ==
    /\ Free(s)
    /\ \E c \in ClaimIds(held[s]), d \in Refusals :
          Write(s, [held[s] EXCEPT !.claims[c].state = d])

\* supersede_claim: the new claim first ...
Correct(s) ==
    /\ Free(s)
    /\ Len(held[s].claims) < MaxClaims
    /\ \E c \in ClaimIds(held[s]) :
          WriteFirst(s, [held[s] EXCEPT !.claims = Append(@, NewClaim)],
                     [op |-> "correct", id |-> c, made |-> Len(held[s].claims) + 1])

\* Mutant of LinkCorrection: old and new are swapped.
LinkCorrectionSwapped(s) ==
    /\ todo[s].op = "correct"
    /\ WriteSecond(s, [held[s] EXCEPT !.links = @ \cup
           {[of |-> "claim", old |-> todo[s].made, new |-> todo[s].id]}])

\* ... and then the supersession that links it to the old one.
LinkCorrection(s) ==
    /\ todo[s].op = "correct"
    /\ WriteSecond(s, [held[s] EXCEPT !.links = @ \cup
           {[of |-> "claim", old |-> todo[s].id, new |-> todo[s].made]}])

-----------------------------------------------------------------------------

ProductStep(s) ==
    \/ CreateWorkProduct(s) \/ AddSection(s) \/ EditSection(s) \/ AcceptSection(s)
    \/ RemoveSection(s) \/ Review(s) \/ ApproveForIssue(s) \/ Issue(s)
    \/ Revise(s) \/ FinishRevision(s) \/ Export(s)

ClaimStep(s) ==
    \/ RecordClaim(s) \/ Mint(s) \/ Adopt(s) \/ Decide(s)
    \/ Correct(s) \/ LinkCorrection(s)

Next ==
    \E s \in Sessions :
        BeginRoute(s) \/ EndRoute(s) \/ ProductStep(s) \/ ClaimStep(s)

Spec == Init /\ [][Next]_vars

-----------------------------------------------------------------------------
\* Properties.

\* "Once issued it cannot be un-issued": whatever copy another session still
\* holds, an issued product only gains exports, and its checksum stays that of
\* what it says (_require_work_product_editable).
IssuedIsFrozen ==
    [][\A p \in ProductIds(stored) : stored.products[p].state = "issued" =>
          /\ p \in ProductIds(stored')
          /\ [stored'.products[p] EXCEPT !.exports = <<>>]
                = [stored.products[p] EXCEPT !.exports = <<>>]
          /\ stored'.products[p].seal = {Checksum(stored'.products[p])}]_stored

\* Nothing is approved or issued against the last reviewer: a review that asks
\* for revisions takes an approval back, also under an issue that was on its
\* way (record_work_product_review, issue_work_product).
NoIssueAgainstTheReviewer ==
    \A p \in ProductIds(stored) :
        stored.products[p].state \in {"reviewed", "approved_for_issue", "issued"} =>
            stored.products[p].verdict = "reviewed"

\* Every revision is linked to one predecessor, an issued product one version
\* below it, even where the request that made it was refused half way
\* (revise_work_product, record_supersession).
RevisionsAreLinked ==
    /\ \A l \in stored.links : l.of = "product" =>
          /\ l.old \in ProductIds(stored) /\ l.new \in ProductIds(stored)
          /\ stored.products[l.old].state = "issued"
          /\ stored.products[l.new].revision = stored.products[l.old].revision + 1
    /\ \A p \in ProductIds(stored) : stored.products[p].revision > 1 =>
          \E l \in stored.links :
             /\ l.of = "product" /\ l.new = p
             /\ \A k \in stored.links : k.of = "product" /\ k.new = p => k = l

\* An export record names what the product said when the record was written,
\* although the bytes were made from a copy read earlier
\* (export_work_product_route, record_work_product_export).
ExportsAreTrue ==
    [][\A p \in ProductIds(stored) :
          /\ p \in ProductIds(stored')
          /\ stored'.products[p].exports \in
                {stored.products[p].exports,
                 Append(stored.products[p].exports, Checksum(stored.products[p]))}]_stored

\* A claim that reads as adopted names a record of that kind that was minted
\* from it, although record and mark are saved apart
\* (accept_claim_as_observation, accept_claim_as_finding).
Backs(ws, m, k, c) == m \in MintedIds(ws) /\ ws.minted[m] = [kind |-> k, claim |-> c]

AdoptionIsBacked ==
    \A c \in ClaimIds(stored) :
        LET claim == stored.claims[c] IN
        /\ claim.state = "observation" => Backs(stored, claim.observation, "observation", c)
        /\ claim.state = "finding" => Backs(stored, claim.finding, "finding", c)

\* Every record minted from a claim is named by it, was followed by a later
\* one, is about to be named, or stems from a request that ended between its
\* two saves; nothing else parts the two.
MintedIsAccountedFor ==
    \A m \in MintedIds(stored) :
        LET r == stored.minted[m]
            task == [op |-> r.kind, id |-> r.claim, made |-> m]
        IN  \/ r.kind = "observation" /\ stored.claims[r.claim].observation >= m
            \/ r.kind = "finding" /\ stored.claims[r.claim].finding >= m
            \/ \E s \in Sessions : todo[s] = task
            \/ task \in halves

\* What is shown of a product: what it says (once issued, what its checksum
\* names), where it stands and what was exported.
Shown(wp) ==
    [state |-> wp.state,
     says |-> IF wp.state = "issued" THEN CHOOSE sum \in wp.seal : TRUE ELSE Checksum(wp),
     exports |-> wp.exports]

Promise == INSTANCE PracticePromise WITH
    products <- [p \in ProductIds(stored) |-> Shown(stored.products[p])],
    claims <- stored.claims,
    links <- stored.links

\* Every step is one act on what is there now, or none: neither the age of a
\* copy nor the two saves of a revision, an adoption or a correction show,
\* also where the request ends between them.
ActsAsPromised == [][Promise!Next]_Promise!practice
=============================================================================
