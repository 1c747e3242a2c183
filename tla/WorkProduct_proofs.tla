------------------------ MODULE WorkProduct_proofs ------------------------
(***************************************************************************)
(* Proofs about WorkProduct, for any number of sessions and any lengths of *)
(* the lists, laid out as those about CaseReview: the lemmas of the first  *)
(* part say, operation by operation, how the file a save writes fits the   *)
(* one it read, and which act it is (Outcome), and each property follows   *)
(* from Outcome alone.  The last part shows that the acts are those of     *)
(* PracticePromise.                                                        *)
(***************************************************************************)
EXTENDS WorkProduct, SequenceTheorems, TLAPS

\* What was reviewed, approved or issued has a reviewer behind it; what was
\* issued is sealed.
Sound(wp) ==
    /\ wp.state \in {"reviewed", "approved_for_issue", "issued"} => wp.verdict = "reviewed"
    /\ wp.state = "issued" => wp.seal = {Checksum(wp)}

\* How a save changes one product.
ProductFits(old, new) ==
    /\ new.revision = old.revision
    /\ old.state = "issued" =>
          /\ new.state = "issued" /\ new.sections = old.sections
          /\ new.verdict = old.verdict /\ new.seal = old.seal
    /\ new.exports \in {old.exports, Append(old.exports, Checksum(old))}
    /\ Sound(old) => Sound(new)

ProductsFit(old, new) ==
    /\ Len(old.products) <= Len(new.products)
    /\ \A p \in ProductIds(old) : ProductFits(old.products[p], new.products[p])
    /\ \A p \in ProductIds(new) : p > Len(old.products) => Sound(new.products[p])

LinksOf(ws) == {l \in ws.links : l.of = "product"}

\* A save adds no revision, or one with its link.
LinksFit(old, new) ==
    \/ /\ LinksOf(new) = LinksOf(old)
       /\ \A p \in ProductIds(new) : p > Len(old.products) => new.products[p].revision = 1
    \/ \E p \in ProductIds(old) :
          /\ old.products[p].state = "issued"
          /\ Len(new.products) = Len(old.products) + 1
          /\ new.products[Len(old.products) + 1].revision = old.products[p].revision + 1
          /\ LinksOf(new) = LinksOf(old) \cup
                {[of |-> "product", old |-> p, new |-> Len(old.products) + 1]}

\* An adopted claim has the record it was adopted as.
Backed(ws, c) ==
    /\ ws.claims[c].state = "observation" =>
          Backs(ws, ws.claims[c].observation, "observation", c)
    /\ ws.claims[c].state = "finding" =>
          Backs(ws, ws.claims[c].finding, "finding", c)

\* The claim of task t names what t has made, or something later.
Named(ws, t) ==
    /\ t.op = "observation" => ws.claims[t.id].observation >= t.made
    /\ t.op = "finding" => ws.claims[t.id].finding >= t.made

\* How a save of a session that had task was, and now has task, changes the
\* claims and the minted records.
ClaimsFit(old, new, was, task) ==
    /\ WellNamed(old) => WellNamed(new)
    /\ Len(old.claims) <= Len(new.claims)
    /\ Len(old.minted) <= Len(new.minted)
    /\ \A m \in MintedIds(old) : new.minted[m] = old.minted[m]
    /\ \A m \in MintedIds(new) : m > Len(old.minted) =>
          task = [op |-> new.minted[m].kind, id |-> new.minted[m].claim, made |-> m]
    /\ \A c \in ClaimIds(old) :
          /\ new.claims[c].observation >= old.claims[c].observation
          /\ new.claims[c].finding >= old.claims[c].finding
          /\ Backed(old, c) => Backed(new, c)
    /\ \A c \in ClaimIds(new) : c > Len(old.claims) => Backed(new, c)
    /\ Named(new, was)

\* What a session is about to mark has just been minted.
Ready(ws, t) ==
    t.op \in Kinds => t.made = Len(ws.minted) /\ Backs(ws, t.made, t.op, t.id)

\* What is done with a product of the file: an edit, a review, an approval, an
\* issue, an export.
Edits(wp, k) == Editable(wp) /\ k.state = wp.state /\ k.exports = wp.exports
Reviews(wp, k) ==
    /\ Editable(wp) /\ k.state \in ReviewDecisions
    /\ k.sections = wp.sections /\ k.exports = wp.exports
Approves(wp, k) ==
    /\ wp.state = "reviewed" /\ k.state = "approved_for_issue"
    /\ k.sections = wp.sections /\ k.exports = wp.exports
Issues(wp, k) ==
    /\ wp.state = "approved_for_issue" /\ k.state = "issued"
    /\ k.sections = wp.sections /\ k.exports = wp.exports /\ k.seal = {Checksum(wp)}
Exports(wp, k) ==
    /\ k.state = wp.state /\ k.sections = wp.sections /\ k.seal = wp.seal
    /\ k.exports = Append(wp.exports, Checksum(wp))
Acted(wp, k) == Edits(wp, k) \/ Reviews(wp, k) \/ Approves(wp, k) \/ Issues(wp, k) \/ Exports(wp, k)

\* What a save does to the file, of which a record that is minted, or a
\* revision that is saved again, shows nothing.
Hidden(old, new, task) ==
    /\ new.products = old.products /\ new.claims = old.claims /\ new.links = old.links
    /\ task # NoTask => task.op \in Kinds /\ task.made = Len(old.minted) + 1
OneProduct(old, new, task) ==
    /\ new.claims = old.claims /\ new.links = old.links /\ task = NoTask
    /\ \E p \in ProductIds(old), k \in Product :
          new.products = [old.products EXCEPT ![p] = k] /\ Acted(old.products[p], k)
Drafted(old, new, task) ==
    /\ new.claims = old.claims /\ new.links = old.links /\ task = NoTask
    /\ new.products = Append(old.products, NewProduct(1, <<>>))
Revised(old, new, task) ==
    /\ new.claims = old.claims /\ task.op = "revise"
    /\ \E p \in ProductIds(old) :
          /\ old.products[p].state = "issued"
          /\ new.products = Append(old.products,
                 NewProduct(old.products[p].revision + 1, old.products[p].sections))
          /\ new.links = old.links \cup
                 {[of |-> "product", old |-> p, new |-> Len(old.products) + 1]}
Recorded(old, new, task) ==
    /\ new.products = old.products /\ new.links = old.links
    /\ new.claims = Append(old.claims, NewClaim)
    /\ task # NoTask => /\ task.op = "correct" /\ task.id \in ClaimIds(old)
                        /\ task.made = Len(old.claims) + 1
Marked(old, new, was, task) ==
    /\ new.products = old.products /\ new.links = old.links /\ task = NoTask
    /\ was.op \in Kinds /\ was.id \in ClaimIds(old)
    /\ new.claims = [old.claims EXCEPT ![was.id] =
                         Adopted(old.claims[was.id], was.op, was.made)]
Decided(old, new, task) ==
    /\ new.products = old.products /\ new.links = old.links /\ task = NoTask
    /\ \E c \in ClaimIds(old), d \in Refusals :
          new.claims = [old.claims EXCEPT ![c] = [old.claims[c] EXCEPT !.state = d]]
Corrected(old, new, was, task) ==
    /\ new.products = old.products /\ new.claims = old.claims /\ task = NoTask
    /\ was.op = "correct"
    /\ new.links = old.links \cup {[of |-> "claim", old |-> was.id, new |-> was.made]}

ActFits(old, new, was, task) ==
    \/ Hidden(old, new, task) \/ OneProduct(old, new, task)
    \/ Drafted(old, new, task) \/ Revised(old, new, task)
    \/ Recorded(old, new, task) \/ Marked(old, new, was, task)
    \/ Decided(old, new, task) \/ Corrected(old, new, was, task)

Outcome(s, new, task) ==
    /\ Holding(s)
    /\ new \in Workspace
    /\ new.version = held[s].version
    /\ \E after \in {NoCopy, Stamped(new)} :
          SaveThen(s, new, after) /\ (task # NoTask => after = Stamped(new))
    /\ task \in Task /\ Ready(new, task)
    /\ todo' = [todo EXCEPT ![s] = task]
    /\ halves' = halves
    /\ ProductsFit(held[s], new)
    /\ LinksFit(held[s], new)
    /\ ClaimsFit(held[s], new, todo[s], task)
    /\ ActFits(held[s], new, todo[s], task)

TasksFit == \A s \in Sessions : Ready(held[s], todo[s])

Types == TypeOK /\ CopiesAreTrue /\ TasksFit

USE SessionsAssumption, WorkProductAssumption, NoCopyAssumption

-----------------------------------------------------------------------------
(***************************************************************************)
(* Lists that stay as they are, and entries that change.                   *)
(***************************************************************************)

LEMMA NoTaskIsTyped == NoTask \in Task /\ (\A ws : Ready(ws, NoTask) /\ Named(ws, NoTask))
BY DEF NoTask, Task, Kinds, Ready, Named

LEMMA SameProduct == \A wp : ProductFits(wp, wp)
BY DEF ProductFits

LEMMA SameProducts ==
    ASSUME NEW old \in Workspace, NEW new \in Workspace,
           new.products = old.products, LinksOf(new) = LinksOf(old)
    PROVE  ProductsFit(old, new) /\ LinksFit(old, new)
<1>1. ProductIds(new) = ProductIds(old) /\ Len(old.products) \in Nat
  BY DEF ProductIds, Workspace
<1>2. \A p \in ProductIds(new) : ~(p > Len(old.products))
  BY <1>1 DEF ProductIds
<1>3. ProductsFit(old, new)
  BY <1>1, <1>2, SameProduct DEF ProductsFit
<1> QED
  BY <1>2, <1>3 DEF LinksFit

LEMMA SameClaims ==
    ASSUME NEW old \in Workspace, NEW new \in Workspace, NEW was, NEW task,
           new.claims = old.claims, new.minted = old.minted, was.op \notin Kinds
    PROVE  ClaimsFit(old, new, was, task)
<1>1. /\ Len(old.claims) \in Nat /\ Len(old.minted) \in Nat
      /\ ClaimIds(new) = ClaimIds(old) /\ MintedIds(new) = MintedIds(old)
  BY DEF Workspace, ClaimIds, MintedIds
<1>2. \A c \in ClaimIds(old) : /\ ~(c > Len(old.claims))
                               /\ old.claims[c] \in Claim
  BY <1>1 DEF ClaimIds, Workspace
<1>3. \A m \in MintedIds(old) : ~(m > Len(old.minted))
  BY <1>1 DEF MintedIds
<1>4. \A c : Backed(old, c) => Backed(new, c)
  BY <1>1 DEF Backed, Backs
<1>5. WellNamed(old) => WellNamed(new)
  BY <1>1 DEF WellNamed
<1>6. Named(new, was)
  BY DEF Named, Kinds
<1>7. \A c \in ClaimIds(old) : /\ new.claims[c].observation >= old.claims[c].observation
                               /\ new.claims[c].finding >= old.claims[c].finding
  BY <1>2 DEF Claim
<1> QED
  BY <1>1, <1>2, <1>3, <1>4, <1>5, <1>6, <1>7 DEF ClaimsFit

WithProduct(ws, p, k) == [ws EXCEPT !.products = [ws.products EXCEPT ![p] = k]]
WithClaim(ws, c, k) == [ws EXCEPT !.claims = [ws.claims EXCEPT ![c] = k]]

LEMMA ProductChange ==
    ASSUME NEW old \in Workspace, NEW p \in ProductIds(old), NEW k \in Product, NEW new,
           new = WithProduct(old, p, k), ProductFits(old.products[p], k)
    PROVE  /\ new \in Workspace /\ new.version = old.version
           /\ new.claims = old.claims /\ new.minted = old.minted
           /\ ProductsFit(old, new) /\ LinksFit(old, new)
<1>1. old.products \in Seq(Product) /\ p \in 1..Len(old.products)
      /\ Len(old.products) \in Nat
  BY DEF Workspace, ProductIds
<1>2. /\ [old.products EXCEPT ![p] = k] \in Seq(Product)
      /\ Len([old.products EXCEPT ![p] = k]) = Len(old.products)
      /\ \A d \in 1..Len(old.products) :
            [old.products EXCEPT ![p] = k][d] = IF d = p THEN k ELSE old.products[d]
  BY <1>1, ExceptSeq
<1>3. /\ new \in Workspace /\ new.version = old.version
      /\ new.claims = old.claims /\ new.minted = old.minted /\ new.links = old.links
      /\ Len(new.products) = Len(old.products) /\ new.products[p] = k
      /\ \A d \in ProductIds(old) \ {p} : new.products[d] = old.products[d]
  BY <1>1, <1>2 DEF Workspace, ProductIds, WithProduct
<1>4. ProductIds(new) = ProductIds(old)
      /\ \A d \in ProductIds(new) : ~(d > Len(old.products))
  BY <1>1, <1>3 DEF ProductIds
<1>5. \A d \in ProductIds(old) : ProductFits(old.products[d], new.products[d])
  BY <1>3, SameProduct
<1>6. ProductsFit(old, new)
  BY <1>1, <1>3, <1>4, <1>5 DEF ProductsFit
<1>7. LinksFit(old, new)
  BY <1>3, <1>4 DEF LinksFit, LinksOf
<1> QED
  BY <1>3, <1>6, <1>7

LEMMA ClaimChange ==
    ASSUME NEW old \in Workspace, NEW c \in ClaimIds(old), NEW k \in Claim, NEW new,
           new = WithClaim(old, c, k)
    PROVE  /\ new \in Workspace /\ new.version = old.version
           /\ new.products = old.products /\ new.links = old.links
           /\ new.minted = old.minted /\ Len(new.claims) = Len(old.claims)
           /\ new.claims[c] = k
           /\ \A d \in ClaimIds(old) \ {c} : new.claims[d] = old.claims[d]
<1>1. old.claims \in Seq(Claim) /\ c \in 1..Len(old.claims)
  BY DEF Workspace, ClaimIds
<1>2. /\ [old.claims EXCEPT ![c] = k] \in Seq(Claim)
      /\ Len([old.claims EXCEPT ![c] = k]) = Len(old.claims)
      /\ \A d \in 1..Len(old.claims) :
            [old.claims EXCEPT ![c] = k][d] = IF d = c THEN k ELSE old.claims[d]
  BY <1>1, ExceptSeq
<1> QED
  BY <1>1, <1>2 DEF Workspace, ClaimIds, WithClaim

LEMMA HeldIsTyped ==
    ASSUME Types, NEW s \in Sessions, Holding(s)
    PROVE  /\ held[s] \in Workspace /\ WellNamed(held[s])
           /\ todo[s] \in Task /\ Ready(held[s], todo[s])
           /\ Len(held[s].products) \in Nat /\ Len(held[s].claims) \in Nat
           /\ Len(held[s].minted) \in Nat
<1>1. held[s] \in Workspace
  BY DEF Types, TypeOK, Holding
<1> QED
  BY <1>1 DEF Types, TypeOK, TasksFit, Workspace

-----------------------------------------------------------------------------
(***************************************************************************)
(* The operations on a product.                                            *)
(***************************************************************************)

\* A write that changes product p alone, into k.
LEMMA ProductWrite ==
    ASSUME Types, NEW s \in Sessions, Free(s), NEW p \in ProductIds(held[s]),
           NEW k \in Product, NEW new, new = WithProduct(held[s], p, k),
           ProductFits(held[s].products[p], k), Acted(held[s].products[p], k),
           NEW after \in {NoCopy, Stamped(new)}, SaveThen(s, new, after),
           UNCHANGED <<todo, halves>>
    PROVE  \E w, t : Outcome(s, w, t)
<1>1. Holding(s) /\ todo[s] = NoTask /\ held[s] \in Workspace
  BY HeldIsTyped DEF Free
<1>2. /\ new \in Workspace /\ new.version = held[s].version
      /\ new.claims = held[s].claims /\ new.minted = held[s].minted
      /\ ProductsFit(held[s], new) /\ LinksFit(held[s], new)
  <2>1. PICK old \in Workspace : old = held[s]
    BY <1>1
  <2>2. p \in ProductIds(old) /\ new = WithProduct(old, p, k) /\ ProductFits(old.products[p], k)
    BY <2>1
  <2>3. /\ new \in Workspace /\ new.version = old.version
        /\ new.claims = old.claims /\ new.minted = old.minted
        /\ ProductsFit(old, new) /\ LinksFit(old, new)
    BY <2>2, ProductChange
  <2> QED
    BY <2>1, <2>3
<1>3. todo[s].op \notin Kinds
  BY <1>1 DEF NoTask, Kinds
<1>4. ClaimsFit(held[s], new, todo[s], NoTask)
  BY <1>1, <1>2, <1>3, SameClaims
<1>5. todo' = [todo EXCEPT ![s] = NoTask] /\ halves' = halves
  BY <1>1 DEF Types, TypeOK
<1>6. ActFits(held[s], new, todo[s], NoTask)
  <2>1. /\ new.products = [held[s].products EXCEPT ![p] = k]
        /\ new.links = held[s].links
    BY <1>1 DEF WithProduct, Workspace
  <2>2. OneProduct(held[s], new, NoTask)
    BY <1>2, <2>1 DEF OneProduct
  <2> QED
    BY <2>2 DEF ActFits
<1>7. Outcome(s, new, NoTask)
  BY <1>1, <1>2, <1>4, <1>5, <1>6, NoTaskIsTyped DEF Outcome
<1> QED
  BY <1>7

\* An edit of a product that is not issued.
LEMMA EditFits ==
    ASSUME NEW wp \in Product, Editable(wp), NEW k,
           k.state = wp.state, k.verdict = wp.verdict,
           k.revision = wp.revision, k.exports = wp.exports
    PROVE  ProductFits(wp, k)
BY DEF Editable, ProductFits, Sound

LEMMA WriteIsSave ==
    ASSUME NEW s, NEW ws
    PROVE  /\ Write(s, ws) => /\ \E after \in {NoCopy, Stamped(ws)} : SaveThen(s, ws, after)
                             /\ UNCHANGED <<todo, halves>>
           /\ WriteOn(s, ws) => /\ \E after \in {NoCopy, Stamped(ws)} : SaveThen(s, ws, after)
                               /\ UNCHANGED <<todo, halves>>
BY DEF Write, WriteOn, Save

\* A write that edits product p of the copy into k.
LEMMA EditWrite ==
    ASSUME Types, NEW s \in Sessions, Free(s), NEW p \in ProductIds(held[s]),
           NEW k \in Product, ProductFits(held[s].products[p], k),
           Acted(held[s].products[p], k),
           Write(s, WithProduct(held[s], p, k)) \/ WriteOn(s, WithProduct(held[s], p, k))
    PROVE  \E w, t : Outcome(s, w, t)
<1>1. PICK new : new = WithProduct(held[s], p, k)
  OBVIOUS
<1>2. PICK after \in {NoCopy, Stamped(new)} : SaveThen(s, new, after)
  BY <1>1, WriteIsSave
<1>3. UNCHANGED <<todo, halves>>
  BY <1>1, WriteIsSave
<1> QED
  BY <1>1, <1>2, <1>3, ProductWrite

LEMMA ProductsAreTyped ==
    ASSUME Types, NEW s \in Sessions, Free(s), NEW p \in ProductIds(held[s])
    PROVE  /\ held[s].products[p] \in Product
           /\ held[s].products[p].sections \in Seq(Section)
           /\ held[s].products[p].exports \in Seq(Content)
<1>1. held[s] \in Workspace
  BY HeldIsTyped DEF Free
<1>2. held[s].products[p] \in Product
  BY <1>1 DEF Workspace, ProductIds
<1> QED
  BY <1>2 DEF Product

\* An edit that changes section i into sec.
LEMMA SectionWrite ==
    ASSUME Types, NEW s \in Sessions, Free(s), NEW p \in ProductIds(held[s]),
           Editable(held[s].products[p]),
           NEW i \in 1..Len(held[s].products[p].sections), NEW sec \in Section,
           Write(s, WithProduct(held[s], p, [held[s].products[p] EXCEPT
                        !.sections = [held[s].products[p].sections EXCEPT ![i] = sec]]))
    PROVE  \E w, t : Outcome(s, w, t)
<1>1. PICK wp \in Product : wp = held[s].products[p] /\ wp.sections \in Seq(Section)
  BY ProductsAreTyped
<1>2. PICK secs \in Seq(Section) : secs = [wp.sections EXCEPT ![i] = sec]
  BY <1>1, ExceptSeq
<1>3. PICK k : k = [wp EXCEPT !.sections = secs]
  OBVIOUS
<1>4. /\ k \in Product /\ k.state = wp.state /\ k.verdict = wp.verdict
      /\ k.revision = wp.revision /\ k.exports = wp.exports
  BY <1>1, <1>2, <1>3 DEF Product
<1>5. ProductFits(held[s].products[p], k) /\ Acted(held[s].products[p], k)
  BY <1>1, <1>4, EditFits DEF Acted, Edits
<1>6. Write(s, WithProduct(held[s], p, k))
  BY <1>1, <1>2, <1>3
<1> QED
  BY <1>4, <1>5, <1>6, EditWrite

LEMMA AddSectionOutcome ==
    ASSUME Types, NEW s \in Sessions, AddSection(s)
    PROVE  \E w, t : Outcome(s, w, t)
<1>1. Free(s)
  BY DEF AddSection
<1>2. PICK p \in ProductIds(held[s]), x \in Texts :
          /\ Editable(held[s].products[p])
          /\ WriteOn(s, WithProduct(held[s], p, [held[s].products[p] EXCEPT !.sections =
                 Append(held[s].products[p].sections,
                        [text |-> x, accepted |-> FALSE, removed |-> FALSE])]))
  BY DEF AddSection, WithProduct
<1>3. PICK wp \in Product : wp = held[s].products[p] /\ wp.sections \in Seq(Section)
  BY <1>1, ProductsAreTyped
<1>4. PICK sec \in Section : sec = [text |-> x, accepted |-> FALSE, removed |-> FALSE]
  BY DEF Section
<1>5. PICK secs \in Seq(Section) : secs = Append(wp.sections, sec)
  BY <1>3, <1>4, AppendProperties
<1>6. PICK k : k = [wp EXCEPT !.sections = secs]
  OBVIOUS
<1>7. /\ k \in Product /\ k.state = wp.state /\ k.verdict = wp.verdict
      /\ k.revision = wp.revision /\ k.exports = wp.exports
  BY <1>3, <1>5, <1>6 DEF Product
<1>8. ProductFits(held[s].products[p], k) /\ Acted(held[s].products[p], k)
  BY <1>2, <1>3, <1>7, EditFits DEF Acted, Edits
<1>9. WriteOn(s, WithProduct(held[s], p, k))
  BY <1>2, <1>3, <1>4, <1>5, <1>6
<1> QED
  BY <1>1, <1>7, <1>8, <1>9, EditWrite

LEMMA EditSectionOutcome ==
    ASSUME Types, NEW s \in Sessions, EditSection(s)
    PROVE  \E w, t : Outcome(s, w, t)
<1>1. Free(s)
  BY DEF EditSection
<1>2. PICK p \in ProductIds(held[s]) : \E i \in Active(held[s].products[p]), x \in Texts :
          /\ Editable(held[s].products[p])
          /\ Write(s, [held[s] EXCEPT !.products[p].sections[i].text = x])
  BY DEF EditSection
<1>3. PICK i \in Active(held[s].products[p]), x \in Texts :
          /\ Editable(held[s].products[p])
          /\ Write(s, [held[s] EXCEPT !.products[p].sections[i].text = x])
  BY <1>2
<1>4. i \in 1..Len(held[s].products[p].sections)
  BY DEF Active
<1>5. held[s].products[p].sections[i] \in Section
  BY <1>1, <1>4, ProductsAreTyped
<1>6. PICK sec \in Section : sec = [held[s].products[p].sections[i] EXCEPT !.text = x]
  BY <1>5 DEF Section
<1>7. Write(s, WithProduct(held[s], p, [held[s].products[p] EXCEPT
                   !.sections = [held[s].products[p].sections EXCEPT ![i] = sec]]))
  BY <1>3, <1>6 DEF WithProduct
<1> QED
  BY <1>1, <1>3, <1>4, <1>7, SectionWrite

LEMMA AcceptSectionOutcome ==
    ASSUME Types, NEW s \in Sessions, AcceptSection(s)
    PROVE  \E w, t : Outcome(s, w, t)
<1>1. Free(s)
  BY DEF AcceptSection
<1>2. PICK p \in ProductIds(held[s]) : \E i \in Active(held[s].products[p]) :
          /\ Editable(held[s].products[p])
          /\ Write(s, [held[s] EXCEPT !.products[p].sections[i].accepted = TRUE])
  BY DEF AcceptSection
<1>3. PICK i \in Active(held[s].products[p]) :
          /\ Editable(held[s].products[p])
          /\ Write(s, [held[s] EXCEPT !.products[p].sections[i].accepted = TRUE])
  BY <1>2
<1>4. i \in 1..Len(held[s].products[p].sections)
  BY DEF Active
<1>5. held[s].products[p].sections[i] \in Section
  BY <1>1, <1>4, ProductsAreTyped
<1>6. PICK sec \in Section : sec = [held[s].products[p].sections[i] EXCEPT !.accepted = TRUE]
  BY <1>5 DEF Section
<1>7. Write(s, WithProduct(held[s], p, [held[s].products[p] EXCEPT
                   !.sections = [held[s].products[p].sections EXCEPT ![i] = sec]]))
  BY <1>3, <1>6 DEF WithProduct
<1> QED
  BY <1>1, <1>3, <1>4, <1>7, SectionWrite

LEMMA RemoveSectionOutcome ==
    ASSUME Types, NEW s \in Sessions, RemoveSection(s)
    PROVE  \E w, t : Outcome(s, w, t)
<1>1. Free(s)
  BY DEF RemoveSection
<1>2. PICK p \in ProductIds(held[s]) : \E i \in Active(held[s].products[p]) :
          /\ Editable(held[s].products[p])
          /\ Write(s, [held[s] EXCEPT !.products[p].sections[i].removed = TRUE])
  BY DEF RemoveSection
<1>3. PICK i \in Active(held[s].products[p]) :
          /\ Editable(held[s].products[p])
          /\ Write(s, [held[s] EXCEPT !.products[p].sections[i].removed = TRUE])
  BY <1>2
<1>4. i \in 1..Len(held[s].products[p].sections)
  BY DEF Active
<1>5. held[s].products[p].sections[i] \in Section
  BY <1>1, <1>4, ProductsAreTyped
<1>6. PICK sec \in Section : sec = [held[s].products[p].sections[i] EXCEPT !.removed = TRUE]
  BY <1>5 DEF Section
<1>7. Write(s, WithProduct(held[s], p, [held[s].products[p] EXCEPT
                   !.sections = [held[s].products[p].sections EXCEPT ![i] = sec]]))
  BY <1>3, <1>6 DEF WithProduct
<1> QED
  BY <1>1, <1>3, <1>4, <1>7, SectionWrite

\* The checksum is one of what the active sections may say.
LEMMA ChecksumIsContent ==
    ASSUME NEW wp, wp.sections \in Seq(Section)
    PROVE  Checksum(wp) \in Content
<1>1. \A i \in 1..Len(wp.sections) : wp.sections[i].text \in Texts
  <2>1. \A i \in 1..Len(wp.sections) : wp.sections[i] \in Section
    OBVIOUS
  <2> QED
    BY <2>1 DEF Section
<1>2. Len(wp.sections) \in Nat
  OBVIOUS
<1>3. \A i \in Active(wp) : i \in Nat /\ i \in 1..Len(wp.sections)
  BY <1>2 DEF Active
<1> QED
  BY <1>1, <1>3 DEF Checksum, Content

LEMMA ReviewOutcome ==
    ASSUME Types, NEW s \in Sessions, Review(s)
    PROVE  \E w, t : Outcome(s, w, t)
<1>1. Free(s)
  BY DEF Review
<1>2. PICK p \in ProductIds(held[s]), d \in ReviewDecisions :
          /\ Editable(held[s].products[p])
          /\ Write(s, WithProduct(held[s], p,
                 [held[s].products[p] EXCEPT !.verdict = d, !.state = d]))
  BY DEF Review, WithProduct
<1>3. PICK wp \in Product : wp = held[s].products[p]
  BY <1>1, ProductsAreTyped
<1>4. PICK k : k = [wp EXCEPT !.verdict = d, !.state = d]
  OBVIOUS
<1>5. /\ k \in Product /\ k.state = d /\ k.verdict = d
      /\ k.revision = wp.revision /\ k.exports = wp.exports /\ k.sections = wp.sections
  BY <1>3, <1>4 DEF Product, ProductStates
<1>6. d \notin {"approved_for_issue", "issued"}
  BY DEF ReviewDecisions
<1>7. ProductFits(held[s].products[p], k)
  BY <1>2, <1>3, <1>5, <1>6 DEF ProductFits, Editable, Sound
<1>8. Acted(held[s].products[p], k)
  BY <1>2, <1>3, <1>5 DEF Acted, Reviews
<1> QED
  BY <1>1, <1>2, <1>3, <1>4, <1>5, <1>7, <1>8, EditWrite

LEMMA ApproveForIssueOutcome ==
    ASSUME Types, NEW s \in Sessions, ApproveForIssue(s)
    PROVE  \E w, t : Outcome(s, w, t)
<1>1. Free(s)
  BY DEF ApproveForIssue
<1>2. PICK p \in ProductIds(held[s]) :
          /\ held[s].products[p].state = "reviewed"
          /\ Write(s, WithProduct(held[s], p,
                 [held[s].products[p] EXCEPT !.state = "approved_for_issue"]))
  BY DEF ApproveForIssue, WithProduct
<1>3. PICK wp \in Product : wp = held[s].products[p]
  BY <1>1, ProductsAreTyped
<1>4. PICK k : k = [wp EXCEPT !.state = "approved_for_issue"]
  OBVIOUS
<1>5. /\ k \in Product /\ k.state = "approved_for_issue" /\ k.verdict = wp.verdict
      /\ k.revision = wp.revision /\ k.exports = wp.exports /\ k.sections = wp.sections
  BY <1>3, <1>4 DEF Product, ProductStates
<1>6. ProductFits(held[s].products[p], k)
  BY <1>2, <1>3, <1>5 DEF ProductFits, Sound
<1>7. Acted(held[s].products[p], k)
  BY <1>2, <1>3, <1>5 DEF Acted, Approves
<1> QED
  BY <1>1, <1>2, <1>3, <1>4, <1>5, <1>6, <1>7, EditWrite

LEMMA IssueOutcome ==
    ASSUME Types, NEW s \in Sessions, Issue(s)
    PROVE  \E w, t : Outcome(s, w, t)
<1>1. Free(s)
  BY DEF Issue
<1>2. PICK p \in ProductIds(held[s]) :
          /\ held[s].products[p].state = "approved_for_issue"
          /\ Write(s, WithProduct(held[s], p,
                 [held[s].products[p] EXCEPT !.state = "issued",
                                             !.seal = {Checksum(held[s].products[p])}]))
  BY DEF Issue, WithProduct
<1>3. PICK wp \in Product : wp = held[s].products[p] /\ wp.sections \in Seq(Section)
  BY <1>1, ProductsAreTyped
<1>4. PICK sum \in Content : sum = Checksum(wp)
  BY <1>3, ChecksumIsContent
<1>5. PICK k : k = [wp EXCEPT !.state = "issued", !.seal = {sum}]
  OBVIOUS
<1>6. /\ k \in Product /\ k.state = "issued" /\ k.verdict = wp.verdict
      /\ k.revision = wp.revision /\ k.exports = wp.exports
      /\ k.sections = wp.sections /\ k.seal = {sum}
  BY <1>3, <1>5 DEF Product, ProductStates
<1>7. Checksum(k) = sum
  BY <1>4, <1>6 DEF Checksum, Active
<1>8. ProductFits(held[s].products[p], k)
  BY <1>2, <1>3, <1>6, <1>7 DEF ProductFits, Sound
<1>9. Write(s, WithProduct(held[s], p, k))
  BY <1>2, <1>3, <1>4, <1>5
<1>10. Acted(held[s].products[p], k)
  BY <1>2, <1>3, <1>4, <1>6 DEF Acted, Issues
<1> QED
  BY <1>1, <1>6, <1>8, <1>9, <1>10, EditWrite

LEMMA ExportOutcome ==
    ASSUME Types, NEW s \in Sessions, Export(s)
    PROVE  \E w, t : Outcome(s, w, t)
<1>1. Free(s)
  BY DEF Export
<1>2. PICK p \in ProductIds(held[s]) :
          Write(s, WithProduct(held[s], p, [held[s].products[p] EXCEPT !.exports =
                 Append(held[s].products[p].exports, Checksum(held[s].products[p]))]))
  BY DEF Export, WithProduct
<1>3. PICK wp \in Product : /\ wp = held[s].products[p]
                            /\ wp.sections \in Seq(Section) /\ wp.exports \in Seq(Content)
  BY <1>1, ProductsAreTyped
<1>4. PICK sum \in Content : sum = Checksum(wp)
  BY <1>3, ChecksumIsContent
<1>5. PICK list \in Seq(Content) : list = Append(wp.exports, sum)
  BY <1>3, <1>4, AppendProperties
<1>6. PICK k : k = [wp EXCEPT !.exports = list]
  OBVIOUS
<1>7. /\ k \in Product /\ k.state = wp.state /\ k.verdict = wp.verdict
      /\ k.revision = wp.revision /\ k.exports = list
      /\ k.sections = wp.sections /\ k.seal = wp.seal
  BY <1>3, <1>6 DEF Product
<1>8. Checksum(k) = Checksum(wp)
  BY <1>7 DEF Checksum, Active
<1>9. Sound(wp) => Sound(k)
  BY <1>7, <1>8 DEF Sound
<1>10. ProductFits(held[s].products[p], k)
  BY <1>3, <1>4, <1>5, <1>7, <1>9 DEF ProductFits
<1>11. Write(s, WithProduct(held[s], p, k))
  BY <1>2, <1>3, <1>4, <1>5, <1>6
<1>12. Acted(held[s].products[p], k)
  BY <1>3, <1>4, <1>5, <1>7 DEF Acted, Exports
<1> QED
  BY <1>1, <1>7, <1>10, <1>11, <1>12, EditWrite

\* A new draft at the end of the list of products.
PlusProduct(ws, k) == [ws EXCEPT !.products = Append(ws.products, k)]

LEMMA DraftIsTyped ==
    ASSUME NEW n \in Nat, NEW secs \in Seq(Section)
    PROVE  /\ NewProduct(n, secs) \in Product /\ Sound(NewProduct(n, secs))
           /\ NewProduct(n, secs).revision = n
BY DEF NewProduct, Product, ProductStates, ReviewDecisions, Sound

LEMMA DraftAdded ==
    ASSUME NEW old \in Workspace, NEW k \in Product, Sound(k), NEW new \in Workspace,
           new.products = Append(old.products, k)
    PROVE  /\ Len(new.products) = Len(old.products) + 1
           /\ new.products[Len(old.products) + 1] = k
           /\ \A p \in ProductIds(new) : p > Len(old.products) => p = Len(old.products) + 1
           /\ ProductsFit(old, new)
<1>1. old.products \in Seq(Product) /\ Len(old.products) \in Nat
  BY DEF Workspace
<1>2. /\ Len(new.products) = Len(old.products) + 1
      /\ new.products[Len(old.products) + 1] = k
      /\ \A p \in 1..Len(old.products) : new.products[p] = old.products[p]
  BY <1>1, AppendProperties
<1>3. \A p \in ProductIds(new) : p > Len(old.products) => p = Len(old.products) + 1
  BY <1>1, <1>2 DEF ProductIds
<1>4. \A p \in ProductIds(old) : ProductFits(old.products[p], new.products[p])
  BY <1>2, SameProduct DEF ProductIds
<1>5. \A p \in ProductIds(new) : p > Len(old.products) => Sound(new.products[p])
  BY <1>2, <1>3
<1>6. Len(old.products) <= Len(new.products)
  BY <1>1, <1>2
<1>7. ProductsFit(old, new)
  BY <1>4, <1>5, <1>6 DEF ProductsFit
<1> QED
  BY <1>2, <1>3, <1>7

LEMMA CreateWorkProductOutcome ==
    ASSUME Types, NEW s \in Sessions, CreateWorkProduct(s)
    PROVE  \E w, t : Outcome(s, w, t)
<1>1. Holding(s) /\ todo[s] = NoTask /\ held[s] \in Workspace
  BY HeldIsTyped DEF CreateWorkProduct, Free
<1>2. WriteOn(s, PlusProduct(held[s], NewProduct(1, <<>>)))
  BY DEF CreateWorkProduct, PlusProduct
<1>3. PICK k \in Product : k = NewProduct(1, <<>>) /\ Sound(k) /\ k.revision = 1
  <2>1. <<>> \in Seq(Section)
    OBVIOUS
  <2> QED
    BY <2>1, DraftIsTyped
<1>4. PICK old \in Workspace : old = held[s]
  BY <1>1
<1>5. PICK list \in Seq(Product) : list = Append(old.products, k)
  BY AppendProperties DEF Workspace
<1>6. PICK new : new = [old EXCEPT !.products = list]
  OBVIOUS
<1>7. /\ new \in Workspace /\ new.version = old.version /\ new.links = old.links
      /\ new.claims = old.claims /\ new.minted = old.minted /\ new.products = list
  BY <1>6 DEF Workspace
<1>8. ProductsFit(old, new) /\ LinksFit(old, new)
  <2>1. /\ new.products[Len(old.products) + 1] = k
        /\ \A p \in ProductIds(new) : p > Len(old.products) => p = Len(old.products) + 1
        /\ ProductsFit(old, new)
    BY <1>3, <1>5, <1>7, DraftAdded
  <2> QED
    BY <1>3, <1>7, <2>1 DEF LinksFit, LinksOf
<1>9. ClaimsFit(old, new, todo[s], NoTask)
  BY <1>1, <1>7, SameClaims DEF NoTask, Kinds
<1>10. WriteOn(s, new)
  BY <1>2, <1>3, <1>4, <1>5, <1>6 DEF PlusProduct
<1>11. /\ \E after \in {NoCopy, Stamped(new)} : SaveThen(s, new, after)
       /\ todo' = [todo EXCEPT ![s] = NoTask] /\ halves' = halves
  BY <1>1, <1>10, WriteIsSave DEF Types, TypeOK
<1>12. ActFits(old, new, todo[s], NoTask)
  <2>1. Drafted(old, new, NoTask)
    BY <1>3, <1>5, <1>7 DEF Drafted
  <2> QED
    BY <2>1 DEF ActFits
<1>13. Outcome(s, new, NoTask)
  BY <1>1, <1>4, <1>7, <1>8, <1>9, <1>11, <1>12, NoTaskIsTyped DEF Outcome
<1> QED
  BY <1>13

LEMMA ReviseOutcome ==
    ASSUME Types, NEW s \in Sessions, Revise(s)
    PROVE  \E w, t : Outcome(s, w, t)
<1>1. Free(s) /\ Holding(s) /\ todo[s] = NoTask /\ held[s] \in Workspace
  BY HeldIsTyped DEF Revise, Free
<1>2. PICK p \in ProductIds(held[s]) :
          /\ held[s].products[p].state = "issued"
          /\ WriteFirst(s, [held[s] EXCEPT
                 !.products = Append(held[s].products,
                     NewProduct(held[s].products[p].revision + 1, held[s].products[p].sections)),
                 !.links = held[s].links \cup
                     {[of |-> "product", old |-> p, new |-> Len(held[s].products) + 1]}],
                 [op |-> "revise", id |-> p, made |-> Len(held[s].products) + 1])
  BY DEF Revise
<1>3. PICK old \in Workspace : old = held[s]
  BY <1>1
<1>4. /\ old.products[p] \in Product /\ old.products[p].sections \in Seq(Section)
      /\ old.products[p].revision + 1 \in Nat /\ p \in Nat /\ Len(old.products) + 1 \in Nat
  <2>1. old.products[p] \in Product /\ old.products[p].sections \in Seq(Section)
    BY <1>1, <1>3, ProductsAreTyped
  <2>2. Len(old.products) \in Nat
    BY DEF Workspace
  <2>3. p \in Nat
    BY <1>3, <2>2 DEF ProductIds
  <2>4. old.products[p].revision \in Nat
    BY <2>1 DEF Product
  <2> QED
    BY <2>1, <2>2, <2>3, <2>4
<1>5. PICK k \in Product : /\ k = NewProduct(old.products[p].revision + 1, old.products[p].sections)
                           /\ Sound(k) /\ k.revision = old.products[p].revision + 1
  BY <1>4, DraftIsTyped
<1>6. PICK list \in Seq(Product) : list = Append(old.products, k)
  BY AppendProperties DEF Workspace
<1>7. PICK link \in Link : link = [of |-> "product", old |-> p, new |-> Len(old.products) + 1]
  BY <1>4 DEF Link
<1>8. PICK task \in Task : task = [op |-> "revise", id |-> p, made |-> Len(old.products) + 1]
  BY <1>4 DEF Task
<1>9. PICK new : new = [old EXCEPT !.products = list, !.links = old.links \cup {link}]
  OBVIOUS
<1>10. /\ new \in Workspace /\ new.version = old.version /\ new.products = list
       /\ new.claims = old.claims /\ new.minted = old.minted
       /\ new.links = old.links \cup {link}
  BY <1>9 DEF Workspace
<1>11. /\ Len(new.products) = Len(old.products) + 1
       /\ new.products[Len(old.products) + 1] = k
       /\ ProductsFit(old, new)
  BY <1>5, <1>6, <1>10, DraftAdded
<1>12. LinksOf(new) = LinksOf(old) \cup {link}
  BY <1>7, <1>10 DEF LinksOf
<1>13. LinksFit(old, new)
  BY <1>2, <1>3, <1>5, <1>7, <1>11, <1>12 DEF LinksFit
<1>14. ClaimsFit(old, new, todo[s], task)
  BY <1>1, <1>10, SameClaims DEF NoTask, Kinds
<1>15. WriteFirst(s, new, task)
  BY <1>2, <1>3, <1>5, <1>6, <1>7, <1>8, <1>9
<1>16. Ready(new, task)
  BY <1>8 DEF Ready, Kinds
<1>17. ActFits(old, new, todo[s], task)
  <2>1. Revised(old, new, task)
    BY <1>2, <1>3, <1>5, <1>6, <1>7, <1>8, <1>10 DEF Revised
  <2> QED
    BY <2>1 DEF ActFits
<1>18. Outcome(s, new, task)
  BY <1>1, <1>3, <1>10, <1>11, <1>13, <1>14, <1>15, <1>16, <1>17 DEF Outcome, WriteFirst
<1> QED
  BY <1>18

LEMMA FinishRevisionOutcome ==
    ASSUME Types, NEW s \in Sessions, FinishRevision(s)
    PROVE  \E w, t : Outcome(s, w, t)
<1>1. todo[s].op = "revise" /\ WriteSecond(s, held[s])
  BY DEF FinishRevision
<1>2. todo[s] # NoTask /\ Holding(s)
  BY <1>1 DEF NoTask, Types, TypeOK
<1>3. held[s] \in Workspace /\ todo[s].op \notin Kinds
  BY <1>1, <1>2, HeldIsTyped DEF Kinds
<1>4. /\ ProductsFit(held[s], held[s]) /\ LinksFit(held[s], held[s])
      /\ ClaimsFit(held[s], held[s], todo[s], NoTask)
  BY <1>3, SameProducts, SameClaims
<1>5. ActFits(held[s], held[s], todo[s], NoTask)
  BY DEF ActFits, Hidden
<1>6. Outcome(s, held[s], NoTask)
  BY <1>1, <1>2, <1>3, <1>4, <1>5, NoTaskIsTyped DEF Outcome, WriteSecond, Save
<1> QED
  BY <1>6

-----------------------------------------------------------------------------
(***************************************************************************)
(* The operations on a claim.                                              *)
(***************************************************************************)

LEMMA NewClaimIsTyped ==
    NewClaim \in Claim /\ NewClaim.observation = 0 /\ NewClaim.finding = 0
                       /\ NewClaim.state = "proposed"
BY DEF NewClaim, Claim

LEMMA ClaimNamesNumbers ==
    ASSUME NEW ws \in Workspace, NEW c \in ClaimIds(ws)
    PROVE  ws.claims[c].observation \in Nat /\ ws.claims[c].finding \in Nat
<1>1. ws.claims[c] \in Claim
  BY DEF Workspace, ClaimIds
<1> QED
  BY <1>1 DEF Claim

\* A claim at the end of the list.
LEMMA ClaimAdded ==
    ASSUME NEW old \in Workspace, NEW new \in Workspace, NEW was, NEW task,
           new.claims = Append(old.claims, NewClaim), new.minted = old.minted,
           was.op \notin Kinds
    PROVE  ClaimsFit(old, new, was, task)
<1>1. /\ old.claims \in Seq(Claim) /\ Len(old.claims) \in Nat /\ Len(old.minted) \in Nat
      /\ NewClaim \in Claim /\ MintedIds(new) = MintedIds(old)
  BY NewClaimIsTyped DEF Workspace, MintedIds
<1>2. /\ Len(new.claims) = Len(old.claims) + 1
      /\ new.claims[Len(old.claims) + 1] = NewClaim
      /\ \A c \in 1..Len(old.claims) : new.claims[c] = old.claims[c]
  BY <1>1, AppendProperties
<1>3. /\ \A c \in ClaimIds(old) : c \in ClaimIds(new) /\ new.claims[c] = old.claims[c]
      /\ \A c \in ClaimIds(new) \ ClaimIds(old) : new.claims[c] = NewClaim
      /\ \A c \in ClaimIds(new) : c > Len(old.claims) => c \notin ClaimIds(old)
      /\ \A c \in ClaimIds(old) : old.claims[c] \in Claim
  BY <1>1, <1>2 DEF ClaimIds
<1>4. \A c \in ClaimIds(old) : Backed(old, c) => Backed(new, c)
  BY <1>1, <1>3 DEF Backed, Backs
<1>5. \A c \in ClaimIds(new) : c > Len(old.claims) => Backed(new, c)
  BY <1>3, NewClaimIsTyped DEF Backed
<1>6. WellNamed(old) => WellNamed(new)
  <2> SUFFICES ASSUME WellNamed(old) PROVE WellNamed(new)
    OBVIOUS
  <2>1. \A m \in MintedIds(new) : new.minted[m].claim \in ClaimIds(new)
    BY <1>1, <1>3 DEF WellNamed
  <2>2. 0 \in 0..Len(old.minted)
    BY <1>1
  <2>3. \A c \in ClaimIds(new) : /\ new.claims[c].observation \in 0..Len(new.minted)
                                 /\ new.claims[c].finding \in 0..Len(new.minted)
    BY <1>3, <2>2, NewClaimIsTyped DEF WellNamed
  <2> QED
    BY <2>1, <2>3 DEF WellNamed
<1>7. \A c \in ClaimIds(old) : /\ new.claims[c].observation >= old.claims[c].observation
                               /\ new.claims[c].finding >= old.claims[c].finding
  <2> TAKE c \in ClaimIds(old)
  <2>1. old.claims[c].observation \in Nat /\ old.claims[c].finding \in Nat
    BY ClaimNamesNumbers
  <2>2. new.claims[c] = old.claims[c]
    BY <1>3
  <2> QED
    BY <2>1, <2>2
<1>8. Named(new, was)
  BY DEF Named, Kinds
<1>9. \A m \in MintedIds(new) : ~(m > Len(old.minted))
  BY <1>1 DEF MintedIds
<1>10. Len(old.claims) <= Len(new.claims) /\ Len(old.minted) <= Len(new.minted)
  BY <1>1, <1>2
<1>11. \A m \in MintedIds(old) : new.minted[m] = old.minted[m]
  BY <1>1
<1> QED
  BY <1>4, <1>5, <1>6, <1>7, <1>8, <1>9, <1>10, <1>11 DEF ClaimsFit

\* A claim that changes into k, which names nothing earlier than before.
LEMMA ClaimChanged ==
    ASSUME NEW old \in Workspace, NEW c \in ClaimIds(old), NEW k \in Claim, NEW new,
           NEW was, NEW task, new = WithClaim(old, c, k),
           k.observation >= old.claims[c].observation,
           k.finding >= old.claims[c].finding,
           k.observation \in 0..Len(old.minted), k.finding \in 0..Len(old.minted),
           Backed(old, c) => Backed(new, c), Named(new, was)
    PROVE  ClaimsFit(old, new, was, task)
<1>1. /\ new \in Workspace /\ new.minted = old.minted
      /\ Len(new.claims) = Len(old.claims) /\ new.claims[c] = k
      /\ \A d \in ClaimIds(old) \ {c} : new.claims[d] = old.claims[d]
  BY ClaimChange
<1>2. Len(old.claims) \in Nat /\ Len(old.minted) \in Nat
  BY DEF Workspace
<1>3. ClaimIds(new) = ClaimIds(old) /\ MintedIds(new) = MintedIds(old)
  BY <1>1 DEF ClaimIds, MintedIds
<1>4. \A d \in ClaimIds(old) : Backed(old, d) => Backed(new, d)
  BY <1>1, <1>3 DEF Backed, Backs
<1>5. \A d \in ClaimIds(new) : ~(d > Len(old.claims))
  BY <1>2, <1>3 DEF ClaimIds
<1>6. \A m \in MintedIds(new) : ~(m > Len(old.minted))
  BY <1>2, <1>3 DEF MintedIds
<1>7. WellNamed(old) => WellNamed(new)
  BY <1>1, <1>3 DEF WellNamed
<1>8. \A d \in ClaimIds(old) : /\ new.claims[d].observation >= old.claims[d].observation
                               /\ new.claims[d].finding >= old.claims[d].finding
  <2>1. \A d \in ClaimIds(old) : /\ old.claims[d].observation \in Nat
                                 /\ old.claims[d].finding \in Nat
    BY ClaimNamesNumbers
  <2> QED
    BY <1>1, <2>1
<1>9. Len(old.claims) <= Len(new.claims) /\ Len(old.minted) <= Len(new.minted)
  BY <1>1, <1>2
<1> QED
  BY <1>1, <1>3, <1>4, <1>5, <1>6, <1>7, <1>8, <1>9 DEF ClaimsFit

\* A record minted from claim c.
LEMMA RecordAdded ==
    ASSUME NEW old \in Workspace, NEW new \in Workspace, NEW was,
           NEW c \in ClaimIds(old), NEW k \in Kinds,
           new.minted = Append(old.minted, [kind |-> k, claim |-> c]),
           new.claims = old.claims, was.op \notin Kinds
    PROVE  LET task == [op |-> k, id |-> c, made |-> Len(old.minted) + 1]
           IN  /\ ClaimsFit(old, new, was, task)
               /\ task \in Task /\ Ready(new, task)
<1>1. PICK task : task = [op |-> k, id |-> c, made |-> Len(old.minted) + 1]
  OBVIOUS
<1>2. PICK r : r = [kind |-> k, claim |-> c]
  OBVIOUS
<1>3. /\ old.minted \in Seq(Minted) /\ Len(old.minted) \in Nat /\ Len(old.claims) \in Nat
      /\ ClaimIds(new) = ClaimIds(old)
  BY DEF Workspace, ClaimIds
<1>4. c \in Nat /\ r \in Minted
  <2>1. c \in Nat
    BY <1>3 DEF ClaimIds
  <2> QED
    BY <1>2, <2>1 DEF Minted
<1>5. /\ Len(new.minted) = Len(old.minted) + 1
      /\ new.minted[Len(old.minted) + 1] = r
      /\ \A m \in 1..Len(old.minted) : new.minted[m] = old.minted[m]
  BY <1>2, <1>3, <1>4, AppendProperties
<1>6. /\ \A m \in MintedIds(old) : m \in MintedIds(new) /\ new.minted[m] = old.minted[m]
      /\ \A m \in MintedIds(new) : m > Len(old.minted) => m = Len(old.minted) + 1
      /\ \A m \in MintedIds(new) \ MintedIds(old) : m = Len(old.minted) + 1
      /\ Len(old.minted) + 1 \in MintedIds(new)
  BY <1>3, <1>5 DEF MintedIds
<1>7. r.kind = k /\ r.claim = c
  BY <1>2
<1>8. \A m \in MintedIds(new) : m > Len(old.minted) =>
          task = [op |-> new.minted[m].kind, id |-> new.minted[m].claim, made |-> m]
  BY <1>1, <1>5, <1>6, <1>7
<1>9. \A d \in ClaimIds(old) : Backed(old, d) => Backed(new, d)
  BY <1>6 DEF Backed, Backs
<1>10. \A d \in ClaimIds(new) : ~(d > Len(old.claims))
  BY <1>3 DEF ClaimIds
<1>11. WellNamed(old) => WellNamed(new)
  <2> SUFFICES ASSUME WellNamed(old) PROVE WellNamed(new)
    OBVIOUS
  <2>1. \A m \in MintedIds(new) : new.minted[m].claim \in ClaimIds(new)
    BY <1>3, <1>5, <1>6, <1>7 DEF WellNamed
  <2>2. \A n \in 0..Len(old.minted) : n \in 0..Len(new.minted)
    BY <1>3, <1>5
  <2>3. \A d \in ClaimIds(new) : /\ new.claims[d].observation \in 0..Len(new.minted)
                                 /\ new.claims[d].finding \in 0..Len(new.minted)
    BY <1>3, <2>2 DEF WellNamed
  <2> QED
    BY <2>1, <2>3 DEF WellNamed
<1>12. \A d \in ClaimIds(old) : /\ new.claims[d].observation >= old.claims[d].observation
                                /\ new.claims[d].finding >= old.claims[d].finding
  BY ClaimNamesNumbers
<1>13. Named(new, was)
  BY DEF Named, Kinds
<1>14. Len(old.claims) <= Len(new.claims) /\ Len(old.minted) <= Len(new.minted)
  BY <1>3, <1>5
<1>15. ClaimsFit(old, new, was, task)
  BY <1>6, <1>8, <1>9, <1>10, <1>11, <1>12, <1>13, <1>14 DEF ClaimsFit
<1>16. task \in Task
  BY <1>1, <1>3, <1>4 DEF Task
<1>17. Ready(new, task)
  BY <1>1, <1>2, <1>5, <1>6 DEF Ready, Backs
<1> QED
  BY <1>1, <1>15, <1>16, <1>17

LEMMA RecordClaimOutcome ==
    ASSUME Types, NEW s \in Sessions, RecordClaim(s)
    PROVE  \E w, t : Outcome(s, w, t)
<1>1. Holding(s) /\ todo[s] = NoTask /\ held[s] \in Workspace
  BY HeldIsTyped DEF RecordClaim, Free
<1>2. PICK old \in Workspace : old = held[s]
  BY <1>1
<1>3. PICK list \in Seq(Claim) : list = Append(old.claims, NewClaim)
  BY AppendProperties, NewClaimIsTyped DEF Workspace
<1>4. PICK new : new = [old EXCEPT !.claims = list]
  OBVIOUS
<1>5. /\ new \in Workspace /\ new.version = old.version /\ new.links = old.links
      /\ new.claims = list /\ new.minted = old.minted /\ new.products = old.products
  BY <1>4 DEF Workspace
<1>6. ProductsFit(old, new) /\ LinksFit(old, new)
  BY <1>5, SameProducts DEF LinksOf
<1>7. ClaimsFit(old, new, todo[s], NoTask)
  BY <1>1, <1>3, <1>5, ClaimAdded DEF NoTask, Kinds
<1>8. WriteOn(s, new)
  BY <1>2, <1>3, <1>4 DEF RecordClaim
<1>9. /\ \E after \in {NoCopy, Stamped(new)} : SaveThen(s, new, after)
      /\ todo' = [todo EXCEPT ![s] = NoTask] /\ halves' = halves
  BY <1>1, <1>8, WriteIsSave DEF Types, TypeOK
<1>10. ActFits(old, new, todo[s], NoTask)
  BY <1>3, <1>5 DEF ActFits, Recorded
<1>11. Outcome(s, new, NoTask)
  BY <1>1, <1>2, <1>5, <1>6, <1>7, <1>9, <1>10, NoTaskIsTyped DEF Outcome
<1> QED
  BY <1>11

LEMMA MintOutcome ==
    ASSUME Types, NEW s \in Sessions, Mint(s)
    PROVE  \E w, t : Outcome(s, w, t)
<1>1. Holding(s) /\ todo[s] = NoTask /\ held[s] \in Workspace
  BY HeldIsTyped DEF Mint, Free
<1>2. PICK c \in ClaimIds(held[s]), k \in Kinds :
          WriteFirst(s, [held[s] EXCEPT !.minted = Append(held[s].minted, [kind |-> k, claim |-> c])],
                     [op |-> k, id |-> c, made |-> Len(held[s].minted) + 1])
  BY DEF Mint
<1>3. PICK old \in Workspace : old = held[s]
  BY <1>1
<1>4. [kind |-> k, claim |-> c] \in Minted
  BY <1>1, <1>2 DEF Minted, ClaimIds, Workspace
<1>5. PICK list \in Seq(Minted) : list = Append(old.minted, [kind |-> k, claim |-> c])
  BY <1>4, AppendProperties DEF Workspace
<1>6. PICK new : new = [old EXCEPT !.minted = list]
  OBVIOUS
<1>7. /\ new \in Workspace /\ new.version = old.version /\ new.links = old.links
      /\ new.claims = old.claims /\ new.minted = list /\ new.products = old.products
  BY <1>6 DEF Workspace
<1>8. ProductsFit(old, new) /\ LinksFit(old, new)
  BY <1>7, SameProducts DEF LinksOf
<1>9. PICK task : task = [op |-> k, id |-> c, made |-> Len(old.minted) + 1]
  OBVIOUS
<1>10. ClaimsFit(old, new, todo[s], task) /\ task \in Task /\ Ready(new, task)
  <2>1. c \in ClaimIds(old) /\ todo[s].op \notin Kinds
    BY <1>1, <1>2, <1>3 DEF NoTask, Kinds
  <2> QED
    BY <1>5, <1>7, <1>9, <2>1, RecordAdded
<1>11. WriteFirst(s, new, task)
  BY <1>2, <1>3, <1>5, <1>6, <1>9
<1>12. ActFits(old, new, todo[s], task)
  <2>1. Hidden(old, new, task)
    BY <1>7, <1>9 DEF Hidden
  <2> QED
    BY <2>1 DEF ActFits
<1>13. Outcome(s, new, task)
  BY <1>1, <1>3, <1>7, <1>8, <1>10, <1>11, <1>12 DEF Outcome, WriteFirst
<1> QED
  BY <1>13

LEMMA DecideOutcome ==
    ASSUME Types, NEW s \in Sessions, Decide(s)
    PROVE  \E w, t : Outcome(s, w, t)
<1>1. Holding(s) /\ todo[s] = NoTask /\ held[s] \in Workspace /\ WellNamed(held[s])
  BY HeldIsTyped DEF Decide, Free
<1>2. PICK c \in ClaimIds(held[s]), d \in Refusals :
          Write(s, WithClaim(held[s], c, [held[s].claims[c] EXCEPT !.state = d]))
  BY DEF Decide, WithClaim
<1>3. PICK old \in Workspace : old = held[s]
  BY <1>1
<1>4. PICK claim \in Claim : claim = old.claims[c]
  BY <1>2, <1>3 DEF Workspace, ClaimIds
<1>5. PICK k : k = [claim EXCEPT !.state = d]
  OBVIOUS
<1>6. /\ k \in Claim /\ k.state = d
      /\ k.observation = claim.observation /\ k.finding = claim.finding
      /\ claim.observation \in Nat /\ claim.finding \in Nat
  BY <1>4, <1>5 DEF Claim
<1>7. PICK new : new = WithClaim(old, c, k)
  OBVIOUS
<1>8. c \in ClaimIds(old)
  BY <1>2, <1>3
<1>9. /\ new \in Workspace /\ new.version = old.version
      /\ new.products = old.products /\ new.links = old.links
      /\ new.claims[c] = k
  BY <1>6, <1>7, <1>8, ClaimChange
<1>10. ProductsFit(old, new) /\ LinksFit(old, new)
  BY <1>9, SameProducts DEF LinksOf
<1>11. Backed(new, c)
  BY <1>6, <1>9 DEF Backed, Refusals
<1>12. ClaimsFit(old, new, todo[s], NoTask)
  <2>1. k.observation \in 0..Len(old.minted) /\ k.finding \in 0..Len(old.minted)
    BY <1>1, <1>3, <1>4, <1>6, <1>8 DEF WellNamed
  <2>2. Named(new, todo[s])
    BY <1>1, NoTaskIsTyped
  <2>3. k.observation >= old.claims[c].observation /\ k.finding >= old.claims[c].finding
    BY <1>4, <1>6
  <2> QED
    BY <1>6, <1>7, <1>8, <1>11, <2>1, <2>2, <2>3, ClaimChanged
<1>13. Write(s, new)
  BY <1>2, <1>3, <1>4, <1>5, <1>7
<1>14. /\ \E after \in {NoCopy, Stamped(new)} : SaveThen(s, new, after)
       /\ todo' = [todo EXCEPT ![s] = NoTask] /\ halves' = halves
  BY <1>1, <1>13, WriteIsSave DEF Types, TypeOK
<1>15. ActFits(old, new, todo[s], NoTask)
  <2>1. new.claims = [old.claims EXCEPT ![c] = [old.claims[c] EXCEPT !.state = d]]
    BY <1>4, <1>5, <1>7 DEF WithClaim, Workspace
  <2>2. Decided(old, new, NoTask)
    BY <1>2, <1>8, <1>9, <2>1 DEF Decided
  <2> QED
    BY <2>2 DEF ActFits
<1>16. Outcome(s, new, NoTask)
  BY <1>1, <1>3, <1>9, <1>10, <1>12, <1>14, <1>15, NoTaskIsTyped DEF Outcome
<1> QED
  BY <1>16

LEMMA AdoptOutcome ==
    ASSUME Types, NEW s \in Sessions, Adopt(s)
    PROVE  \E w, t : Outcome(s, w, t)
<1>1. PICK was \in Task : was = todo[s] /\ was.op \in Kinds
  BY DEF Adopt, Types, TypeOK
<1>2. Holding(s)
  <2>1. todo[s] # NoTask
    BY <1>1 DEF NoTask, Kinds
  <2> QED
    BY <2>1 DEF Types, TypeOK
<1>3. PICK old \in Workspace : old = held[s]
  BY <1>2, HeldIsTyped
<1>4. WellNamed(old) /\ Ready(old, was)
  BY <1>1, <1>2, <1>3, HeldIsTyped
<1>5. /\ was.made = Len(old.minted) /\ was.made \in MintedIds(old)
      /\ old.minted[was.made] = [kind |-> was.op, claim |-> was.id]
  BY <1>1, <1>4 DEF Ready, Backs
<1>6. was.id \in ClaimIds(old)
  <2>1. old.minted[was.made].claim = was.id
    BY <1>5
  <2> QED
    BY <1>4, <1>5, <2>1 DEF WellNamed
<1>7. PICK claim \in Claim : claim = old.claims[was.id]
  BY <1>6 DEF Workspace, ClaimIds
<1>8. PICK k : k = Adopted(claim, was.op, was.made)
  OBVIOUS
<1>9. /\ claim.observation \in 0..Len(old.minted) /\ claim.finding \in 0..Len(old.minted)
      /\ Len(old.minted) \in Nat
  BY <1>4, <1>6, <1>7 DEF WellNamed, Workspace
<1>10. /\ k \in Claim /\ k.state = was.op
       /\ k.observation \in {claim.observation, was.made}
       /\ k.finding \in {claim.finding, was.made}
       /\ was.op = "observation" => k.observation = was.made
       /\ was.op = "finding" => k.finding = was.made
  <2>1. was.made \in Nat
    BY <1>5, <1>9
  <2>2. CASE was.op = "observation"
    <3>1. k = [claim EXCEPT !.state = was.op, !.observation = was.made]
      BY <1>8, <2>2 DEF Adopted
    <3> QED
      BY <1>1, <2>1, <2>2, <3>1 DEF Claim, Kinds
  <2>3. CASE was.op = "finding"
    <3>1. k = [claim EXCEPT !.state = was.op, !.finding = was.made]
      BY <1>8, <2>3 DEF Adopted
    <3> QED
      BY <1>1, <2>1, <2>3, <3>1 DEF Claim, Kinds
  <2> QED
    BY <1>1, <2>2, <2>3 DEF Kinds
<1>11. PICK new : new = WithClaim(old, was.id, k)
  OBVIOUS
<1>12. /\ new \in Workspace /\ new.version = old.version
       /\ new.products = old.products /\ new.links = old.links
       /\ new.minted = old.minted /\ new.claims[was.id] = k
  BY <1>6, <1>10, <1>11, ClaimChange
<1>13. ProductsFit(old, new) /\ LinksFit(old, new)
  BY <1>12, SameProducts DEF LinksOf
<1>14. Backed(new, was.id)
  BY <1>5, <1>10, <1>12 DEF Backed, Backs, MintedIds
<1>15. Named(new, was)
  <2>1. was.made \in Nat
    BY <1>5, <1>9
  <2> QED
    BY <1>10, <1>12, <2>1 DEF Named
<1>16. ClaimsFit(old, new, was, NoTask)
  <2>1. was.made \in 0..Len(old.minted)
    BY <1>5, <1>9
  <2>2. k.observation \in 0..Len(old.minted) /\ k.finding \in 0..Len(old.minted)
    BY <1>9, <1>10, <2>1
  <2>3. k.observation >= claim.observation /\ k.finding >= claim.finding
    BY <1>5, <1>9, <1>10
  <2> QED
    BY <1>6, <1>7, <1>10, <1>11, <1>14, <1>15, <2>2, <2>3, ClaimChanged
<1>17. WriteSecond(s, new)
  <2>1. WriteSecond(s, WithClaim(held[s], todo[s].id,
                           Adopted(held[s].claims[todo[s].id], todo[s].op, todo[s].made)))
    BY DEF Adopt, WithClaim
  <2> QED
    BY <1>1, <1>3, <1>7, <1>8, <1>11, <2>1
<1>18. ActFits(old, new, was, NoTask)
  <2>1. new.claims = [old.claims EXCEPT ![was.id] = k]
    BY <1>11 DEF WithClaim, Workspace
  <2>2. Marked(old, new, was, NoTask)
    BY <1>1, <1>6, <1>7, <1>8, <1>12, <2>1 DEF Marked
  <2> QED
    BY <2>2 DEF ActFits
<1>19. Outcome(s, new, NoTask)
  BY <1>1, <1>2, <1>3, <1>12, <1>13, <1>16, <1>17, <1>18, NoTaskIsTyped
     DEF Outcome, WriteSecond, Save
<1> QED
  BY <1>19

LEMMA CorrectOutcome ==
    ASSUME Types, NEW s \in Sessions, Correct(s)
    PROVE  \E w, t : Outcome(s, w, t)
<1>1. Holding(s) /\ todo[s] = NoTask /\ held[s] \in Workspace
  BY HeldIsTyped DEF Correct, Free
<1>2. PICK c \in ClaimIds(held[s]) :
          WriteFirst(s, [held[s] EXCEPT !.claims = Append(held[s].claims, NewClaim)],
                     [op |-> "correct", id |-> c, made |-> Len(held[s].claims) + 1])
  BY DEF Correct
<1>3. PICK old \in Workspace : old = held[s]
  BY <1>1
<1>4. PICK list \in Seq(Claim) : list = Append(old.claims, NewClaim)
  BY AppendProperties, NewClaimIsTyped DEF Workspace
<1>5. PICK new : new = [old EXCEPT !.claims = list]
  OBVIOUS
<1>6. /\ new \in Workspace /\ new.version = old.version /\ new.links = old.links
      /\ new.claims = list /\ new.minted = old.minted /\ new.products = old.products
  BY <1>5 DEF Workspace
<1>7. ProductsFit(old, new) /\ LinksFit(old, new)
  BY <1>6, SameProducts DEF LinksOf
<1>8. PICK task : task = [op |-> "correct", id |-> c, made |-> Len(old.claims) + 1]
  OBVIOUS
<1>9. task \in Task /\ Ready(new, task)
  <2>1. Len(old.claims) \in Nat
    BY DEF Workspace
  <2>2. c \in Nat /\ Len(old.claims) + 1 \in Nat
    BY <1>2, <1>3, <2>1 DEF ClaimIds
  <2> QED
    BY <1>8, <2>2 DEF Task, Ready, Kinds
<1>10. ClaimsFit(old, new, todo[s], task)
  BY <1>1, <1>4, <1>6, ClaimAdded DEF NoTask, Kinds
<1>11. WriteFirst(s, new, task)
  BY <1>2, <1>3, <1>4, <1>5, <1>8
<1>12. ActFits(old, new, todo[s], task)
  <2>1. Recorded(old, new, task)
    BY <1>2, <1>3, <1>4, <1>6, <1>8 DEF Recorded
  <2> QED
    BY <2>1 DEF ActFits
<1>13. Outcome(s, new, task)
  BY <1>1, <1>3, <1>6, <1>7, <1>9, <1>10, <1>11, <1>12 DEF Outcome, WriteFirst
<1> QED
  BY <1>13

LEMMA LinkCorrectionOutcome ==
    ASSUME Types, NEW s \in Sessions, LinkCorrection(s)
    PROVE  \E w, t : Outcome(s, w, t)
<1>1. PICK was \in Task : was = todo[s] /\ was.op = "correct"
  BY DEF LinkCorrection, Types, TypeOK
<1>2. Holding(s)
  <2>1. todo[s] # NoTask
    BY <1>1 DEF NoTask
  <2> QED
    BY <2>1 DEF Types, TypeOK
<1>3. PICK old \in Workspace : old = held[s]
  BY <1>2, HeldIsTyped
<1>4. PICK link \in Link : link = [of |-> "claim", old |-> was.id, new |-> was.made]
  BY <1>1 DEF Task, Link
<1>5. PICK new : new = [old EXCEPT !.links = old.links \cup {link}]
  OBVIOUS
<1>6. /\ new \in Workspace /\ new.version = old.version
      /\ new.links = old.links \cup {link}
      /\ new.claims = old.claims /\ new.minted = old.minted /\ new.products = old.products
  BY <1>5 DEF Workspace
<1>7. LinksOf(new) = LinksOf(old)
  BY <1>4, <1>6 DEF LinksOf
<1>8. ProductsFit(old, new) /\ LinksFit(old, new) /\ ClaimsFit(old, new, was, NoTask)
  BY <1>1, <1>6, <1>7, SameProducts, SameClaims DEF Kinds
<1>9. WriteSecond(s, new)
  BY <1>1, <1>3, <1>4, <1>5 DEF LinkCorrection
<1>10. ActFits(old, new, was, NoTask)
  BY <1>1, <1>4, <1>6 DEF ActFits, Corrected
<1>11. Outcome(s, new, NoTask)
  BY <1>1, <1>2, <1>3, <1>6, <1>8, <1>9, <1>10, NoTaskIsTyped DEF Outcome, WriteSecond, Save
<1> QED
  BY <1>11

\* A step is an operation, or the beginning or the end of a route.
LEMMA EveryStep ==
    ASSUME Types, [Next]_vars
    PROVE  \/ \E s \in Sessions : \E w, t : Outcome(s, w, t)
           \/ \E s \in Sessions : BeginRoute(s) \/ EndRoute(s)
           \/ UNCHANGED vars
<1>1. ASSUME NEW s \in Sessions, ProductStep(s)
      PROVE  \E w, t : Outcome(s, w, t)
  BY <1>1, CreateWorkProductOutcome, AddSectionOutcome, EditSectionOutcome,
     AcceptSectionOutcome, RemoveSectionOutcome, ReviewOutcome, ApproveForIssueOutcome,
     IssueOutcome, ReviseOutcome, FinishRevisionOutcome, ExportOutcome DEF ProductStep
<1>2. ASSUME NEW s \in Sessions, ClaimStep(s)
      PROVE  \E w, t : Outcome(s, w, t)
  BY <1>2, RecordClaimOutcome, MintOutcome, AdoptOutcome, DecideOutcome, CorrectOutcome,
     LinkCorrectionOutcome DEF ClaimStep
<1> QED
  BY <1>1, <1>2 DEF Next

-----------------------------------------------------------------------------
(***************************************************************************)
(* Type correctness.                                                       *)
(***************************************************************************)

\* What a save does to the file and to the copies: the session had the file.
LEMMA SaveFacts ==
    ASSUME Types, NEW s \in Sessions, NEW w, NEW t, Outcome(s, w, t)
    PROVE  /\ held[s] = stored /\ w \in Workspace
           /\ stored'.version = stored.version + 1 /\ stored' \in Workspace
           /\ stored'.products = w.products /\ stored'.claims = w.claims
           /\ stored'.minted = w.minted /\ stored'.links = w.links
           /\ held'[s] \in {NoCopy, stored'} /\ (t # NoTask => held'[s] = stored')
           /\ \A r \in Sessions \ {s} : held'[r] = held[r] /\ todo'[r] = todo[r]
           /\ held' \in [Sessions -> Workspace \cup {NoCopy}]
           /\ todo'[s] = t /\ todo' \in [Sessions -> Task] /\ halves' = halves
<1>1. Holding(s) /\ w \in Workspace /\ t \in Task
  BY DEF Outcome
<1>2. PICK after \in {NoCopy, Stamped(w)} :
          SaveThen(s, w, after) /\ (t # NoTask => after = Stamped(w))
  BY DEF Outcome
<1>3. /\ w.version = stored.version /\ stored' = Stamped(w)
      /\ held' = [held EXCEPT ![s] = after]
      /\ w.version = held[s].version
  BY <1>2 DEF SaveThen, Outcome
<1>4. held[s] = stored
  BY <1>1, <1>3 DEF Types, CopiesAreTrue
<1>5. /\ Stamped(w) \in Workspace /\ Stamped(w).version = w.version + 1
      /\ Stamped(w).products = w.products /\ Stamped(w).claims = w.claims
      /\ Stamped(w).minted = w.minted /\ Stamped(w).links = w.links
  <2>1. PICK new : new = Stamped(w)
    OBVIOUS
  <2>2. new = [w EXCEPT !.version = w.version + 1] /\ w.version + 1 \in Nat
    BY <1>1, <2>1 DEF Stamped, Workspace
  <2>3. new \in Workspace
    BY <1>1, <2>2 DEF Workspace
  <2>4. /\ new.version = w.version + 1
        /\ new.products = w.products /\ new.claims = w.claims
        /\ new.minted = w.minted /\ new.links = w.links
    BY <1>1, <2>2 DEF Workspace
  <2> QED
    BY <2>1, <2>3, <2>4
<1>6. /\ held \in [Sessions -> Workspace \cup {NoCopy}] /\ todo \in [Sessions -> Task]
      /\ todo' = [todo EXCEPT ![s] = t] /\ halves' = halves
  BY DEF Types, TypeOK, Outcome
<1> HIDE DEF Stamped
<1> QED
  BY <1>1, <1>2, <1>3, <1>4, <1>5, <1>6

LEMMA SaveKeepsTypes ==
    ASSUME Types, NEW s \in Sessions, NEW w, NEW t, Outcome(s, w, t)
    PROVE  Types'
<1>1. /\ held[s] = stored /\ w \in Workspace
      /\ stored'.version = stored.version + 1 /\ stored' \in Workspace
      /\ held'[s] \in {NoCopy, stored'} /\ (t # NoTask => held'[s] = stored')
      /\ \A r \in Sessions \ {s} : held'[r] = held[r] /\ todo'[r] = todo[r]
      /\ held' \in [Sessions -> Workspace \cup {NoCopy}]
      /\ todo'[s] = t /\ todo' \in [Sessions -> Task] /\ halves' = halves
  BY SaveFacts
<1>2. /\ stored'.claims = w.claims /\ stored'.minted = w.minted
  BY SaveFacts
<1>3. WellNamed(stored')
  <2>1. WellNamed(w)
    BY <1>1 DEF Outcome, ClaimsFit, Types, TypeOK
  <2> QED
    BY <1>2, <2>1 DEF WellNamed, ClaimIds, MintedIds
<1>4. TypeOK'
  <2>1. \A r \in Sessions : held'[r] # NoCopy => WellNamed(held'[r])
    BY <1>1, <1>3 DEF Types, TypeOK, Holding
  <2>2. \A r \in Sessions : todo'[r] # NoTask => held'[r] # NoCopy
    BY <1>1 DEF Types, TypeOK, Holding
  <2>3. stored' \in Workspace /\ halves' \subseteq Task
    BY <1>1 DEF Types, TypeOK
  <2> QED
    BY <1>1, <1>3, <2>1, <2>2, <2>3 DEF TypeOK, Holding, WellNamed, ClaimIds, MintedIds
<1>5. CopiesAreTrue'
  <2> SUFFICES ASSUME NEW r \in Sessions, held'[r] # NoCopy
               PROVE  /\ held'[r].version <= stored'.version
                      /\ held'[r].version = stored'.version => held'[r] = stored'
    BY DEF CopiesAreTrue, Holding
  <2>1. stored.version \in Nat
    BY DEF Types, TypeOK, Workspace
  <2>2. CASE r = s
    BY <1>1, <2>1, <2>2
  <2>3. CASE r # s
    <3>1. held'[r] = held[r] /\ held[r] # NoCopy /\ held[r] \in Workspace
      BY <1>1, <2>3 DEF Types, TypeOK
    <3>2. held[r].version <= stored.version /\ held[r].version \in Nat
      BY <3>1 DEF Types, CopiesAreTrue, Holding, Workspace
    <3> QED
      BY <1>1, <2>1, <3>1, <3>2
  <2> QED
    BY <2>2, <2>3
<1>6. TasksFit'
  <2> SUFFICES ASSUME NEW r \in Sessions PROVE Ready(held'[r], todo'[r])
    BY DEF TasksFit, Ready, Backs, MintedIds
  <2>1. CASE r = s /\ t = NoTask
    BY <1>1, <2>1, NoTaskIsTyped
  <2>2. CASE r = s /\ t # NoTask
    <3>1. Ready(w, t)
      BY DEF Outcome
    <3> QED
      BY <1>1, <1>2, <2>2, <3>1 DEF Ready, Backs, MintedIds
  <2>3. CASE r # s
    BY <1>1, <2>3 DEF Types, TasksFit
  <2> QED
    BY <2>1, <2>2, <2>3
<1> QED
  BY <1>4, <1>5, <1>6 DEF Types

LEMMA RouteKeepsTypes ==
    ASSUME Types, NEW s \in Sessions, BeginRoute(s) \/ EndRoute(s)
    PROVE  Types'
<1>1. CASE BeginRoute(s)
  <2>1. /\ stored' = stored /\ held' = [held EXCEPT ![s] = stored] /\ held[s] = NoCopy
        /\ todo' = todo /\ halves' = halves
    BY <1>1 DEF BeginRoute, Load, Holding
  <2>2. /\ held'[s] = stored
        /\ \A r \in Sessions \ {s} : held'[r] = held[r]
        /\ held' \in [Sessions -> Workspace \cup {NoCopy}]
    BY <2>1 DEF Types, TypeOK
  <2>3. stored.version \in Nat /\ stored # NoCopy /\ todo[s] = NoTask
    BY <2>1 DEF Types, TypeOK, Workspace, Holding
  <2>4. TypeOK'
    BY <2>1, <2>2, <2>3 DEF Types, TypeOK, Holding, WellNamed, ClaimIds, MintedIds
  <2>5. CopiesAreTrue'
    BY <2>1, <2>2, <2>3 DEF Types, CopiesAreTrue, Holding
  <2>6. TasksFit'
    <3> SUFFICES ASSUME NEW r \in Sessions PROVE Ready(held'[r], todo'[r])
      BY DEF TasksFit, Ready, Backs, MintedIds
    <3> QED
      BY <2>1, <2>2, <2>3, NoTaskIsTyped DEF Types, TasksFit
  <2> QED
    BY <2>4, <2>5, <2>6 DEF Types
<1>2. CASE EndRoute(s)
  <2>1. /\ stored' = stored /\ held' = [held EXCEPT ![s] = NoCopy]
        /\ todo' = [todo EXCEPT ![s] = NoTask]
        /\ halves' \subseteq halves \cup {todo[s]}
    BY <1>2 DEF EndRoute, GiveUp
  <2>2. /\ held'[s] = NoCopy /\ todo'[s] = NoTask
        /\ \A r \in Sessions \ {s} : held'[r] = held[r] /\ todo'[r] = todo[r]
        /\ held' \in [Sessions -> Workspace \cup {NoCopy}]
        /\ todo' \in [Sessions -> Task] /\ halves' \subseteq Task
    BY <2>1, NoTaskIsTyped DEF Types, TypeOK
  <2>3. TypeOK'
    BY <2>1, <2>2 DEF Types, TypeOK, Holding, WellNamed, ClaimIds, MintedIds
  <2>4. CopiesAreTrue'
    BY <2>1, <2>2 DEF Types, CopiesAreTrue, Holding
  <2>5. TasksFit'
    <3> SUFFICES ASSUME NEW r \in Sessions PROVE Ready(held'[r], todo'[r])
      BY DEF TasksFit, Ready, Backs, MintedIds
    <3> QED
      BY <2>2, NoTaskIsTyped DEF Types, TasksFit
  <2> QED
    BY <2>3, <2>4, <2>5 DEF Types
<1> QED
  BY <1>1, <1>2

\* The types, that every copy at the version of the file is the file, and that
\* what a session is about to mark has just been minted, hold in every
\* reachable state.
THEOREM TypesAlways == Spec => []Types
<1>1. Init => Types
  <2> SUFFICES ASSUME Init PROVE Types
    OBVIOUS
  <2>1. /\ stored = EmptyWorkspace /\ held = [s \in Sessions |-> NoCopy]
        /\ todo = [s \in Sessions |-> NoTask] /\ halves = {}
    BY DEF Init
  <2>2. EmptyWorkspace \in Workspace /\ WellNamed(EmptyWorkspace)
    BY DEF EmptyWorkspace, Workspace, WellNamed, ClaimIds, MintedIds
  <2>3. TypeOK
    BY <2>1, <2>2, NoTaskIsTyped DEF TypeOK, Holding
  <2>4. CopiesAreTrue /\ TasksFit
    BY <2>1, NoTaskIsTyped DEF CopiesAreTrue, TasksFit, Holding
  <2> QED
    BY <2>3, <2>4 DEF Types
<1>2. Types /\ [Next]_vars => Types'
  <2> SUFFICES ASSUME Types, [Next]_vars PROVE Types'
    OBVIOUS
  <2>1. CASE UNCHANGED vars
    BY <2>1 DEF vars, Types, TypeOK, CopiesAreTrue, TasksFit, Holding,
                WellNamed, ClaimIds, MintedIds, Ready, Backs
  <2> QED
    BY <2>1, EveryStep, SaveKeepsTypes, RouteKeepsTypes
<1> QED
  BY <1>1, <1>2, PTL DEF Spec

\* TypeOK of WorkProduct, in every reachable state.
THEOREM TypeCorrect == Spec => []TypeOK
<1>1. Types => TypeOK
  BY DEF Types
<1> QED
  BY <1>1, TypesAlways, PTL

-----------------------------------------------------------------------------
(***************************************************************************)
(* The properties, each from the fits alone.                               *)
(***************************************************************************)

\* Only an operation changes the file.
LEMMA OnlySavesWrite ==
    ASSUME Types, [Next]_vars
    PROVE  \/ stored' = stored
           \/ \E s \in Sessions : \E w, t : Outcome(s, w, t)
BY EveryStep DEF BeginRoute, EndRoute, Load, GiveUp, vars

\* The fits, read off the file.
LEMMA FileFits ==
    ASSUME Types, NEW s \in Sessions, NEW w, NEW t, Outcome(s, w, t)
    PROVE  /\ ProductsFit(stored, stored') /\ LinksFit(stored, stored')
           /\ ClaimsFit(stored, stored', todo[s], t)
           /\ ActFits(stored, stored', todo[s], t)
<1>1. /\ held[s] = stored
      /\ stored'.products = w.products /\ stored'.claims = w.claims
      /\ stored'.minted = w.minted /\ stored'.links = w.links
  BY SaveFacts
<1>2. ProductsFit(stored, w) /\ LinksFit(stored, w) /\ ClaimsFit(stored, w, todo[s], t)
  BY <1>1 DEF Outcome
<1>3. ProductsFit(stored, stored')
  BY <1>1, <1>2 DEF ProductsFit, ProductIds
<1>4. LinksFit(stored, stored')
  BY <1>1, <1>2 DEF LinksFit, LinksOf, ProductIds
<1>5. ClaimsFit(stored, stored', todo[s], t)
  <2>1. \A c : Backed(w, c) <=> Backed(stored', c)
    BY <1>1 DEF Backed, Backs, MintedIds
  <2>2. WellNamed(w) <=> WellNamed(stored')
    BY <1>1 DEF WellNamed, ClaimIds, MintedIds
  <2>3. Named(w, todo[s]) <=> Named(stored', todo[s])
    BY <1>1 DEF Named
  <2>4. ClaimIds(w) = ClaimIds(stored') /\ MintedIds(w) = MintedIds(stored')
    BY <1>1 DEF ClaimIds, MintedIds
  <2> QED
    BY <1>1, <1>2, <2>1, <2>2, <2>3, <2>4 DEF ClaimsFit
<1>6. ActFits(stored, stored', todo[s], t)
  <2>1. ActFits(stored, w, todo[s], t)
    BY <1>1 DEF Outcome
  <2>2. /\ Hidden(stored, w, t) => Hidden(stored, stored', t)
        /\ OneProduct(stored, w, t) => OneProduct(stored, stored', t)
        /\ Drafted(stored, w, t) => Drafted(stored, stored', t)
    BY <1>1 DEF Hidden, OneProduct, Drafted
  <2>3. Revised(stored, w, t) => Revised(stored, stored', t)
    BY <1>1 DEF Revised
  <2>4. Recorded(stored, w, t) => Recorded(stored, stored', t)
    BY <1>1 DEF Recorded, NewClaim
  <2>5. Decided(stored, w, t) => Decided(stored, stored', t)
    BY <1>1 DEF Decided
  <2>6. /\ Marked(stored, w, todo[s], t) => Marked(stored, stored', todo[s], t)
        /\ Corrected(stored, w, todo[s], t) => Corrected(stored, stored', todo[s], t)
    BY <1>1 DEF Marked, Corrected
  <2> QED
    BY <2>1, <2>2, <2>3, <2>4, <2>5, <2>6 DEF ActFits
<1> QED
  BY <1>3, <1>4, <1>5, <1>6

AllSound == \A p \in ProductIds(stored) : Sound(stored.products[p])

LEMMA SoundAlways == Spec => []AllSound
<1>1. Init => AllSound
  BY DEF Init, AllSound, EmptyWorkspace, ProductIds
<1>2. Types /\ AllSound /\ [Next]_vars => AllSound'
  <2> SUFFICES ASSUME Types, AllSound, [Next]_vars PROVE AllSound'
    OBVIOUS
  <2>1. CASE stored' = stored
    BY <2>1 DEF AllSound, ProductIds, Sound, Checksum, Active
  <2>2. ASSUME NEW s \in Sessions, NEW w, NEW t, Outcome(s, w, t) PROVE AllSound'
    <3>1. ProductsFit(stored, stored') /\ Len(stored.products) \in Nat
          /\ Len(stored'.products) \in Nat
      BY <2>2, FileFits, SaveFacts DEF Types, TypeOK, Workspace
    <3>2. \A p \in 1..Len(stored'.products) : Sound(stored'.products[p])
      <4> TAKE p \in 1..Len(stored'.products)
      <4>1. CASE p > Len(stored.products)
        BY <3>1, <4>1 DEF ProductsFit, ProductIds
      <4>2. CASE ~(p > Len(stored.products))
        <5>1. p \in ProductIds(stored)
          BY <3>1, <4>2 DEF ProductIds
        <5>2. ProductFits(stored.products[p], stored'.products[p])
          BY <3>1, <5>1 DEF ProductsFit
        <5> QED
          BY <5>1, <5>2 DEF AllSound, ProductFits
      <4> QED
        BY <4>1, <4>2
    <3> QED
      BY <3>2 DEF AllSound, ProductIds, Sound, Checksum, Active
  <2> QED
    BY <2>1, <2>2, OnlySavesWrite
<1> QED
  BY <1>1, <1>2, TypesAlways, PTL DEF Spec

\* No product is reviewed, approved or issued against its last reviewer.
THEOREM ReviewersAreHeard == Spec => []NoIssueAgainstTheReviewer
<1>1. AllSound => NoIssueAgainstTheReviewer
  BY DEF AllSound, Sound, NoIssueAgainstTheReviewer
<1> QED
  BY <1>1, SoundAlways, PTL

\* An issued product keeps its state, its sections and its seal, and the seal
\* stays true of the sections.
THEOREM IssuedStaysFrozen == Spec => IssuedIsFrozen
<1> DEFINE Step ==
       \A p \in ProductIds(stored) : stored.products[p].state = "issued" =>
          /\ p \in ProductIds(stored')
          /\ [stored'.products[p] EXCEPT !.exports = <<>>]
                = [stored.products[p] EXCEPT !.exports = <<>>]
          /\ stored'.products[p].seal = {Checksum(stored'.products[p])}
<1>1. Types /\ AllSound /\ [Next]_vars => [Step]_stored
  <2> SUFFICES ASSUME Types, AllSound, [Next]_vars, stored' # stored PROVE Step
    OBVIOUS
  <2>1. PICK s \in Sessions : \E w, t : Outcome(s, w, t)
    BY OnlySavesWrite
  <2>2. ProductsFit(stored, stored') /\ stored' \in Workspace /\ stored \in Workspace
    BY <2>1, FileFits, SaveFacts DEF Types, TypeOK
  <2> SUFFICES ASSUME NEW p \in ProductIds(stored), stored.products[p].state = "issued"
               PROVE  /\ p \in ProductIds(stored')
                      /\ [stored'.products[p] EXCEPT !.exports = <<>>]
                            = [stored.products[p] EXCEPT !.exports = <<>>]
                      /\ stored'.products[p].seal = {Checksum(stored'.products[p])}
    OBVIOUS
  <2>3. p \in ProductIds(stored')
    <3>1. Len(stored.products) \in Nat /\ Len(stored'.products) \in Nat
      BY <2>2 DEF Workspace
    <3> QED
      BY <2>2, <3>1 DEF ProductsFit, ProductIds
  <2>4. PICK a \in Product : a = stored.products[p]
    BY <2>2 DEF Workspace, ProductIds
  <2>5. PICK b \in Product : b = stored'.products[p]
    BY <2>2, <2>3 DEF Workspace, ProductIds
  <2>6. ProductFits(a, b) /\ Sound(a) /\ a.state = "issued"
    BY <2>2, <2>4, <2>5 DEF ProductsFit, AllSound
  <2>7. /\ b.state = a.state /\ b.revision = a.revision /\ b.sections = a.sections
        /\ b.verdict = a.verdict /\ b.seal = a.seal
    BY <2>6 DEF ProductFits
  <2>8. [b EXCEPT !.exports = <<>>] = [a EXCEPT !.exports = <<>>]
    BY <2>7 DEF Product
  <2>9. b.seal = {Checksum(b)}
    BY <2>6, <2>7 DEF ProductFits, Sound
  <2> QED
    BY <2>3, <2>4, <2>5, <2>8, <2>9
<1> QED
  BY <1>1, TypesAlways, SoundAlways, PTL DEF Spec, IssuedIsFrozen, Step

\* An export record never names what the product did not say.
THEOREM ExportsStayTrue == Spec => ExportsAreTrue
<1> DEFINE Step ==
       \A p \in ProductIds(stored) :
          /\ p \in ProductIds(stored')
          /\ stored'.products[p].exports \in
                {stored.products[p].exports,
                 Append(stored.products[p].exports, Checksum(stored.products[p]))}
<1>1. Types /\ [Next]_vars => [Step]_stored
  <2> SUFFICES ASSUME Types, [Next]_vars, stored' # stored PROVE Step
    OBVIOUS
  <2>1. PICK s \in Sessions : \E w, t : Outcome(s, w, t)
    BY OnlySavesWrite
  <2>2. /\ ProductsFit(stored, stored')
        /\ Len(stored.products) \in Nat /\ Len(stored'.products) \in Nat
    BY <2>1, FileFits, SaveFacts DEF Types, TypeOK, Workspace
  <2>3. \A p \in ProductIds(stored) : p \in ProductIds(stored')
    BY <2>2 DEF ProductsFit, ProductIds
  <2>4. \A p \in ProductIds(stored) : ProductFits(stored.products[p], stored'.products[p])
    BY <2>2 DEF ProductsFit
  <2> QED
    BY <2>3, <2>4 DEF ProductFits
<1> QED
  BY <1>1, TypesAlways, PTL DEF Spec, ExportsAreTrue, Step

\* RevisionsAreLinked, of any workspace.
Lineage(ws) ==
    /\ \A l \in LinksOf(ws) :
          /\ l.old \in ProductIds(ws) /\ l.new \in ProductIds(ws)
          /\ ws.products[l.old].state = "issued"
          /\ ws.products[l.new].revision = ws.products[l.old].revision + 1
    /\ \A p \in ProductIds(ws) : ws.products[p].revision > 1 =>
          \E l \in LinksOf(ws) : l.new = p /\ \A k \in LinksOf(ws) : k.new = p => k = l

LEMMA LineageIsLinked == Lineage(stored) <=> RevisionsAreLinked
<1>1. \A l : l \in LinksOf(stored) <=> l \in stored.links /\ l.of = "product"
  BY DEF LinksOf
<1> QED
  BY <1>1 DEF Lineage, RevisionsAreLinked

LEMMA LineageIsKept ==
    ASSUME NEW old \in Workspace, NEW new \in Workspace,
           ProductsFit(old, new), LinksFit(old, new), Lineage(old)
    PROVE  Lineage(new)
<1>1. Len(old.products) \in Nat /\ Len(new.products) \in Nat
  BY DEF Workspace
<1>2. \A p \in ProductIds(old) :
          /\ p \in ProductIds(new) /\ ~(p > Len(old.products))
          /\ new.products[p].revision = old.products[p].revision
          /\ old.products[p].state = "issued" => new.products[p].state = "issued"
  BY <1>1 DEF ProductsFit, ProductFits, ProductIds
<1>3. \A p \in ProductIds(new) : p \notin ProductIds(old) => p > Len(old.products)
  BY <1>1 DEF ProductIds
<1>4. CASE /\ LinksOf(new) = LinksOf(old)
           /\ \A p \in ProductIds(new) : p > Len(old.products) => new.products[p].revision = 1
  <2>1. \A l \in LinksOf(new) :
          /\ l.old \in ProductIds(new) /\ l.new \in ProductIds(new)
          /\ new.products[l.old].state = "issued"
          /\ new.products[l.new].revision = new.products[l.old].revision + 1
    BY <1>2, <1>4 DEF Lineage
  <2>2. ASSUME NEW p \in ProductIds(new), new.products[p].revision > 1
        PROVE  p \in ProductIds(old) /\ old.products[p].revision > 1
    <3>1. ~(1 > 1)
      OBVIOUS
    <3>2. p \in ProductIds(old)
      BY <1>3, <1>4, <2>2, <3>1
    <3> QED
      BY <1>2, <2>2, <3>2
  <2>3. ASSUME NEW p \in ProductIds(new), new.products[p].revision > 1
        PROVE  \E l \in LinksOf(new) : l.new = p /\ \A k \in LinksOf(new) : k.new = p => k = l
    BY <1>4, <2>2, <2>3 DEF Lineage
  <2> QED
    BY <2>1, <2>3 DEF Lineage
<1>5. ASSUME NEW p \in ProductIds(old),
             old.products[p].state = "issued",
             Len(new.products) = Len(old.products) + 1,
             new.products[Len(old.products) + 1].revision = old.products[p].revision + 1,
             LinksOf(new) = LinksOf(old) \cup
                {[of |-> "product", old |-> p, new |-> Len(old.products) + 1]}
      PROVE  Lineage(new)
  <2>1. PICK n : n = Len(old.products) + 1
    OBVIOUS
  <2>2. /\ n \in ProductIds(new) /\ n \notin ProductIds(old)
        /\ \A q \in ProductIds(new) : q \notin ProductIds(old) => q = n
    BY <1>1, <1>5, <2>1 DEF ProductIds
  <2>3. PICK link : link = [of |-> "product", old |-> p, new |-> n]
    OBVIOUS
  <2>4. /\ LinksOf(new) = LinksOf(old) \cup {link} /\ link.old = p /\ link.new = n
        /\ new.products[n].revision = old.products[p].revision + 1
    BY <1>5, <2>1, <2>3
  <2>5. ASSUME NEW l \in LinksOf(new)
        PROVE  /\ l.old \in ProductIds(new) /\ l.new \in ProductIds(new)
               /\ new.products[l.old].state = "issued"
               /\ new.products[l.new].revision = new.products[l.old].revision + 1
    <3>1. CASE l = link
      <4>1. p \in ProductIds(new) /\ new.products[p].state = "issued"
            /\ new.products[p].revision = old.products[p].revision
        BY <1>2, <1>5
      <4> QED
        BY <2>2, <2>4, <3>1, <4>1
    <3>2. CASE l \in LinksOf(old)
      BY <1>2, <3>2 DEF Lineage
    <3> QED
      BY <2>4, <2>5, <3>1, <3>2
  <2>6. ASSUME NEW q \in ProductIds(new), new.products[q].revision > 1
        PROVE  \E l \in LinksOf(new) : l.new = q /\ \A k \in LinksOf(new) : k.new = q => k = l
    <3>1. CASE q = n
      <4>1. \A k \in LinksOf(old) : k.new # n
        BY <2>2 DEF Lineage
      <4> QED
        BY <2>4, <3>1, <4>1
    <3>2. CASE q # n
      <4>1. q \in ProductIds(old) /\ old.products[q].revision > 1
        BY <1>2, <2>2, <2>6, <3>2
      <4>2. PICK l \in LinksOf(old) : l.new = q /\ \A k \in LinksOf(old) : k.new = q => k = l
        BY <4>1 DEF Lineage
      <4> QED
        BY <2>4, <3>2, <4>2
    <3> QED
      BY <3>1, <3>2
  <2> QED
    BY <2>5, <2>6 DEF Lineage
<1> QED
  BY <1>4, <1>5 DEF LinksFit

\* Every revision has its link and its issued predecessor, whatever becomes of
\* the request that made it.
THEOREM RevisionsStayLinked == Spec => []RevisionsAreLinked
<1>1. Init => Lineage(stored)
  BY DEF Init, Lineage, LinksOf, EmptyWorkspace, ProductIds
<1>2. Types /\ Lineage(stored) /\ [Next]_vars => Lineage(stored)'
  <2> SUFFICES ASSUME Types, Lineage(stored), [Next]_vars PROVE Lineage(stored')
    OBVIOUS
  <2>1. CASE stored' = stored
    BY <2>1
  <2>2. ASSUME NEW s \in Sessions, NEW w, NEW t, Outcome(s, w, t) PROVE Lineage(stored')
    <3>1. /\ stored \in Workspace /\ stored' \in Workspace
          /\ ProductsFit(stored, stored') /\ LinksFit(stored, stored')
      BY <2>2, FileFits, SaveFacts DEF Types, TypeOK
    <3> QED
      BY <3>1, LineageIsKept
  <2> QED
    BY <2>1, <2>2, OnlySavesWrite
<1> QED
  BY <1>1, <1>2, TypesAlways, LineageIsLinked, PTL DEF Spec

\* An adopted claim has the record it was adopted as.
THEOREM AdoptionStaysBacked == Spec => []AdoptionIsBacked
<1> DEFINE AllBacked == \A c \in ClaimIds(stored) : Backed(stored, c)
<1>1. Init => AllBacked
  BY DEF Init, EmptyWorkspace, ClaimIds
<1>2. Types /\ AllBacked /\ [Next]_vars => AllBacked'
  <2> SUFFICES ASSUME Types, AllBacked, [Next]_vars
               PROVE  \A c \in ClaimIds(stored') : Backed(stored', c)
    BY DEF ClaimIds, Backed, Backs, MintedIds
  <2>1. CASE stored' = stored
    BY <2>1
  <2>2. ASSUME NEW s \in Sessions, NEW w, NEW t, Outcome(s, w, t)
        PROVE  \A c \in ClaimIds(stored') : Backed(stored', c)
    <3>1. ClaimsFit(stored, stored', todo[s], t) /\ Len(stored.claims) \in Nat
          /\ Len(stored'.claims) \in Nat
      BY <2>2, FileFits, SaveFacts DEF Types, TypeOK, Workspace
    <3>2. \A c \in ClaimIds(stored') : c \in ClaimIds(stored) \/ c > Len(stored.claims)
      BY <3>1 DEF ClaimIds
    <3> QED
      BY <3>1, <3>2 DEF ClaimsFit
  <2> QED
    BY <2>1, <2>2, OnlySavesWrite
<1>3. AllBacked => AdoptionIsBacked
  BY DEF Backed, AdoptionIsBacked
<1> QED
  BY <1>1, <1>2, <1>3, TypesAlways, PTL DEF Spec

-----------------------------------------------------------------------------

\* The task of the session that minted record m.
TaskOf(ws, m) == [op |-> ws.minted[m].kind, id |-> ws.minted[m].claim, made |-> m]

\* Record m is named by its claim, or was followed by a later one that is.
NamedOnce(ws, m) ==
    \/ /\ ws.minted[m].kind = "observation"
       /\ ws.claims[ws.minted[m].claim].observation >= m
    \/ /\ ws.minted[m].kind = "finding"
       /\ ws.claims[ws.minted[m].claim].finding >= m

Accounted(m) ==
    \/ NamedOnce(stored, m)
    \/ \E s \in Sessions : todo[s] = TaskOf(stored, m)
    \/ TaskOf(stored, m) \in halves

LEMMA AccountedIsMinted == MintedIsAccountedFor <=> \A m \in MintedIds(stored) : Accounted(m)
BY DEF MintedIsAccountedFor, Accounted, NamedOnce, TaskOf

LEMMA MintedAreTyped ==
    ASSUME NEW ws \in Workspace, NEW m \in MintedIds(ws)
    PROVE  ws.minted[m].kind \in Kinds
<1>1. ws.minted[m] \in Minted
  BY DEF Workspace, MintedIds
<1> QED
  BY <1>1 DEF Minted

LEMMA NamedStays ==
    ASSUME NEW old \in Workspace, NEW new \in Workspace, NEW was, NEW task,
           WellNamed(old), ClaimsFit(old, new, was, task),
           NEW m \in MintedIds(old), NamedOnce(old, m)
    PROVE  NamedOnce(new, m)
<1>1. PICK c \in ClaimIds(old) : c = old.minted[m].claim
  BY DEF WellNamed
<1>2. new.minted[m] = old.minted[m] /\ m \in Nat
  BY DEF ClaimsFit, MintedIds
<1>3. /\ new.claims[c].observation >= old.claims[c].observation
      /\ new.claims[c].finding >= old.claims[c].finding
  BY DEF ClaimsFit
<1>4. /\ old.claims[c].observation \in Nat /\ old.claims[c].finding \in Nat
  BY ClaimNamesNumbers
<1>5. c \in ClaimIds(new)
  <2>1. Len(old.claims) <= Len(new.claims) /\ Len(old.claims) \in Nat /\ Len(new.claims) \in Nat
    BY DEF ClaimsFit, Workspace
  <2> QED
    BY <2>1 DEF ClaimIds
<1>6. new.claims[c].observation \in Nat /\ new.claims[c].finding \in Nat
  BY <1>5, ClaimNamesNumbers
<1>7. CASE old.minted[m].kind = "observation" /\ old.claims[c].observation >= m
  <2>1. new.claims[c].observation >= m
    BY <1>2, <1>3, <1>4, <1>6, <1>7
  <2> QED
    BY <1>1, <1>2, <1>7, <2>1 DEF NamedOnce
<1>8. CASE old.minted[m].kind = "finding" /\ old.claims[c].finding >= m
  <2>1. new.claims[c].finding >= m
    BY <1>2, <1>3, <1>4, <1>6, <1>8
  <2> QED
    BY <1>1, <1>2, <1>8, <2>1 DEF NamedOnce
<1> QED
  BY <1>1, <1>7, <1>8 DEF NamedOnce

LEMMA AccountedStays ==
    ASSUME Types, NEW s \in Sessions, NEW w, NEW t, Outcome(s, w, t),
           NEW m \in MintedIds(stored), Accounted(m)
    PROVE  Accounted(m)'
<1>1. /\ ClaimsFit(stored, stored', todo[s], t) /\ halves' = halves
      /\ \A r \in Sessions \ {s} : todo'[r] = todo[r]
      /\ stored \in Workspace /\ stored' \in Workspace /\ WellNamed(stored)
  BY FileFits, SaveFacts DEF Types, TypeOK
<1>2. stored'.minted[m] = stored.minted[m]
  BY <1>1 DEF ClaimsFit
<1>3. CASE NamedOnce(stored, m)
  <2>1. NamedOnce(stored', m)
    BY <1>1, <1>3, NamedStays
  <2> QED
    BY <2>1 DEF Accounted, NamedOnce
<1>4. CASE todo[s] = TaskOf(stored, m)
  <2>1. Named(stored', todo[s])
    BY <1>1 DEF ClaimsFit
  <2>2. stored.minted[m].kind \in Kinds
    BY <1>1, MintedAreTyped
  <2>3. NamedOnce(stored', m)
    BY <1>2, <1>4, <2>1, <2>2 DEF TaskOf, Named, NamedOnce, Kinds
  <2> QED
    BY <2>3 DEF Accounted, NamedOnce
<1>5. ASSUME NEW r \in Sessions \ {s}, todo[r] = TaskOf(stored, m) PROVE Accounted(m)'
  BY <1>1, <1>2, <1>5 DEF Accounted, TaskOf
<1>6. CASE TaskOf(stored, m) \in halves
  BY <1>1, <1>2, <1>6 DEF Accounted, TaskOf
<1> QED
  BY <1>3, <1>4, <1>5, <1>6 DEF Accounted

\* Every record minted from a claim is named, followed, about to be named, or
\* left by a request that ended between its two saves.
THEOREM MintedStaysAccountedFor == Spec => []MintedIsAccountedFor
<1> DEFINE All == \A m \in MintedIds(stored) : Accounted(m)
<1>1. Init => All
  BY DEF Init, EmptyWorkspace, MintedIds
<1>2. Types /\ All /\ [Next]_vars => All'
  <2> SUFFICES ASSUME Types, All, [Next]_vars
               PROVE  \A m \in MintedIds(stored') : Accounted(m)'
    BY DEF MintedIds
  <2>1. CASE UNCHANGED vars
    BY <2>1 DEF vars, Accounted, NamedOnce, TaskOf, MintedIds
  <2>2. ASSUME NEW s \in Sessions, NEW w, NEW t, Outcome(s, w, t)
        PROVE  \A m \in MintedIds(stored') : Accounted(m)'
    <3>1. /\ ClaimsFit(stored, stored', todo[s], t) /\ todo'[s] = t
          /\ stored \in Workspace /\ stored' \in Workspace
      BY <2>2, FileFits, SaveFacts DEF Types, TypeOK
    <3> TAKE m \in MintedIds(stored')
    <3>2. m \in MintedIds(stored) \/ m > Len(stored.minted)
      BY <3>1 DEF MintedIds, Workspace
    <3>3. CASE m \in MintedIds(stored)
      BY <2>2, <3>3, AccountedStays
    <3>4. CASE m > Len(stored.minted)
      <4>1. t = TaskOf(stored', m)
        BY <3>1, <3>4 DEF ClaimsFit, TaskOf
      <4> QED
        BY <3>1, <4>1 DEF Accounted, TaskOf
    <3> QED
      BY <3>2, <3>3, <3>4
  <2>3. ASSUME NEW s \in Sessions, BeginRoute(s)
        PROVE  \A m \in MintedIds(stored') : Accounted(m)'
    BY <2>3 DEF BeginRoute, Load, Accounted, NamedOnce, TaskOf, MintedIds
  <2>4. ASSUME NEW s \in Sessions, EndRoute(s)
        PROVE  \A m \in MintedIds(stored') : Accounted(m)'
    <3>1. /\ stored' = stored /\ halves \subseteq halves'
          /\ \A r \in Sessions \ {s} : todo'[r] = todo[r]
          /\ todo[s] # NoTask => todo[s] \in halves'
      BY <2>4 DEF EndRoute, GiveUp, Types, TypeOK
    <3> TAKE m \in MintedIds(stored')
    <3>2. stored.minted[m].kind \in Kinds
      BY <3>1, MintedAreTyped DEF Types, TypeOK
    <3>3. TaskOf(stored, m) # NoTask
      BY <3>2 DEF TaskOf, NoTask, Kinds
    <3>4. Accounted(m)
      BY <3>1
    <3> QED
      BY <3>1, <3>3, <3>4 DEF Accounted, NamedOnce, TaskOf
  <2> QED
    BY <2>1, <2>2, <2>3, <2>4, EveryStep
<1> QED
  BY <1>1, <1>2, AccountedIsMinted, TypesAlways, PTL DEF Spec

-----------------------------------------------------------------------------
(***************************************************************************)
(* The promise: every step is one act on what is there now.                *)
(***************************************************************************)

\* No correction is linked to a claim that is yet to come.
LinksNamed == \A l \in stored.links : l.of = "claim" => l.new \in ClaimIds(stored)

\* What the second save of a task needs to be an act of its own: the record is
\* still named by no claim; the correction is still the last claim, as it was
\* recorded, and corrects nothing yet.
Stands(ws, t) ==
    /\ t.op \in Kinds =>
          \A c \in ClaimIds(ws) : t.made \notin {ws.claims[c].observation, ws.claims[c].finding}
    /\ t.op = "correct" =>
          /\ t.id \in 1..(Len(ws.claims) - 1) /\ t.made = Len(ws.claims)
          /\ ws.claims[t.made] = NewClaim
          /\ \A l \in ws.links : l.of = "claim" => l.new # t.made

TasksStand == \A s \in Sessions : Stands(held[s], todo[s])

\* What the file shows of its products.
ShownProducts(ws) == [p \in ProductIds(ws) |-> Shown(ws.products[p])]

\* A list of products is shown as a list.
LEMMA ShownIsList ==
    ASSUME NEW ws \in Workspace
    PROVE  /\ ShownProducts(ws) \in Seq({Shown(wp) : wp \in Product})
           /\ Len(ShownProducts(ws)) = Len(ws.products)
           /\ DOMAIN ShownProducts(ws) = ProductIds(ws)
           /\ \A p \in ProductIds(ws) : ShownProducts(ws)[p] = Shown(ws.products[p])
<1>1. Len(ws.products) \in Nat /\ \A p \in 1..Len(ws.products) : ws.products[p] \in Product
  BY DEF Workspace
<1>2. PICK n \in Nat : n = Len(ws.products)
  BY <1>1
<1>3. PICK f : f = ShownProducts(ws)
  OBVIOUS
<1>4. f \in [1..n -> {Shown(wp) : wp \in Product}]
  BY <1>1, <1>2, <1>3 DEF ShownProducts, ProductIds
<1>5. f \in Seq({Shown(wp) : wp \in Product}) /\ Len(f) = n
  BY <1>4
<1> QED
  BY <1>2, <1>3, <1>5 DEF ShownProducts, ProductIds

\* One product changes, and so does what is shown of it.
LEMMA ShownChange ==
    ASSUME NEW old \in Workspace, NEW new \in Workspace, NEW p \in ProductIds(old), NEW k,
           new.products = [old.products EXCEPT ![p] = k]
    PROVE  ShownProducts(new) = [ShownProducts(old) EXCEPT ![p] = Shown(k)]
<1>1. /\ old.products \in Seq(Product) /\ Len(old.products) \in Nat
      /\ p \in 1..Len(old.products)
  BY DEF Workspace, ProductIds
<1>2. /\ DOMAIN old.products = 1..Len(old.products)
      /\ new.products = [d \in 1..Len(old.products) |->
                            IF d = p THEN k ELSE old.products[d]]
  BY <1>1
<1>3. Len(new.products) = Len(old.products)
  BY <1>1, <1>2
<1> QED
  BY <1>1, <1>2, <1>3 DEF ShownProducts, ProductIds

\* A product is added, and so is what is shown of it.
LEMMA ShownAdd ==
    ASSUME NEW old \in Workspace, NEW new \in Workspace, NEW k \in Product,
           new.products = Append(old.products, k)
    PROVE  ShownProducts(new) = Append(ShownProducts(old), Shown(k))
<1> DEFINE S == {Shown(wp) : wp \in Product}
<1>1. old.products \in Seq(Product) /\ Len(old.products) \in Nat
  BY DEF Workspace
<1>2. /\ Len(new.products) = Len(old.products) + 1
      /\ new.products[Len(old.products) + 1] = k
      /\ \A p \in 1..Len(old.products) : new.products[p] = old.products[p]
  BY <1>1, AppendProperties
<1>3. PICK n \in Nat : n = Len(old.products)
  BY <1>1
<1>4. PICK a \in Seq(S) : /\ a = ShownProducts(old) /\ Len(a) = n
                          /\ \A p \in 1..n : a[p] = Shown(old.products[p])
  BY <1>3, ShownIsList DEF ProductIds
<1>5. PICK b \in Seq(S) : /\ b = ShownProducts(new) /\ Len(b) = n + 1
                          /\ \A p \in 1..(n + 1) : b[p] = Shown(new.products[p])
  BY <1>2, <1>3, ShownIsList DEF ProductIds
<1>6. PICK x \in S : x = Shown(k)
  OBVIOUS
<1> HIDE DEF S
<1>7. PICK c \in Seq(S) : c = Append(a, x)
  BY AppendProperties
<1>10. /\ Len(c) = n + 1 /\ c[n + 1] = x
       /\ \A p \in 1..n : c[p] = a[p]
  BY <1>4, <1>7, AppendProperties
<1>8. \A p \in 1..(n + 1) : b[p] = c[p]
  <2> TAKE p \in 1..(n + 1)
  <2>1. CASE p = n + 1
    BY <1>2, <1>3, <1>5, <1>6, <1>10, <2>1
  <2>2. CASE p # n + 1
    <3>1. p \in 1..n
      BY <2>2
    <3> QED
      BY <1>2, <1>3, <1>4, <1>5, <1>10, <3>1
  <2> QED
    BY <2>1, <2>2
<1>9. b = c
  BY <1>5, <1>7, <1>8, <1>10, SeqEqual
<1> QED
  BY <1>4, <1>5, <1>6, <1>7, <1>9

PromiseInv == Types /\ AllSound /\ LinksNamed /\ TasksStand

\* What the file shows before and after a step, as one value each.
LEMMA Pictures ==
    \E P, Q : /\ P = ShownProducts(stored) /\ Q = ShownProducts(stored')
              /\ P = [p \in ProductIds(stored) |-> Shown(stored.products[p])]
              /\ Q = [p \in ProductIds(stored) |-> Shown(stored.products[p])]'
BY DEF ShownProducts, ProductIds, Shown, Checksum, Active

\* What is shown is what is written, and once issued it is what was sealed.
LEMMA ShownSays ==
    ASSUME NEW wp, Sound(wp)
    PROVE  /\ Shown(wp).state = wp.state /\ Shown(wp).exports = wp.exports
           /\ Shown(wp).says = Checksum(wp)
           /\ Shown(wp) = [state |-> wp.state, says |-> Checksum(wp), exports |-> wp.exports]
<1>1. wp.state = "issued" => (CHOOSE sum \in wp.seal : TRUE) = Checksum(wp)
  <2> SUFFICES ASSUME wp.state = "issued"
               PROVE  (CHOOSE sum \in wp.seal : TRUE) = Checksum(wp)
    OBVIOUS
  <2>1. wp.seal = {Checksum(wp)}
    BY DEF Sound
  <2>2. \E sum : sum \in wp.seal
    BY <2>1
  <2>3. (CHOOSE sum : sum \in wp.seal /\ TRUE) \in wp.seal
    BY <2>2
  <2> QED
    BY <2>1, <2>3
<1> QED
  BY <1>1 DEF Shown

\* One act on one product.
LEMMA ProductAct ==
    ASSUME PromiseInv, stored' \in Workspace, NEW t, OneProduct(stored, stored', t),
           AllSound'
    PROVE  [Promise!Next]_(Promise!practice)
<1>1. stored \in Workspace
  BY DEF PromiseInv, Types, TypeOK
<1>2. PICK p \in ProductIds(stored), k \in Product :
          /\ stored'.products = [stored.products EXCEPT ![p] = k]
          /\ Acted(stored.products[p], k)
  BY DEF OneProduct
<1>3. PICK P, Q :
          /\ P = ShownProducts(stored) /\ Q = ShownProducts(stored')
          /\ P = [d \in ProductIds(stored) |-> Shown(stored.products[d])]
          /\ Q = [d \in ProductIds(stored) |-> Shown(stored.products[d])]'
  BY Pictures
<1>4. PICK wp \in Product : wp = stored.products[p] /\ Sound(wp)
  BY <1>1 DEF Workspace, ProductIds, PromiseInv, AllSound
<1>5. p \in DOMAIN P /\ P[p] = Shown(wp) /\ DOMAIN P = ProductIds(stored)
  BY <1>1, <1>3, <1>4, ShownIsList
<1>6. Q = [P EXCEPT ![p] = Shown(k)]
  <2>1. ShownProducts(stored') = [ShownProducts(stored) EXCEPT ![p] = Shown(k)]
    BY <1>1, <1>2, ShownChange
  <2> QED
    BY <1>3, <2>1
<1>7. Sound(k)
  <2>1. /\ DOMAIN stored.products = 1..Len(stored.products)
        /\ Len(stored.products) \in Nat
    BY <1>1 DEF Workspace
  <2>2. stored'.products[p] = k /\ p \in ProductIds(stored')
    BY <1>2, <2>1 DEF ProductIds
  <2> QED
    BY <2>2 DEF AllSound, ProductIds, Sound, Checksum, Active
<1>8. stored'.claims = stored.claims /\ stored'.links = stored.links
  BY DEF OneProduct
<1>9. PICK a : /\ a = Shown(wp) /\ a.state = wp.state /\ a.exports = wp.exports
               /\ a = [state |-> wp.state, says |-> a.says, exports |-> wp.exports]
               /\ a.says = Checksum(wp)
  BY <1>4, ShownSays
<1>10. PICK b : /\ b = Shown(k) /\ b.state = k.state /\ b.exports = k.exports
                /\ b = [state |-> k.state, says |-> b.says, exports |-> k.exports]
                /\ b.says = Checksum(k)
  BY <1>7, ShownSays
<1>11. k.sections = wp.sections => a.says = b.says
  BY <1>9, <1>10 DEF Checksum, Active
<1>12. P[p] = a /\ Q[p] = b /\ Q = [P EXCEPT ![p] = b]
  BY <1>5, <1>6, <1>9, <1>10
<1>13. CASE Edits(wp, k)
  <2>1. a.state # "issued" /\ b = [a EXCEPT !.says = b.says]
    BY <1>9, <1>10, <1>13 DEF Edits, Editable
  <2>2. P[p].state # "issued" /\ Q = [P EXCEPT ![p].says = Q[p].says]
    BY <1>12, <2>1
  <2>3. Promise!Edit(p)
    BY ONLY <1>3, <1>8, <2>2 DEF Promise!Edit
  <2> QED
    BY <1>3, <1>5, <2>3 DEF Promise!Next
<1>14. CASE Reviews(wp, k)
  <2>1. PICK d \in {"reviewed", "revisions_required"} : k.state = d
    BY <1>14 DEF Reviews, ReviewDecisions
  <2>2. a.state # "issued" /\ b = [a EXCEPT !.state = d]
    BY <1>9, <1>10, <1>11, <1>14, <2>1 DEF Reviews, Editable
  <2>3. P[p].state # "issued" /\ Q = [P EXCEPT ![p].state = d]
    BY <1>12, <2>2
  <2>4. Promise!Review(p, d)
    BY ONLY <1>3, <1>8, <2>3 DEF Promise!Review
  <2> QED
    BY <1>3, <1>5, <2>1, <2>4 DEF Promise!Next
<1>15. CASE Approves(wp, k)
  <2>1. a.state = "reviewed" /\ b = [a EXCEPT !.state = "approved_for_issue"]
    BY <1>9, <1>10, <1>11, <1>15 DEF Approves
  <2>2. P[p].state = "reviewed" /\ Q = [P EXCEPT ![p].state = "approved_for_issue"]
    BY <1>12, <2>1
  <2>3. Promise!Approve(p)
    BY ONLY <1>3, <1>8, <2>2 DEF Promise!Approve
  <2> QED
    BY <1>3, <1>5, <2>3 DEF Promise!Next
<1>16. CASE Issues(wp, k)
  <2>1. a.state = "approved_for_issue" /\ b = [a EXCEPT !.state = "issued"]
    BY <1>9, <1>10, <1>11, <1>16 DEF Issues
  <2>2. P[p].state = "approved_for_issue" /\ Q = [P EXCEPT ![p].state = "issued"]
    BY <1>12, <2>1
  <2>3. Promise!Issue(p)
    BY ONLY <1>3, <1>8, <2>2 DEF Promise!Issue
  <2> QED
    BY <1>3, <1>5, <2>3 DEF Promise!Next
<1>17. CASE Exports(wp, k)
  <2>1. b = [a EXCEPT !.exports = Append(a.exports, a.says)]
    BY <1>9, <1>10, <1>11, <1>17 DEF Exports
  <2>2. Q = [P EXCEPT ![p].exports = Append(P[p].exports, P[p].says)]
    BY <1>12, <2>1
  <2>3. Promise!Export(p)
    BY ONLY <1>3, <1>8, <2>2 DEF Promise!Export
  <2> QED
    BY <1>3, <1>5, <2>3 DEF Promise!Next
<1> QED
  BY <1>2, <1>4, <1>13, <1>14, <1>15, <1>16, <1>17 DEF Acted

\* A product that is drafted, from nothing or from what was issued.
LEMMA DraftAct ==
    ASSUME PromiseInv, stored' \in Workspace, NEW t,
           Drafted(stored, stored', t) \/ Revised(stored, stored', t)
    PROVE  [Promise!Next]_(Promise!practice)
<1>1. stored \in Workspace /\ stored.products \in Seq(Product)
      /\ Len(stored.products) \in Nat
  BY DEF PromiseInv, Types, TypeOK, Workspace
<1>2. PICK P, Q :
          /\ P = ShownProducts(stored) /\ Q = ShownProducts(stored')
          /\ P = [d \in ProductIds(stored) |-> Shown(stored.products[d])]
          /\ Q = [d \in ProductIds(stored) |-> Shown(stored.products[d])]'
  BY Pictures
<1>3. \A n, secs : /\ Sound(NewProduct(n, secs)) /\ NewProduct(n, secs).sections = secs
                   /\ NewProduct(n, secs).state = "draft" /\ NewProduct(n, secs).exports = <<>>
  BY DEF NewProduct, Sound
<1>4. CASE Drafted(stored, stored', t)
  <2>1. PICK k \in Product : /\ k = NewProduct(1, <<>>) /\ Sound(k) /\ k.sections = <<>>
                             /\ k.state = "draft" /\ k.exports = <<>>
    <3>1. 1 \in Nat /\ <<>> \in Seq(Section)
      OBVIOUS
    <3>2. NewProduct(1, <<>>) \in Product
      BY <3>1, DraftIsTyped
    <3> QED
      BY <1>3, <3>2
  <2>2. Checksum(k) = {}
    BY <2>1 DEF Checksum, Active
  <2>3. Shown(k) = [state |-> "draft", says |-> {}, exports |-> <<>>]
    BY <2>1, <2>2, ShownSays
  <2>4. Q = Append(P, [state |-> "draft", says |-> {}, exports |-> <<>>])
    <3>1. stored'.products = Append(stored.products, k)
      BY <1>4, <2>1 DEF Drafted
    <3>2. ShownProducts(stored') = Append(ShownProducts(stored), Shown(k))
      BY <1>1, <3>1, ShownAdd
    <3> QED
      BY <1>2, <2>3, <3>2
  <2>5. stored'.claims = stored.claims /\ stored'.links = stored.links
    BY <1>4 DEF Drafted
  <2>6. Promise!Draft
    BY ONLY <1>2, <2>4, <2>5 DEF Promise!Draft
  <2> QED
    BY <2>6 DEF Promise!Next
<1>5. CASE Revised(stored, stored', t)
  <2>1. PICK p \in ProductIds(stored) :
          /\ stored.products[p].state = "issued"
          /\ stored'.products = Append(stored.products,
                 NewProduct(stored.products[p].revision + 1, stored.products[p].sections))
          /\ stored'.links = stored.links \cup
                 {[of |-> "product", old |-> p, new |-> Len(stored.products) + 1]}
    BY <1>5 DEF Revised
  <2>2. PICK wp \in Product : wp = stored.products[p] /\ Sound(wp)
    BY <1>1 DEF ProductIds, PromiseInv, AllSound
  <2>3. PICK k \in Product :
          /\ k = NewProduct(wp.revision + 1, wp.sections) /\ Sound(k)
          /\ k.sections = wp.sections /\ k.state = "draft" /\ k.exports = <<>>
    <3>1. wp.revision + 1 \in Nat /\ wp.sections \in Seq(Section)
      BY DEF Product
    <3> QED
      BY <1>3, <3>1, DraftIsTyped
  <2>4. Checksum(k) = Checksum(wp)
    BY <2>3 DEF Checksum, Active
  <2>5. /\ P[p].state = "issued" /\ p \in DOMAIN P /\ Len(P) = Len(stored.products)
        /\ P[p] = [state |-> wp.state, says |-> Checksum(wp), exports |-> wp.exports]
    BY <1>1, <1>2, <2>1, <2>2, ShownIsList, ShownSays
  <2>6. Shown(k) = [P[p] EXCEPT !.state = "draft", !.exports = <<>>]
    <3>1. Shown(k) = [state |-> "draft", says |-> Checksum(wp), exports |-> <<>>]
      BY <2>3, <2>4, ShownSays
    <3>2. PICK says : says = Checksum(wp)
      OBVIOUS
    <3>3. PICK a : /\ a = P[p]
                   /\ a = [state |-> wp.state, says |-> says, exports |-> wp.exports]
      BY <2>5, <3>2
    <3>4. [a EXCEPT !.state = "draft", !.exports = <<>>]
              = [state |-> "draft", says |-> says, exports |-> <<>>]
      <4>1. PICK b : b = [state |-> "draft", says |-> says, exports |-> wp.exports]
        OBVIOUS
      <4>2. b = [a EXCEPT !.state = "draft"]
        BY ONLY <3>3, <4>1
      <4>3. [b EXCEPT !.exports = <<>>] = [state |-> "draft", says |-> says, exports |-> <<>>]
        BY ONLY <4>1
      <4> QED
        BY <4>2, <4>3, Zenon
    <3> QED
      BY <3>1, <3>2, <3>3, <3>4
  <2>7. Q = Append(P, [P[p] EXCEPT !.state = "draft", !.exports = <<>>])
    <3>1. stored'.products = Append(stored.products, k)
      BY <2>1, <2>2, <2>3
    <3>2. ShownProducts(stored') = Append(ShownProducts(stored), Shown(k))
      BY <1>1, <3>1, ShownAdd
    <3> QED
      BY <1>2, <2>6, <3>2
  <2>8. /\ stored'.claims = stored.claims
        /\ stored'.links = stored.links \cup
               {[of |-> "product", old |-> p, new |-> Len(P) + 1]}
    BY <1>5, <2>1, <2>5 DEF Revised
  <2>9. Promise!Revise(p)
    BY ONLY <1>2, <2>5, <2>7, <2>8 DEF Promise!Revise
  <2> QED
    BY <1>2, <2>5, <2>9 DEF Promise!Next
<1> QED
  BY <1>4, <1>5

\* What is shown of the products stays while they stay.
LEMMA SamePicture ==
    ASSUME stored'.products = stored.products
    PROVE  [p \in ProductIds(stored) |-> Shown(stored.products[p])]'
               = [p \in ProductIds(stored) |-> Shown(stored.products[p])]
BY DEF ProductIds, Shown, Checksum, Active

\* What the second save of session s finds.
LEMMA StandsNow ==
    ASSUME PromiseInv, NEW s \in Sessions, held[s] = stored
    PROVE  Stands(stored, todo[s])
BY DEF PromiseInv, TasksStand

\* An act on a claim.
LEMMA ClaimAct ==
    ASSUME PromiseInv, stored' \in Workspace, NEW s \in Sessions, held[s] = stored, NEW t,
           \/ Recorded(stored, stored', t) \/ Marked(stored, stored', todo[s], t)
           \/ Decided(stored, stored', t) \/ Corrected(stored, stored', todo[s], t)
    PROVE  [Promise!Next]_(Promise!practice)
<1>1. stored \in Workspace /\ stored.claims \in Seq(Claim) /\ Len(stored.claims) \in Nat
      /\ DOMAIN stored.claims = ClaimIds(stored)
  BY DEF PromiseInv, Types, TypeOK, Workspace, ClaimIds
<1>2. PICK was \in Task : was = todo[s] /\ Stands(stored, was)
  BY StandsNow DEF PromiseInv, Types, TypeOK
<1>3. stored'.products = stored.products
  BY <1>2 DEF Recorded, Marked, Decided, Corrected
<1>4. CASE Recorded(stored, stored', t)
  <2>1. /\ stored'.links = stored.links
        /\ stored'.claims = Append(stored.claims,
               [state |-> "proposed", observation |-> 0, finding |-> 0])
    BY <1>4 DEF Recorded, NewClaim
  <2>2. Promise!Record
    BY <1>3, <2>1, SamePicture DEF Promise!Record, Promise!NewClaim
  <2> QED
    BY <2>2 DEF Promise!Next
<1>5. CASE Decided(stored, stored', t)
  <2>1. PICK c \in ClaimIds(stored), d \in Refusals :
            stored'.claims = [stored.claims EXCEPT ![c] = [stored.claims[c] EXCEPT !.state = d]]
    BY <1>5 DEF Decided
  <2>2. stored'.links = stored.links
    BY <1>5 DEF Decided
  <2>3. Promise!Decide(c, d)
    BY <1>3, <2>1, <2>2, SamePicture DEF Promise!Decide
  <2> QED
    BY <1>1, <2>3 DEF Promise!Next
<1>6. CASE Corrected(stored, stored', was, t)
  <2>1. /\ stored'.claims = stored.claims /\ was.op = "correct"
        /\ stored'.links = stored.links \cup
               {[of |-> "claim", old |-> was.id, new |-> was.made]}
    BY <1>6 DEF Corrected
  <2>2. /\ was.id \in 1..(Len(stored.claims) - 1) /\ was.made = Len(stored.claims)
        /\ stored.claims[was.made] = NewClaim
        /\ \A l \in stored.links : l.of = "claim" => l.new # was.made
    BY <1>2, <2>1 DEF Stands
  <2>3. was.id \in ClaimIds(stored) /\ was.id < Len(stored.claims)
    BY <1>1, <2>2 DEF ClaimIds
  <2>4. Promise!Correct(was.id)
    BY <1>3, <2>1, <2>2, <2>3, SamePicture DEF Promise!Correct, Promise!NewClaim, NewClaim
  <2> QED
    BY <1>1, <2>3, <2>4 DEF Promise!Next
<1>7. CASE Marked(stored, stored', was, t)
  <2>1. /\ stored'.links = stored.links /\ was.op \in Kinds /\ was.id \in ClaimIds(stored)
        /\ stored'.claims = [stored.claims EXCEPT ![was.id] =
               Adopted(stored.claims[was.id], was.op, was.made)]
    BY <1>7 DEF Marked
  <2>2. \A c \in ClaimIds(stored) :
            was.made \notin {stored.claims[c].observation, stored.claims[c].finding}
    BY <1>2, <2>1 DEF Stands
  <2>3. was.made # 0
    <3>1. was.made \in MintedIds(stored)
      BY <1>2, <2>1 DEF PromiseInv, Types, TasksFit, Ready, Backs
    <3> QED
      BY <3>1 DEF MintedIds
  <2>4. Promise!Adopt(was.id, was.op, was.made)
    BY <1>1, <1>3, <2>1, <2>2, <2>3, SamePicture DEF Promise!Adopt, Adopted
  <2>5. was.made \in {stored'.claims[was.id].observation, stored'.claims[was.id].finding}
    <3>1. PICK claim \in Claim : claim = stored.claims[was.id]
      BY <1>1, <2>1 DEF ClaimIds
    <3>2. stored'.claims[was.id] = Adopted(claim, was.op, was.made)
      BY <1>1, <2>1, <3>1
    <3>3. was.made \in {Adopted(claim, was.op, was.made).observation,
                        Adopted(claim, was.op, was.made).finding}
      BY <2>1 DEF Adopted, Kinds, Claim
    <3> QED
      BY <3>2, <3>3
  <2> QED
    BY <1>1, <2>1, <2>4, <2>5 DEF Promise!Next
<1> QED
  BY <1>2, <1>4, <1>5, <1>6, <1>7

\* Nothing of what is shown changes.
LEMMA HiddenAct ==
    ASSUME stored'.products = stored.products, stored'.claims = stored.claims,
           stored'.links = stored.links
    PROVE  UNCHANGED Promise!practice
BY SamePicture DEF Promise!practice

\* A link is named after what is there.
LEMMA LinksStay ==
    ASSUME PromiseInv, NEW s \in Sessions, NEW w, NEW t, Outcome(s, w, t)
    PROVE  LinksNamed'
<1>1. /\ held[s] = stored /\ stored' \in Workspace /\ stored \in Workspace
      /\ ClaimsFit(stored, stored', todo[s], t) /\ ActFits(stored, stored', todo[s], t)
  BY SaveFacts, FileFits DEF PromiseInv, Types, TypeOK
<1>2. \A c : c \in 1..Len(stored.claims) => c \in 1..Len(stored'.claims)
  BY <1>1 DEF Workspace, ClaimsFit
<1>3. \A l \in stored.links : l.of = "claim" => l.new \in 1..Len(stored.claims)
  BY DEF PromiseInv, LinksNamed, ClaimIds
<1> SUFFICES ASSUME NEW l \in stored'.links, l.of = "claim"
             PROVE  l.new \in 1..Len(stored'.claims)
  BY DEF LinksNamed, ClaimIds
<1>4. CASE l \in stored.links
  BY <1>2, <1>3, <1>4
<1>5. CASE l \notin stored.links
  <2>1. ~Revised(stored, stored', t)
    BY <1>5 DEF Revised
  <2>2. PICK was \in Task : was = todo[s] /\ Stands(stored, was)
    BY <1>1, StandsNow DEF PromiseInv, Types, TypeOK
  <2>3. Corrected(stored, stored', was, t)
    BY <1>1, <1>5, <2>1, <2>2 DEF ActFits, Hidden, OneProduct, Drafted, Recorded, Marked,
                                Decided
  <2>4. was.op = "correct" /\ l = [of |-> "claim", old |-> was.id, new |-> was.made]
    BY <1>5, <2>3 DEF Corrected
  <2>5. was.id \in 1..(Len(stored.claims) - 1) /\ was.made = Len(stored.claims)
    BY <2>2, <2>4 DEF Stands
  <2>6. Len(stored.claims) \in Nat
    BY <1>1 DEF Workspace
  <2> QED
    BY <1>2, <2>4, <2>5, <2>6
<1> QED
  BY <1>4, <1>5

\* What a save leaves to be done can be done.
LEMMA TaskStands ==
    ASSUME PromiseInv, NEW s \in Sessions, NEW w, NEW t, Outcome(s, w, t), t # NoTask
    PROVE  Stands(stored', t)
<1>1. /\ held[s] = stored /\ stored' \in Workspace /\ stored \in Workspace
      /\ WellNamed(stored) /\ t \in Task
      /\ ActFits(stored, stored', todo[s], t)
  BY SaveFacts, FileFits DEF PromiseInv, Types, TypeOK, Outcome
<1>2. /\ stored.claims \in Seq(Claim) /\ Len(stored.claims) \in Nat /\ Len(stored.minted) \in Nat
      /\ stored.minted \in Seq(Minted)
  BY <1>1 DEF Workspace
<1>3. CASE Hidden(stored, stored', t)
  <2>1. t.op \in Kinds /\ t.made = Len(stored.minted) + 1 /\ stored'.claims = stored.claims
    BY <1>3 DEF Hidden
  <2>2. \A c \in ClaimIds(stored) :
            t.made \notin {stored.claims[c].observation, stored.claims[c].finding}
    BY <1>1, <1>2, <2>1 DEF WellNamed
  <2> QED
    BY <2>1, <2>2 DEF Stands, Kinds, ClaimIds
<1>4. CASE Revised(stored, stored', t)
  BY <1>4 DEF Revised, Stands, Kinds
<1>5. CASE Recorded(stored, stored', t)
  <2>1. /\ t.op = "correct" /\ t.id \in 1..Len(stored.claims)
        /\ t.made = Len(stored.claims) + 1 /\ stored'.links = stored.links
        /\ stored'.claims = Append(stored.claims, NewClaim)
    BY <1>5 DEF Recorded, ClaimIds
  <2>2. Len(stored'.claims) = Len(stored.claims) + 1 /\ stored'.claims[t.made] = NewClaim
    BY <1>2, <2>1, NewClaimIsTyped, AppendProperties
  <2>3. \A l \in stored.links : l.of = "claim" => l.new \in 1..Len(stored.claims)
    BY DEF PromiseInv, LinksNamed, ClaimIds
  <2>4. \A l \in stored'.links : l.of = "claim" => l.new # t.made
    BY <1>2, <2>1, <2>3
  <2> QED
    BY <1>2, <2>1, <2>2, <2>4 DEF Stands, Kinds
<1> QED
  BY <1>1, <1>3, <1>4, <1>5 DEF ActFits, OneProduct, Drafted, Marked, Decided, Corrected

LEMMA NoTaskStands == \A ws : Stands(ws, NoTask)
BY DEF Stands, NoTask, Kinds

\* What the sessions have left to do can be done after every step.
LEMMA TasksStay ==
    ASSUME PromiseInv, [Next]_vars
    PROVE  TasksStand'
<1>1. ASSUME NEW s \in Sessions, NEW w, NEW t, Outcome(s, w, t)
      PROVE  TasksStand'
  <2>1. /\ \A r \in Sessions \ {s} : held'[r] = held[r] /\ todo'[r] = todo[r]
        /\ todo'[s] = t /\ (t # NoTask => held'[s] = stored')
    BY <1>1, SaveFacts DEF PromiseInv
  <2>2. t # NoTask => Stands(stored', t)
    BY <1>1, TaskStands
  <2>3. \A r \in Sessions : Stands(held'[r], todo'[r])
    <3> TAKE r \in Sessions
    <3>1. CASE r # s
      BY <2>1, <3>1 DEF PromiseInv, TasksStand
    <3>2. CASE r = s
      BY <2>1, <2>2, <3>2, NoTaskStands
    <3> QED
      BY <3>1, <3>2
  <2> QED
    BY <2>3 DEF TasksStand, Stands, ClaimIds
<1>2. ASSUME NEW s \in Sessions, BeginRoute(s) \/ EndRoute(s)
      PROVE  TasksStand'
  <2>1. /\ held \in [Sessions -> Workspace \cup {NoCopy}] /\ todo \in [Sessions -> Task]
        /\ \A r \in Sessions : todo[r] # NoTask => held[r] # NoCopy
    BY DEF PromiseInv, Types, TypeOK, Holding
  <2>2. /\ \A r \in Sessions \ {s} : held'[r] = held[r] /\ todo'[r] = todo[r]
        /\ todo'[s] = NoTask
    BY <1>2, <2>1 DEF BeginRoute, EndRoute, Load, GiveUp, Holding
  <2>3. \A r \in Sessions : Stands(held'[r], todo'[r])
    <3> TAKE r \in Sessions
    <3>1. CASE r # s
      BY <2>2, <3>1 DEF PromiseInv, TasksStand
    <3>2. CASE r = s
      BY <2>2, <3>2, NoTaskStands
    <3> QED
      BY <3>1, <3>2
  <2> QED
    BY <2>3 DEF TasksStand, Stands, ClaimIds
<1>3. CASE UNCHANGED vars
  BY <1>3 DEF vars, PromiseInv, TasksStand, Stands, ClaimIds
<1> QED
  BY <1>1, <1>2, <1>3, EveryStep DEF PromiseInv

LEMMA PromiseAlways == Spec => []PromiseInv
<1>1. Init => LinksNamed /\ TasksStand
  BY NoTaskStands DEF Init, EmptyWorkspace, LinksNamed, TasksStand
<1>2. PromiseInv /\ [Next]_vars => LinksNamed' /\ TasksStand'
  <2> SUFFICES ASSUME PromiseInv, [Next]_vars PROVE LinksNamed' /\ TasksStand'
    OBVIOUS
  <2>1. CASE stored' = stored
    BY <2>1, TasksStay DEF PromiseInv, LinksNamed, ClaimIds
  <2> QED
    BY <2>1, LinksStay, TasksStay, OnlySavesWrite DEF PromiseInv
<1>3. PromiseInv <=> Types /\ AllSound /\ LinksNamed /\ TasksStand
  BY DEF PromiseInv
<1> QED
  BY <1>1, <1>2, <1>3, TypesAlways, SoundAlways, PTL DEF Spec

\* Every step is an act the promise allows, or shows nothing.
LEMMA StepActs ==
    ASSUME PromiseInv, AllSound', [Next]_vars
    PROVE  [Promise!Next]_(Promise!practice)
<1>1. CASE stored' = stored
  BY <1>1, HiddenAct
<1>2. ASSUME NEW s \in Sessions, NEW w, NEW t, Outcome(s, w, t)
      PROVE  [Promise!Next]_(Promise!practice)
  <2>1. /\ held[s] = stored /\ stored' \in Workspace
        /\ ActFits(stored, stored', todo[s], t)
    BY <1>2, SaveFacts, FileFits DEF PromiseInv
  <2>2. CASE Hidden(stored, stored', t)
    BY <2>2, HiddenAct DEF Hidden
  <2>3. CASE OneProduct(stored, stored', t)
    BY <2>1, <2>3, ProductAct
  <2>4. CASE Drafted(stored, stored', t) \/ Revised(stored, stored', t)
    BY <2>1, <2>4, DraftAct
  <2>5. CASE \/ Recorded(stored, stored', t) \/ Marked(stored, stored', todo[s], t)
             \/ Decided(stored, stored', t) \/ Corrected(stored, stored', todo[s], t)
    BY <2>1, <2>5, ClaimAct
  <2> QED
    BY <2>1, <2>2, <2>3, <2>4, <2>5 DEF ActFits
<1> QED
  BY <1>1, <1>2, OnlySavesWrite DEF PromiseInv

\* Every step of the store is one act on what is there now, or shows nothing.
THEOREM ActsArePromised == Spec => ActsAsPromised
<1>1. PromiseInv /\ AllSound' /\ [Next]_vars => [Promise!Next]_(Promise!practice)
  BY StepActs
<1> QED
  BY <1>1, PromiseAlways, SoundAlways, PTL DEF Spec, ActsAsPromised

\* The store, with its copies, versions and second saves, implements the
\* promise, which has none of them.
THEOREM PracticeImplementsPromise == Spec => Promise!Spec
<1>1. Init => Promise!Init
  <2> SUFFICES ASSUME Init PROVE Promise!Init
    OBVIOUS
  <2>1. stored.claims = <<>> /\ stored.links = {} /\ stored.products = <<>>
    BY DEF Init, EmptyWorkspace
  <2>2. ProductIds(stored) = {}
    BY <2>1 DEF ProductIds
  <2>3. [p \in ProductIds(stored) |-> Shown(stored.products[p])] = <<>>
    BY <2>2
  <2> QED
    BY <2>1, <2>3 DEF Promise!Init
<1>2. PromiseInv /\ AllSound' /\ [Next]_vars => [Promise!Next]_(Promise!practice)
  BY StepActs
<1> QED
  BY <1>1, <1>2, PromiseAlways, SoundAlways, PTL DEF Spec, Promise!Spec
=============================================================================
