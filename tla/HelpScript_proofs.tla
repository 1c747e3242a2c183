-------------------------- MODULE HelpScript_proofs -------------------------
(***************************************************************************)
(* Theorems about the script gate, for any claims, sections, re-checks,    *)
(* reviewers and number of saves.                                          *)
(***************************************************************************)
EXTENDS HelpScript, TLAPS

USE HelpScriptAssumption DEF HelpScriptAssumption

-----------------------------------------------------------------------------
(* Types *)

LEMMA SectionsType ==
    ASSUME TypeOK
    PROVE  /\ DOMAIN sections = 1 .. Len(sections) /\ DOMAIN sections \subseteq 1 .. MaxSections
           /\ \A i \in DOMAIN sections : sections[i] \in Section
  <1>1. sections \in Seq(Section) /\ Len(sections) \in Nat /\ Len(sections) <= MaxSections
    BY DEF TypeOK
  <1>2. DOMAIN sections = 1 .. Len(sections)
    BY <1>1
  <1>3. \A i \in 1 .. Len(sections) : sections[i] \in Section
    BY <1>1
  <1> QED BY <1>1, <1>2, <1>3

LEMMA TextType == TypeOK => Text \in Content
  <1> SUFFICES ASSUME TypeOK PROVE Text \in Content
    OBVIOUS
  <1>1. \A i \in DOMAIN sections :
          <<i, sections[i].kind, sections[i].text>> \in (1 .. MaxSections) \X {"scene", "direction"} \X Texts
    BY SectionsType DEF Section
  <1> QED BY <1>1 DEF Text, TextOf, Content

LEMMA MarksType == TypeOK => Fingerprint \in Marks
  <1> SUFFICES ASSUME TypeOK PROVE Fingerprint \in Marks
    OBVIOUS
  <1>1. \A c : Retired(c) \in BOOLEAN
    BY DEF Retired
  <1>2. Cited \subseteq Claims
    BY SectionsType DEF Cited, Scenes, Section
  <1>3. \A c \in Cited : <<c, Retired(c)>> \in Claims \X BOOLEAN
    BY <1>1, <1>2
  <1> QED BY <1>3 DEF Fingerprint, Marks

\* A request that is under way holds a library it has loaded.
LEMMA HandType ==
    ASSUME TypeOK, NEW p \in Rechecks, hand[p] # Idle
    PROVE  hand[p] \in [at: {"fit", "check"}, version: 0 .. version, text: Content, marks: Marks]
  BY DEF TypeOK

\* A library saved once more still bounds what was loaded before.
LEMMA HandsKeep ==
    ASSUME TypeOK, Save
    PROVE  /\ version' \in 0 .. MaxVersion
           /\ hand \in [Rechecks -> {Idle} \cup [at: {"fit", "check"}, version: 0 .. version',
                                                 text: Content, marks: Marks]]
  <1>1. version' \in 0 .. MaxVersion /\ version \in Nat /\ version' = version + 1
    BY DEF TypeOK, Save
  <1>2. 0 .. version \subseteq 0 .. version'
    BY <1>1
  <1>3. \A h \in [at: {"fit", "check"}, version: 0 .. version, text: Content, marks: Marks] :
          h \in [at: {"fit", "check"}, version: 0 .. version', text: Content, marks: Marks]
    BY <1>2
  <1> QED BY <1>1, <1>3 DEF TypeOK

LEMMA TypeInit == Init => TypeOK
  BY DEF Init, TypeOK, Recorded, Idle, Content

LEMMA TypeStep == TypeOK /\ [Next]_vars => TypeOK'
  <1> SUFFICES ASSUME TypeOK, [Next]_vars PROVE TypeOK'
    OBVIOUS
  <1>1. ASSUME NEW text \in Texts, NEW cites \in SUBSET Claims, NEW class \in Classes,
               NEW kind \in {"scene", "direction"}, AddSection(kind, text, cites, class)
        PROVE  TypeOK'
    <2>1. [kind |-> kind, text |-> text, cites |-> cites, class |-> class, active |-> TRUE] \in Section
      BY DEF Section
    <2>2. sections' \in Seq(Section) /\ Len(sections') <= MaxSections
      BY <1>1, <2>1 DEF AddSection, TypeOK
    <2> QED BY <1>1, <2>2, HandsKeep DEF AddSection, TypeOK, claimVars, verdicts, Recorded
  <1>2. CASE AddScene
    BY <1>2, <1>1 DEF AddScene, Classes, Recorded
  <1>3. CASE AddDirection
    BY <1>3, <1>1 DEF AddDirection, Classes
  <1>4. ASSUME NEW i \in DOMAIN sections, RemoveSection(i) PROVE TypeOK'
    <2>1. PICK s \in Section : s = [sections[i] EXCEPT !.active = FALSE]
      BY SectionsType DEF Section
    <2>2. sections' = [sections EXCEPT ![i] = s]
      BY <1>4, <2>1 DEF RemoveSection
    <2>3. sections' \in Seq(Section) /\ Len(sections') = Len(sections)
      BY <2>2, SectionsType DEF TypeOK
    <2> QED BY <1>4, <2>3, HandsKeep DEF RemoveSection, TypeOK, claimVars, verdicts, Recorded
  <1>5. ASSUME NEW i \in DOMAIN sections, NEW text \in Texts, EditSection(i, text) PROVE TypeOK'
    <2>1. PICK s \in Section :
            s = [sections[i] EXCEPT !.text = text,
                   !.class = IF @ = "ai_proposed" THEN "edited_ai_proposal" ELSE @]
      <3>1. sections[i] \in Section
        BY SectionsType
      <3> QED BY <3>1 DEF Section, Classes
    <2>2. sections' = [sections EXCEPT ![i] = s]
      BY <1>5, <2>1, SectionsType DEF EditSection, Section
    <2>3. sections' \in Seq(Section) /\ Len(sections') = Len(sections)
      BY <2>2, SectionsType DEF TypeOK
    <2> QED BY <1>5, <2>3, HandsKeep DEF EditSection, TypeOK, claimVars, verdicts, Recorded
  <1>6. ASSUME NEW c \in Claims, AddClaim(c) PROVE TypeOK'
    BY <1>6, HandsKeep DEF AddClaim, TypeOK, verdicts, Recorded
  <1>7. ASSUME NEW c \in Claims, NEW state \in {"open", "accepted", "doubted"}, SettleClaim(c, state)
        PROVE  TypeOK'
    BY <1>7, HandsKeep DEF SettleClaim, TypeOK, verdicts, Recorded
  <1>8. ASSUME NEW c \in Claims, NEW d \in Claims, SupersedeClaim(c, d) PROVE TypeOK'
    BY <1>8, HandsKeep DEF SupersedeClaim, TypeOK, verdicts, Recorded
  <1>9. ASSUME NEW g \in Guides, ReviseGuide(g) PROVE TypeOK'
    BY <1>9, HandsKeep DEF ReviseGuide, TypeOK, verdicts, Recorded
  <1>10. CASE OtherSave
    BY <1>10, HandsKeep DEF OtherSave, TypeOK, claimVars, verdicts, Recorded
  <1>11. ASSUME NEW p \in Rechecks, Recheck(p) PROVE TypeOK'
    <2>1. [at |-> "fit", version |-> version, text |-> Text, marks |-> Fingerprint]
            \in [at: {"fit", "check"}, version: 0 .. version, text: Content, marks: Marks]
      BY TextType, MarksType DEF TypeOK
    <2> QED BY <1>11, <2>1 DEF Recheck, TypeOK, claimVars, verdicts, Recorded
  <1>12. ASSUME NEW p \in Rechecks, RecordFit(p) PROVE TypeOK'
    <2>1. hand[p] # Idle
      BY <1>12 DEF RecordFit, Idle
    <2>2. PICK o \in Outcomes : fits' = Append(fits, [outcome |-> o, text |-> hand[p].text])
      BY <1>12 DEF RecordFit
    <2>3. fits' \in Seq([outcome: Outcomes, text: Content])
      BY <2>1, <2>2, HandType DEF TypeOK
    <2>4. version' \in 0 .. version'
      BY <1>12 DEF RecordFit, Save, TypeOK
    <2>5. PICK h : h = [hand[p] EXCEPT !.at = "check", !.version = version']
      OBVIOUS
    <2>6. h \in [at: {"fit", "check"}, version: 0 .. version', text: Content, marks: Marks]
      BY <2>1, <2>4, <2>5, HandType
    <2>7. hand' = [hand EXCEPT ![p] = h]
      BY <1>12, <2>5 DEF RecordFit, TypeOK
    <2>8. Save
      BY <1>12 DEF RecordFit
    <2>9. hand' \in [Rechecks -> {Idle} \cup [at: {"fit", "check"}, version: 0 .. version',
                                               text: Content, marks: Marks]]
      BY <2>6, <2>7, <2>8, HandsKeep
    <2>10. UNCHANGED <<sections, adoption, superseded, stale, revised, checks, signs, page>>
      BY <1>12 DEF RecordFit, claimVars
    <2> QED BY <2>3, <2>8, <2>9, <2>10, HandsKeep DEF TypeOK, Recorded
  <1>13. ASSUME NEW p \in Rechecks, RecordCheck(p) PROVE TypeOK'
    <2>1. hand[p] # Idle
      BY <1>13 DEF RecordCheck, Idle
    <2>2. PICK o \in Outcomes :
            checks' = Append(checks, [outcome |-> o, text |-> hand[p].text, marks |-> hand[p].marks])
      BY <1>13 DEF RecordCheck
    <2>3. checks' \in Seq([outcome: Outcomes, text: Content, marks: Marks])
      BY <2>1, <2>2, HandType DEF TypeOK
    <2>4. Save
      BY <1>13 DEF RecordCheck
    <2>5. hand' = [hand EXCEPT ![p] = Idle]
      BY <1>13 DEF RecordCheck
    <2>6. hand' \in [Rechecks -> {Idle} \cup [at: {"fit", "check"}, version: 0 .. version',
                                               text: Content, marks: Marks]]
      BY <2>4, <2>5, HandsKeep
    <2>7. UNCHANGED <<sections, adoption, superseded, stale, revised, fits, signs, page>>
      BY <1>13 DEF RecordCheck, claimVars
    <2> QED BY <2>3, <2>4, <2>6, <2>7, HandsKeep DEF TypeOK, Recorded
  <1>14. ASSUME NEW p \in Rechecks, Abandon(p) PROVE TypeOK'
    BY <1>14 DEF Abandon, TypeOK, claimVars, verdicts, Recorded
  <1>15. ASSUME NEW r \in Reviewers, OpenPage(r) PROVE TypeOK'
    BY <1>15, TextType DEF OpenPage, TypeOK, claimVars, verdicts, Recorded
  <1>16. ASSUME NEW r \in Reviewers, Validate(r) PROVE TypeOK'
    <2>1. signs' \in Seq([outcome: Decisions, text: Content, read: BOOLEAN])
      BY <1>16, TextType DEF Validate, TypeOK
    <2> QED BY <1>16, <2>1, TextType, HandsKeep DEF Validate, TypeOK, claimVars, verdicts, Recorded
  <1>17. CASE UNCHANGED vars
    BY <1>17 DEF vars, TypeOK, claimVars, verdicts, Recorded
  <1> QED
    BY <1>2, <1>3, <1>4, <1>5, <1>6, <1>7, <1>8, <1>9, <1>10, <1>11, <1>12, <1>13, <1>14, <1>15, <1>16, <1>17
    DEF Next, AcceptClaim, DoubtClaim, DeferClaim

\* Every record of the library, every request and every page is always
\* well-formed (ProjectWorkspace.work_products, .claims).
THEOREM TypeCorrect == Spec => []TypeOK
  <1>1. Init => TypeOK
    BY TypeInit
  <1>2. TypeOK /\ [Next]_vars => TypeOK'
    BY TypeStep
  <1> QED BY <1>1, <1>2, PTL DEF Spec

-----------------------------------------------------------------------------
(* Verdicts *)

\* The strengthening VerdictsFitTheLibrary needs: while no save has landed
\* since a re-check loaded the library, its copy is the library.  A verdict is
\* made from the copy and is stored only in that case.
HandFits ==
    \A p \in Rechecks : hand[p] # Idle /\ Unsaved(p) => /\ hand[p].text = Text
                                                       /\ hand[p].marks = Fingerprint

Same == sections' = sections /\ adoption' = adoption /\ superseded' = superseded

LEMMA SameReading == Same => Text' = Text /\ Fingerprint' = Fingerprint
  BY DEF Same, Text, TextOf, Fingerprint, Cited, Scenes, Retired, Status

\* A save by anybody else leaves every loaded copy behind.
LEMMA SavedPast ==
    ASSUME TypeOK, Save, NEW p \in Rechecks, hand[p] # Idle
    PROVE  hand[p].version # version'
  <1>1. hand[p].version \in 0 .. version /\ version \in Nat
    BY HandType DEF TypeOK
  <1> QED BY <1>1 DEF Save

LEMMA HandStep == TypeOK /\ HandFits /\ [Next]_vars => HandFits'
  <1> SUFFICES ASSUME TypeOK, HandFits, [Next]_vars PROVE HandFits'
    OBVIOUS
  <1>1. ASSUME Save, hand' = hand PROVE HandFits'
    BY <1>1, SavedPast DEF HandFits, Unsaved
  <1>2. ASSUME NEW p \in Rechecks, Recheck(p) PROVE HandFits'
    BY <1>2, SameReading DEF Recheck, HandFits, Unsaved, Same, claimVars, TypeOK
  <1>3. ASSUME NEW p \in Rechecks, RecordFit(p) PROVE HandFits'
    <2>1. Same /\ Save /\ hand[p] # Idle /\ Unsaved(p)
      BY <1>3 DEF RecordFit, Same, claimVars, Idle
    <2>2. PICK h : h = [hand[p] EXCEPT !.at = "check", !.version = version']
      OBVIOUS
    <2>3. hand' = [hand EXCEPT ![p] = h]
      BY <1>3, <2>2 DEF RecordFit, TypeOK
    <2>4. h.text = Text /\ h.marks = Fingerprint
      BY <2>1, <2>2, HandType DEF HandFits
    <2> QED BY <2>1, <2>3, <2>4, SameReading, SavedPast DEF HandFits, Unsaved, TypeOK
  <1>4. ASSUME NEW p \in Rechecks, RecordCheck(p) PROVE HandFits'
    <2>1. Save /\ hand' = [hand EXCEPT ![p] = Idle]
      BY <1>4 DEF RecordCheck
    <2> QED BY <2>1, SavedPast DEF HandFits, Unsaved, TypeOK
  <1>5. ASSUME NEW p \in Rechecks, Abandon(p) PROVE HandFits'
    BY <1>5, SameReading DEF Abandon, HandFits, Unsaved, Same, claimVars, TypeOK
  <1>6. ASSUME NEW r \in Reviewers, OpenPage(r) PROVE HandFits'
    BY <1>6, SameReading DEF OpenPage, HandFits, Unsaved, Same, claimVars
  <1>7. CASE UNCHANGED vars
    BY <1>7, SameReading DEF vars, HandFits, Unsaved, Same, claimVars
  <1> QED
    BY <1>1, <1>2, <1>3, <1>4, <1>5, <1>6, <1>7
    DEF Next, AddScene, AddDirection, AddSection, RemoveSection, EditSection, AddClaim, AcceptClaim,
        DoubtClaim, DeferClaim, SettleClaim, SupersedeClaim, ReviseGuide, OtherSave, Validate

\* A verdict is stored only about the text and the claims the library still
\* holds when it is stored (record_script_fit_verdict,
\* record_script_consistency_verdict under save's version check).
THEOREM VerdictsFit == Spec => VerdictsFitTheLibrary
  <1> DEFINE Fit ==
        /\ fits' # fits => Last(fits').text = Text
        /\ checks' # checks => Last(checks').text = Text /\ Last(checks').marks = Fingerprint
  <1>1. Init => HandFits
    BY DEF Init, HandFits
  <1>2. TypeOK /\ HandFits /\ [Next]_vars => [Fit]_vars
    <2> SUFFICES ASSUME TypeOK, HandFits, Next PROVE Fit
      OBVIOUS
    <2>1. CASE UNCHANGED verdicts
      BY <2>1 DEF verdicts
    <2>2. ASSUME NEW p \in Rechecks, RecordFit(p) PROVE Fit
      <3>1. hand[p].text = Text /\ UNCHANGED checks
        BY <2>2 DEF RecordFit, HandFits, Idle
      <3>2. PICK o \in Outcomes : fits' = Append(fits, [outcome |-> o, text |-> hand[p].text])
        BY <2>2 DEF RecordFit
      <3>3. Last(fits') = [outcome |-> o, text |-> hand[p].text]
        BY <3>2 DEF TypeOK, Last
      <3> QED BY <3>1, <3>3
    <2>3. ASSUME NEW p \in Rechecks, RecordCheck(p) PROVE Fit
      <3>1. hand[p].text = Text /\ hand[p].marks = Fingerprint /\ UNCHANGED fits
        BY <2>3 DEF RecordCheck, HandFits, Idle
      <3>2. PICK o \in Outcomes :
              checks' = Append(checks, [outcome |-> o, text |-> hand[p].text, marks |-> hand[p].marks])
        BY <2>3 DEF RecordCheck
      <3>3. Last(checks') = [outcome |-> o, text |-> hand[p].text, marks |-> hand[p].marks]
        BY <3>2 DEF TypeOK, Last
      <3> QED BY <3>1, <3>3
    <2> QED
      BY <2>1, <2>2, <2>3
      DEF Next, AddScene, AddDirection, AddSection, RemoveSection, EditSection, AddClaim, AcceptClaim,
          DoubtClaim, DeferClaim, SettleClaim, SupersedeClaim, ReviseGuide, OtherSave, Validate,
          Recheck, Abandon, OpenPage
  <1> QED BY <1>1, <1>2, TypeCorrect, HandStep, PTL DEF Spec, VerdictsFitTheLibrary

-----------------------------------------------------------------------------
(* Adoption *)

\* Accepting an open claim changes no claim's retirement.
LEMMA AcceptingRetiresNothing ==
    ASSUME TypeOK, NEW c \in Claims \ superseded, adoption[c] = "open", AcceptClaim(c)
    PROVE  \A d \in Claims : Retired(d)' = Retired(d)
  <1>1. adoption' = [adoption EXCEPT ![c] = "accepted"] /\ superseded' = superseded
    BY DEF AcceptClaim, SettleClaim
  <1>2. ASSUME NEW d \in Claims PROVE Retired(d)' = Retired(d)
    <2>1. CASE d = c
      BY <1>1, <2>1 DEF Retired, Status, TypeOK
    <2>2. CASE d # c
      BY <1>1, <2>2 DEF Retired, Status, TypeOK
    <2> QED BY <2>1, <2>2
  <1> QED BY <1>2

\* Accepting a claim nobody doubts withdraws no validation, whatever order the
\* models, the reviewers and the adoptions came in
\* (script_cited_claims_fingerprint).
THEOREM AdoptionKeeps == Spec => AdoptionRetiresNothing
  <1> DEFINE Keeps ==
        \A c \in Claims \ superseded :
          adoption[c] = "open" /\ adoption'[c] = "accepted" => (Validated => Validated')
  <1>1. TypeOK /\ [Next]_vars => [Keeps]_vars
    <2> SUFFICES ASSUME TypeOK, Next, NEW c \in Claims \ superseded,
                        adoption[c] = "open", adoption'[c] = "accepted"
                 PROVE  Validated => Validated'
      OBVIOUS
    <2>1. AcceptClaim(c)
      <3>1. ASSUME adoption' = adoption PROVE FALSE
        BY <3>1
      <3>2. ASSUME NEW d \in Claims, NEW state \in {"open", "accepted", "doubted"}, SettleClaim(d, state)
            PROVE  d = c /\ state = "accepted"
        BY <3>2 DEF SettleClaim, TypeOK
      <3>3. ASSUME NEW d \in Claims, AddClaim(d) PROVE FALSE
        BY <3>3 DEF AddClaim, TypeOK
      <3>4. ASSUME NEW b \in Claims, NEW d \in Claims, SupersedeClaim(b, d) PROVE FALSE
        BY <3>4 DEF SupersedeClaim, TypeOK
      <3> QED
        BY <3>1, <3>2, <3>3, <3>4
        DEF Next, AddScene, AddDirection, AddSection, RemoveSection, EditSection, AcceptClaim,
            DoubtClaim, DeferClaim, ReviseGuide, OtherSave, Validate, Recheck, RecordFit,
            RecordCheck, Abandon, OpenPage, claimVars
    <2>2. UNCHANGED <<sections, stale, verdicts, signs>>
      BY <2>1 DEF AcceptClaim, SettleClaim
    <2>3. Text' = Text /\ Scenes' = Scenes /\ Cited' = Cited
      BY <2>2 DEF Text, TextOf, Scenes, Cited
    <2>4. Cited \subseteq Claims
      BY SectionsType DEF Cited, Scenes, Section
    <2>5. Fingerprint' = Fingerprint
      <3>1. \A d \in Cited : Retired(d)' = Retired(d)
        BY <2>1, <2>4, AcceptingRetiresNothing
      <3> QED BY <2>3, <3>1 DEF Fingerprint
    <2>6. \A word : /\ Says(fits, word)' = Says(fits, word)
                    /\ Says(checks, word)' = Says(checks, word)
                    /\ Says(signs, word)' = Says(signs, word)
                    /\ Latest(checks)' = Latest(checks)
      BY <2>2, <2>3 DEF verdicts, Says, Applicable, Latest
    <2>7. /\ SemanticFit' = SemanticFit /\ HumanValidated' = HumanValidated
          /\ Consistent' = Consistent
      BY <2>5, <2>6 DEF SemanticFit, HumanValidated, Consistent
    <2> QED
      BY <2>2, <2>3, <2>7
      DEF Validated, QuestionFit, EvidenceFidelity, Supported, Current
  <1> QED BY <1>1, TypeCorrect, PTL DEF Spec, AdoptionRetiresNothing

-----------------------------------------------------------------------------
(* Withdrawal *)

\* The section i reads as before; an edit may only have taken it over.
SameSection(i) ==
    /\ sections'[i].kind = sections[i].kind /\ sections'[i].active = sections[i].active
    /\ sections'[i].cites = sections[i].cites
    /\ sections'[i].class = "human_authored" => sections[i].class = "human_authored"

SameSections == DOMAIN sections' = DOMAIN sections /\ \A i \in DOMAIN sections : SameSection(i)

\* Only an edit that changes no word leaves the text as it was.
LEMMA SameText ==
    ASSUME TypeOK, Next, Text' = Text
    PROVE  SameSections
  <1>0. /\ sections \in Seq(Section) /\ DOMAIN sections = 1 .. Len(sections) /\ Len(sections) \in Nat
    BY DEF TypeOK
  <1>1. CASE sections' = sections
    BY <1>1 DEF SameSections, SameSection
  <1>2. ASSUME NEW kind \in {"scene", "direction"}, NEW text \in Texts, NEW cites \in SUBSET Claims,
               NEW class \in Classes, AddSection(kind, text, cites, class)
        PROVE  FALSE
    <2>1. PICK n \in Nat : n = Len(sections) + 1
      BY <1>0
    <2>2. n \in DOMAIN sections' /\ sections'[n].active
      BY <1>0, <1>2, <2>1 DEF AddSection
    <2>3. <<n, sections'[n].kind, sections'[n].text>> \in Text'
      BY <2>2 DEF Text, TextOf
    <2>4. <<n, sections'[n].kind, sections'[n].text>> \in Text
      BY <2>3
    <2>5. n \in DOMAIN sections
      BY <2>4 DEF Text, TextOf
    <2> QED BY <1>0, <2>1, <2>5
  <1>3. ASSUME NEW i \in DOMAIN sections, RemoveSection(i) PROVE FALSE
    <2>1. <<i, sections[i].kind, sections[i].text>> \in Text
      BY <1>3 DEF RemoveSection, Text, TextOf
    <2>2. sections'[i].active
      BY <2>1 DEF Text, TextOf
    <2>3. sections[i] \in Section
      BY <1>0, <1>3
    <2> QED BY <1>0, <1>3, <2>2, <2>3 DEF RemoveSection, Section
  <1>4. ASSUME NEW i \in DOMAIN sections, NEW text \in Texts, EditSection(i, text)
        PROVE  SameSections
    <2>1. sections[i] \in Section
      BY <1>0, <1>4
    <2>2. PICK class : class = IF sections[i].class = "ai_proposed" THEN "edited_ai_proposal"
                               ELSE sections[i].class
      OBVIOUS
    <2>3. PICK new : new = [sections[i] EXCEPT !.text = text, !.class = class]
      OBVIOUS
    <2>4. sections' = [sections EXCEPT ![i] = new]
      BY <1>4, <2>2, <2>3 DEF EditSection
    <2>5. /\ new.kind = sections[i].kind /\ new.active = sections[i].active
          /\ new.cites = sections[i].cites
          /\ new.class = "human_authored" => sections[i].class = "human_authored"
      BY <2>1, <2>2, <2>3 DEF Section
    <2> QED BY <1>0, <2>4, <2>5 DEF SameSections, SameSection
  <1> QED
    BY <1>1, <1>2, <1>3, <1>4
    DEF Next, AddScene, AddDirection, AddClaim, AcceptClaim, DoubtClaim, DeferClaim, SettleClaim,
        SupersedeClaim, ReviseGuide, OtherSave, Validate, Recheck, RecordFit, RecordCheck, Abandon,
        OpenPage, Recorded, Classes

\* The last record counts if it was made against the text as it stands.
LEMMA LastCounts ==
    ASSUME NEW T, NEW old \in Seq(T), NEW r, r.text = Text
    PROVE  /\ Applicable(Append(old, r)) # {}
           /\ Latest(Append(old, r)) = r
  <1>1. PICK n \in Nat : n = Len(old) + 1
    OBVIOUS
  <1>2. DOMAIN Append(old, r) = 1 .. n /\ Append(old, r)[n] = r
    BY <1>1
  <1>3. PICK A \in SUBSET (1 .. n) : A = Applicable(Append(old, r))
    BY <1>2 DEF Applicable
  <1>4. n \in A
    BY <1>2, <1>3, <1>1 DEF Applicable
  <1>5. Max(A) = n
    <2>1. \A x \in A : x \in Nat /\ x <= n
      BY <1>3
    <2>2. \A y \in A : n >= y
      BY <2>1
    <2>3. \E x \in A : \A y \in A : x >= y
      BY <1>4, <2>2
    <2>4. Max(A) \in A /\ \A y \in A : Max(A) >= y
      BY <2>3, Zenon DEF Max
    <2>5. PICK m : m = Max(A)
      OBVIOUS
    <2>6. m \in A /\ m >= n
      BY <1>4, <2>4, <2>5
    <2>7. m = n
      BY <2>1, <2>6
    <2> QED BY <2>5, <2>7
  <1> QED BY <1>2, <1>3, <1>4, <1>5 DEF Latest

\* None of the reasons for a withdrawal but those of the record.
CitedStand ==
    \A c \in Cited : adoption'[c] = "accepted" /\ c \notin superseded' /\ c \notin stale'

\* While the scenes read as before and the cited claims stand, what is derived
\* from them stands as well.
LEMMA ScenesStand ==
    ASSUME TypeOK, SameSections, Reusable, CitedStand
    PROVE  /\ QuestionFit' /\ EvidenceFidelity' /\ Supported' /\ Current' /\ Adopted'
           /\ Fingerprint' = Fingerprint
  <1> DEFINE Active == {i \in DOMAIN sections : sections[i].active /\ sections[i].kind = "scene"}
  <1>1. /\ Scenes = {sections[i] : i \in Active}
        /\ Scenes' = {sections'[i] : i \in Active}
    BY DEF SameSections, SameSection, Scenes
  <1>2. Active # {}
    BY <1>1 DEF Reusable, Validated, Current
  <1>3. Cited' = Cited
    <2>1. \A i \in Active : sections'[i].cites = sections[i].cites
      BY DEF SameSections, SameSection
    <2> QED BY <1>1, <2>1 DEF Cited
  <1>4. QuestionFit' /\ Current'
    BY <1>1, <1>2, <1>3 DEF CitedStand, QuestionFit, Current, Reusable, Validated
  <1>5. EvidenceFidelity' /\ Supported'
    <2>1. \A i \in Active : /\ sections'[i].cites = sections[i].cites
                            /\ sections'[i].class = "human_authored" => sections[i].class = "human_authored"
      BY DEF SameSections, SameSection
    <2>2. \A i \in Active : /\ sections[i].class = "human_authored" => sections[i].cites \cap Inferred = {}
                            /\ sections[i].cites # {} /\ sections[i].cites \cap Ungrounded = {}
      BY <1>1 DEF Reusable, Validated, EvidenceFidelity, Supported
    <2> QED BY <1>1, <1>2, <2>1, <2>2 DEF EvidenceFidelity, Supported
  <1>6. \A c \in Cited : Status(c) = "accepted" /\ Status(c)' = "accepted"
    BY DEF CitedStand, Reusable, Adopted, Status
  <1>7. Adopted'
    BY <1>1, <1>2, <1>3, <1>6 DEF Adopted
  <1>8. \A c \in Cited : Retired(c)' = Retired(c)
    BY <1>6 DEF Retired
  <1>9. Fingerprint' = Fingerprint
    BY <1>3, <1>8 DEF Fingerprint
  <1> QED BY <1>4, <1>5, <1>7, <1>9

\* A record that is kept, or follows the others with the word that counts.
LEMMA RecordStands ==
    ASSUME NEW T, NEW old \in Seq(T), NEW new, NEW word, Says(old, word),
           \/ new = old
           \/ \E r : new = Append(old, r) /\ r.text = Text /\ r.outcome = word
    PROVE  Says(new, word)
  <1>1. CASE new = old
    BY <1>1
  <1>2. ASSUME NEW r, new = Append(old, r), r.text = Text, r.outcome = word PROVE Says(new, word)
    BY <1>2, LastCounts DEF Says
  <1> QED BY <1>1, <1>2

LEMMA ReleaseStands ==
    ASSUME TypeOK, HandFits, Next, Reusable, Text' = Text, CitedStand,
           ~(fits' # fits /\ Last(fits').outcome = "blocked"),
           ~(checks' # checks /\ Last(checks').outcome = "blocked"),
           ~(signs' # signs /\ Last(signs').outcome = "rejected")
    PROVE  Reusable'
  <1>1. /\ QuestionFit' /\ EvidenceFidelity' /\ Supported' /\ Current' /\ Adopted'
        /\ Fingerprint' = Fingerprint
    BY SameText, ScenesStand
  <1>2. /\ Says(fits, "pass") /\ Says(checks, "pass") /\ Says(signs, "validated")
        /\ Latest(checks).marks = Fingerprint
    BY DEF Reusable, Validated, SemanticFit, Consistent, HumanValidated
  <1>3. PICK f, k, v : f = fits' /\ k = checks' /\ v = signs'
    OBVIOUS
  <1>4. \/ f = fits
        \/ \E r : f = Append(fits, r) /\ r.text = Text /\ r.outcome = "pass"
    <2>1. ASSUME NEW p \in Rechecks, RecordFit(p), f # fits
          PROVE  \E r : f = Append(fits, r) /\ r.text = Text /\ r.outcome = "pass"
      <3>1. hand[p].text = Text
        BY <2>1 DEF RecordFit, HandFits, Idle
      <3>2. PICK o \in Outcomes : f = Append(fits, [outcome |-> o, text |-> hand[p].text])
        BY <1>3, <2>1 DEF RecordFit
      <3>3. Last(f) = [outcome |-> o, text |-> hand[p].text]
        BY <3>2 DEF TypeOK, Last
      <3>4. o = "pass"
        BY <1>3, <2>1, <3>3 DEF Outcomes
      <3> QED BY <3>1, <3>2, <3>4
    <2> QED
      BY <1>3, <2>1
      DEF Next, AddScene, AddDirection, AddSection, RemoveSection, EditSection, AddClaim, AcceptClaim,
          DoubtClaim, DeferClaim, SettleClaim, SupersedeClaim, ReviseGuide, OtherSave, Validate,
          Recheck, RecordCheck, Abandon, OpenPage, verdicts
  <1>5. \/ k = checks
        \/ \E r : k = Append(checks, r) /\ r.text = Text /\ r.outcome = "pass" /\ r.marks = Fingerprint
    <2>1. ASSUME NEW p \in Rechecks, RecordCheck(p), k # checks
          PROVE  \E r : k = Append(checks, r) /\ r.text = Text /\ r.outcome = "pass" /\ r.marks = Fingerprint
      <3>1. hand[p].text = Text /\ hand[p].marks = Fingerprint
        BY <2>1 DEF RecordCheck, HandFits, Idle
      <3>2. PICK o \in Outcomes :
              k = Append(checks, [outcome |-> o, text |-> hand[p].text, marks |-> hand[p].marks])
        BY <1>3, <2>1 DEF RecordCheck
      <3>3. Last(k) = [outcome |-> o, text |-> hand[p].text, marks |-> hand[p].marks]
        BY <3>2 DEF TypeOK, Last
      <3>4. o = "pass"
        BY <1>3, <2>1, <3>3 DEF Outcomes
      <3> QED BY <3>1, <3>2, <3>4
    <2> QED
      BY <1>3, <2>1
      DEF Next, AddScene, AddDirection, AddSection, RemoveSection, EditSection, AddClaim, AcceptClaim,
          DoubtClaim, DeferClaim, SettleClaim, SupersedeClaim, ReviseGuide, OtherSave, Validate,
          Recheck, RecordFit, Abandon, OpenPage, verdicts
  <1>6. \/ v = signs
        \/ \E r : v = Append(signs, r) /\ r.text = Text /\ r.outcome = "validated"
    <2>1. ASSUME NEW q \in Reviewers, Validate(q), v # signs
          PROVE  \E r : v = Append(signs, r) /\ r.text = Text /\ r.outcome = "validated"
      <3>1. PICK d \in Decisions, b \in BOOLEAN : v = Append(signs, [outcome |-> d, text |-> Text, read |-> b])
        BY <1>3, <2>1 DEF Validate
      <3>2. Last(v) = [outcome |-> d, text |-> Text, read |-> b]
        BY <3>1 DEF TypeOK, Last
      <3>3. d = "validated"
        BY <1>3, <2>1, <3>2 DEF Decisions
      <3> QED BY <3>1, <3>3
    <2> QED
      BY <1>3, <2>1
      DEF Next, AddScene, AddDirection, AddSection, RemoveSection, EditSection, AddClaim, AcceptClaim,
          DoubtClaim, DeferClaim, SettleClaim, SupersedeClaim, ReviseGuide, OtherSave, RecordFit,
          Recheck, RecordCheck, Abandon, OpenPage, verdicts
  <1>7. Says(f, "pass") /\ Says(k, "pass") /\ Says(v, "validated")
    <2>1. /\ fits \in Seq([outcome: Outcomes, text: Content])
          /\ checks \in Seq([outcome: Outcomes, text: Content, marks: Marks])
          /\ signs \in Seq([outcome: Decisions, text: Content, read: BOOLEAN])
      BY DEF TypeOK
    <2>2. Says(f, "pass")
      BY <1>2, <1>4, <2>1, RecordStands
    <2>3. Says(k, "pass")
      BY <1>2, <1>5, <2>1, RecordStands
    <2>4. Says(v, "validated")
      BY <1>2, <1>6, <2>1, RecordStands
    <2> QED BY <2>2, <2>3, <2>4
  <1>8. Latest(k).marks = Fingerprint
    <2>1. CASE k = checks
      BY <1>2, <2>1
    <2>2. ASSUME NEW r, k = Append(checks, r), r.text = Text, r.marks = Fingerprint
          PROVE  Latest(k).marks = Fingerprint
      <3>1. checks \in Seq([outcome: Outcomes, text: Content, marks: Marks])
        BY DEF TypeOK
      <3>2. Latest(k) = r
        BY <2>2, <3>1, LastCounts
      <3> QED BY <2>2, <3>2
    <2> QED BY <1>5, <2>1, <2>2
  <1>9. /\ Says(fits, "pass")' /\ Says(checks, "pass")' /\ Says(signs, "validated")'
        /\ Latest(checks)' = Latest(k)
    BY <1>3, <1>7 DEF Says, Applicable, Latest
  <1> QED
    BY <1>1, <1>8, <1>9 DEF Reusable, Validated, SemanticFit, Consistent, HumanValidated

\* Readers lose an answer only for one of the reasons the property names,
\* whatever else is saved in the library (resolve_script_readiness).
THEOREM WithdrawnWithReason == Spec => WithdrawnForAReason
  <1> DEFINE Reasoned ==
        Reusable /\ ~Reusable' =>
          \/ Text' # Text
          \/ \E c \in Cited : \/ adoption'[c] # "accepted"
                              \/ c \in superseded' \/ c \in stale'
          \/ fits' # fits /\ Last(fits').outcome = "blocked"
          \/ checks' # checks /\ Last(checks').outcome = "blocked"
          \/ signs' # signs /\ Last(signs').outcome = "rejected"
  <1>1. Init => HandFits
    BY DEF Init, HandFits
  <1>2. TypeOK /\ HandFits /\ [Next]_vars => [Reasoned]_vars
    BY ReleaseStands DEF CitedStand
  <1> QED BY <1>1, <1>2, TypeCorrect, HandStep, PTL DEF Spec, WithdrawnForAReason

=============================================================================
