----------------------------- MODULE HelpScript -----------------------------
(***************************************************************************)
(* The gate a Help Script passes before readers are given it as an answer   *)
(* (services/case_workspace.py, services/script_fit.py, help_mode.py and    *)
(* routes/help_center.py).  Nothing stores "this script is reusable": its   *)
(* readiness is derived, on every read, from its active sections, from the  *)
(* claims they cite, and from three histories - question-fit verdicts,      *)
(* consistency verdicts and human validations - of which only the latest    *)
(* entry that was made against the text as it stands counts.                *)
(*                                                                         *)
(* One script of the Help Library is followed.  A web request loads the     *)
(* library, changes it and saves it; the save is refused if the library has *)
(* been saved since, so a request with one save is one action.  A re-check  *)
(* asks a model twice and saves twice, and is three.  A reviewer decides on *)
(* the page that was open.  "pass" and "blocked" stand for the outcomes of  *)
(* a verdict: fail and review_needed are treated alike by the gate.  An     *)
(* adoption is "accepted" (as an observation or as a finding), "doubted"    *)
(* (disputed or rejected) or "open" (anything else).                        *)
(***************************************************************************)
EXTENDS Naturals, Sequences, SequencesExt

CONSTANTS
    Claims,       \* claims of the library, recorded one after the other
    OwnClaims,    \* those answering the script's own question
    Inferred,     \* those whose class is not directly_verified
    Ungrounded,   \* those with no evidence of their own, or not enough
    Guides,       \* the help guides whose text is the evidence
    GuideOf,      \* the guide a claim cites
    Texts,        \* what a section may say
    Rechecks,     \* requests running the trust chain
    Reviewers,    \* people with the script's page open
    MaxSections,  \* bound: sections ever added to the script
    MaxVersion    \* bound: saves of the library

ASSUME HelpScriptAssumption ==
    /\ OwnClaims \subseteq Claims /\ Inferred \subseteq Claims
    /\ Ungrounded \subseteq Claims
    /\ GuideOf \in [Claims -> Guides]
    /\ MaxSections \in Nat /\ MaxVersion \in Nat

VARIABLES
    version,     \* the save counter of the library's workspace.json
    sections,    \* the script's sections, in the order they were added
    adoption,    \* each claim's stored adoption_state, "none": not recorded
    superseded,  \* claims a Supersession names as predecessor
    stale,       \* claims whose evidence belongs to a superseded guide text
    revised,     \* guides whose text has been revised
    fits,        \* script_fit_verdicts
    checks,      \* script_consistency_verdicts
    signs,       \* script_validations
    hand,        \* each re-check: its step and the library it loaded
    page         \* each reviewer: the text on the page

claimVars == <<adoption, superseded, stale, revised>>
verdicts  == <<fits, checks>>
vars == <<version, sections, claimVars, verdicts, signs, hand, page>>

Outcomes  == {"pass", "blocked"}
Decisions == {"validated", "rejected"}
Classes   == {"human_authored", "ai_proposed", "edited_ai_proposal", "template_content"}

Section == [kind: {"scene", "direction"}, text: Texts, cites: SUBSET Claims,
            class: Classes, active: BOOLEAN]
Content == SUBSET ((1 .. MaxSections) \X {"scene", "direction"} \X Texts)
Marks   == SUBSET (Claims \X BOOLEAN)
Idle    == [at |-> "idle"]

-----------------------------------------------------------------------------
(* What is derived on a read                                               *)

\* The content checksum: id, kind and words of every active section.
TextOf(secs) == {<<i, secs[i].kind, secs[i].text>> : i \in {j \in DOMAIN secs : secs[j].active}}
Text == TextOf(sections)

Scenes == {s \in {sections[i] : i \in DOMAIN sections} : s.active /\ s.kind = "scene"}
Cited  == UNION {s.cites : s \in Scenes}

\* A human "no" outranks a supersession, which outranks the adoption.
Status(c) ==
    IF adoption[c] = "doubted" THEN "doubted"
    ELSE IF c \in superseded THEN "superseded"
    ELSE adoption[c]

Retired(c) == Status(c) \in {"doubted", "superseded"}

\* Mutants of Fingerprint: adoption is digested as well; every claim is.
FingerprintOfAdoption == {<<c, Status(c) # "open">> : c \in Cited}
FingerprintOfAll == {<<c, Retired(c)>> : c \in {d \in Claims : adoption[d] # "none"}}

\* The cited claims as they stand; how far they are adopted is left out.
Fingerprint == {<<c, Retired(c)>> : c \in Cited}

\* The records made against the text as it stands; the latest one counts.
Applicable(records) == {i \in DOMAIN records : records[i].text = Text}
Latest(records)     == records[Max(Applicable(records))]
Says(records, word) == Applicable(records) # {} /\ Latest(records).outcome = word

QuestionFit      == Scenes # {} /\ Cited \cap OwnClaims # {}
EvidenceFidelity == Scenes # {} /\ \A s \in Scenes : s.class = "human_authored" => s.cites \cap Inferred = {}
Supported        == Scenes # {} /\ \A s \in Scenes : s.cites # {} /\ s.cites \cap Ungrounded = {}
Current          == Scenes # {} /\ Cited \cap stale = {}
SemanticFit      == Says(fits, "pass")
Consistent       == /\ Says(checks, "pass")
                    /\ Latest(checks).marks = Fingerprint
HumanValidated   == Says(signs, "validated")
Adopted          == Scenes # {} /\ \A c \in Cited : Status(c) = "accepted"

Validated == /\ QuestionFit /\ EvidenceFidelity /\ Supported /\ Current
             /\ SemanticFit /\ Consistent /\ HumanValidated
Reusable  == Validated /\ Adopted

-----------------------------------------------------------------------------
Init ==
    /\ version = 0
    /\ sections = <<>>
    /\ adoption = [c \in Claims |-> "none"]
    /\ superseded = {} /\ stale = {} /\ revised = {}
    /\ fits = <<>> /\ checks = <<>> /\ signs = <<>>
    /\ hand = [p \in Rechecks |-> Idle]
    /\ page = [r \in Reviewers |-> {}]

Save == version < MaxVersion /\ version' = version + 1

Recorded == {c \in Claims : adoption[c] # "none"}

-----------------------------------------------------------------------------
(* Authors                                                                 *)

\* A work product that is issued refuses the three section actions
\* (_require_work_product_editable).  Issuing is modelled in WorkProduct and
\* not here: this module allows more edits than the code, never fewer.
AddSection(kind, text, cites, class) ==
    /\ Save
    /\ Len(sections) < MaxSections
    /\ sections' = Append(sections, [kind |-> kind, text |-> text, cites |-> cites,
                                     class |-> class, active |-> TRUE])
    /\ UNCHANGED <<claimVars, verdicts, signs, hand, page>>

\* A scene cites recorded claims only; a generated one is ai_proposed.
AddScene ==
    \E text \in Texts, cites \in SUBSET Recorded, class \in {"human_authored", "ai_proposed"} :
        AddSection("scene", text, cites, class)

\* A direction cites nothing, and no scene check reads it.
AddDirection ==
    \E text \in Texts : AddSection("direction", text, {}, "template_content")

EditSection(i, text) ==
    /\ Save
    /\ sections[i].active
    /\ sections' = [sections EXCEPT
         ![i].text = text,
         ![i].class = IF @ = "ai_proposed" THEN "edited_ai_proposal" ELSE @]
    /\ UNCHANGED <<claimVars, verdicts, signs, hand, page>>

RemoveSection(i) ==
    /\ Save
    /\ sections[i].active
    /\ sections' = [sections EXCEPT ![i].active = FALSE]
    /\ UNCHANGED <<claimVars, verdicts, signs, hand, page>>

\* A form opened before a guide was revised still offers its old evidence.
AddClaim(c) ==
    /\ Save
    /\ adoption[c] = "none"
    /\ adoption' = [adoption EXCEPT ![c] = "open"]
    /\ \/ UNCHANGED stale
       \/ GuideOf[c] \in revised /\ c \notin Ungrounded /\ stale' = stale \cup {c}
    /\ UNCHANGED <<sections, superseded, revised, verdicts, signs, hand, page>>

-----------------------------------------------------------------------------
(* What people decide about claims, and what moves beneath them            *)

\* The stored state is overwritten, whatever it was.
SettleClaim(c, state) ==
    /\ Save
    /\ c \in Recorded
    /\ adoption' = [adoption EXCEPT ![c] = state]
    /\ UNCHANGED <<sections, superseded, stale, revised, verdicts, signs, hand, page>>

AcceptClaim(c) == SettleClaim(c, "accepted")
DoubtClaim(c)  == SettleClaim(c, "doubted")
DeferClaim(c)  == SettleClaim(c, "open")

\* The correction answers the same question, from the old claim's evidence
\* unless it is given evidence of its own.  The code saves the correction and
\* then the mark: a stop between the two saves leaves what AddClaim(d) leaves,
\* and a save of somebody else in between refuses the second one.
SupersedeClaim(c, d) ==
    /\ Save
    /\ c \in Recorded /\ adoption[d] = "none"
    /\ d \in OwnClaims <=> c \in OwnClaims
    /\ adoption' = [adoption EXCEPT ![d] = "open"]
    /\ superseded' = superseded \cup {c}
    /\ \/ UNCHANGED stale
       \/ c \in stale /\ GuideOf[d] = GuideOf[c] /\ stale' = stale \cup {d}
    /\ UNCHANGED <<sections, revised, verdicts, signs, hand, page>>

\* Mutant of ReviseGuide: claims that are not recorded yet are marked as well.
ReviseGuideAllClaims(g) ==
    /\ Save
    /\ revised' = revised \cup {g}
    /\ stale' = stale \cup {c \in Claims \ Ungrounded : GuideOf[c] = g}
    /\ UNCHANGED <<sections, adoption, superseded, verdicts, signs, hand, page>>

ReviseGuide(g) ==
    /\ Save
    /\ revised' = revised \cup {g}
    /\ stale' = stale \cup {c \in Recorded \ Ungrounded : GuideOf[c] = g}
    /\ UNCHANGED <<sections, adoption, superseded, verdicts, signs, hand, page>>

\* Everything else that saves the library: another script, the scenario, the
\* UI bindings, the observation an acceptance records first.
OtherSave ==
    /\ Save
    /\ UNCHANGED <<sections, claimVars, verdicts, signs, hand, page>>

-----------------------------------------------------------------------------
(* The trust chain                                                         *)

\* The library is loaded once; both models are shown that copy.
Recheck(p) ==
    /\ hand[p] = Idle
    /\ hand' = [hand EXCEPT ![p] = [at |-> "fit", version |-> version, text |-> Text,
                                    marks |-> Fingerprint]]
    /\ UNCHANGED <<version, sections, claimVars, verdicts, signs, page>>

\* Mutant of Unsaved: the save is not conditional.
UnsavedUnchecked(p) == hand[p].version <= version

\* No save has landed since the library was loaded.
Unsaved(p) == hand[p].version = version

RecordFit(p) ==
    /\ hand[p].at = "fit"
    /\ Unsaved(p)
    /\ Save
    /\ \E o \in Outcomes : fits' = Append(fits, [outcome |-> o, text |-> hand[p].text])
    /\ hand' = [hand EXCEPT ![p].at = "check", ![p].version = version']
    /\ UNCHANGED <<sections, claimVars, checks, signs, page>>

RecordCheck(p) ==
    /\ hand[p].at = "check"
    /\ Unsaved(p)
    /\ Save
    /\ \E o \in Outcomes :
         checks' = Append(checks, [outcome |-> o, text |-> hand[p].text, marks |-> hand[p].marks])
    /\ hand' = [hand EXCEPT ![p] = Idle]
    /\ UNCHANGED <<sections, claimVars, fits, signs, page>>

\* A refused save ends the request; so does the death of the process.
Abandon(p) ==
    /\ hand[p] # Idle
    /\ hand' = [hand EXCEPT ![p] = Idle]
    /\ UNCHANGED <<version, sections, claimVars, verdicts, signs, page>>

-----------------------------------------------------------------------------
(* Reviewers                                                               *)

OpenPage(r) ==
    /\ page' = [page EXCEPT ![r] = Text]
    /\ UNCHANGED <<version, sections, claimVars, verdicts, signs, hand>>

\* The request loads the library again: the decision is stored against the
\* text of that moment, and answers with a page that shows it.  "read" tells
\* whether the reviewer's page showed that text, and is in no record of the
\* code.
Validate(r) ==
    /\ Save
    /\ \E d \in Decisions : signs' = Append(signs, [outcome |-> d, text |-> Text, read |-> page[r] = Text])
    /\ page' = [page EXCEPT ![r] = Text]
    /\ UNCHANGED <<sections, claimVars, verdicts, hand>>

-----------------------------------------------------------------------------
Next ==
    \/ AddScene \/ AddDirection
    \/ \E i \in DOMAIN sections : RemoveSection(i) \/ \E text \in Texts : EditSection(i, text)
    \/ \E c \in Claims : AddClaim(c) \/ AcceptClaim(c) \/ DoubtClaim(c) \/ DeferClaim(c)
    \/ \E c, d \in Claims : SupersedeClaim(c, d)
    \/ \E g \in Guides : ReviseGuide(g)
    \/ OtherSave
    \/ \E p \in Rechecks : Recheck(p) \/ RecordFit(p) \/ RecordCheck(p) \/ Abandon(p)
    \/ \E r \in Reviewers : OpenPage(r) \/ Validate(r)

Spec == Init /\ [][Next]_vars

-----------------------------------------------------------------------------
(* What the gate promises                                                  *)

\* Every record is well-formed and none is from a later save than the last.
TypeOK ==
    /\ version \in 0 .. MaxVersion
    /\ sections \in Seq(Section) /\ Len(sections) <= MaxSections
    /\ adoption \in [Claims -> {"none", "open", "accepted", "doubted"}]
    /\ superseded \subseteq Recorded /\ stale \subseteq Recorded /\ revised \subseteq Guides
    /\ fits \in Seq([outcome: Outcomes, text: Content])
    /\ checks \in Seq([outcome: Outcomes, text: Content, marks: Marks])
    /\ signs \in Seq([outcome: Decisions, text: Content, read: BOOLEAN])
    /\ hand \in [Rechecks -> {Idle} \cup [at: {"fit", "check"}, version: 0 .. version,
                                          text: Content, marks: Marks]]
    /\ page \in [Reviewers -> Content]

\* Two model calls long, a re-check stores a verdict only about the text and
\* the claims the library still holds when it is stored: no edit, supersession
\* or dispute that landed while the model was reading is vouched for
\* (record_script_fit_verdict, record_script_consistency_verdict, save).
VerdictsFitTheLibrary ==
    [][/\ fits' # fits => Last(fits').text = Text
       /\ checks' # checks => /\ Last(checks').text = Text
                              /\ Last(checks').marks = Fingerprint]_vars

\* Accepting a claim nobody doubts withdraws nothing: assess, adopt and
\* validate can be done in any order and still meet
\* (script_cited_claims_fingerprint).
AdoptionRetiresNothing ==
    [][\A c \in Claims \ superseded :
         adoption[c] = "open" /\ adoption'[c] = "accepted"
         => (Validated => Validated')]_vars

\* Readers lose an answer only for a reason: the text changed, a cited claim
\* was doubted, sent to a specialist, superseded or outdated, a model run
\* did not pass it, or a reviewer rejected it.  In particular adding a
\* direction is a change of text, and a save elsewhere in the library is not
\* (_work_product_content_checksum, resolve_script_readiness).
WithdrawnForAReason ==
    [][Reusable /\ ~Reusable' =>
         \/ Text' # Text
         \/ \E c \in Cited : \/ adoption'[c] # "accepted"
                             \/ c \in superseded' \/ c \in stale'
         \/ fits' # fits /\ Last(fits').outcome = "blocked"
         \/ checks' # checks /\ Last(checks').outcome = "blocked"
         \/ signs' # signs /\ Last(signs').outcome = "rejected"]_vars

\* A released script was validated by someone who had this very text open.
ReleasedAsRead ==
    Reusable => Latest(signs).read

=============================================================================
