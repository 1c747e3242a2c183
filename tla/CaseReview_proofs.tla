------------------------- MODULE CaseReview_proofs -------------------------
(***************************************************************************)
(* Proofs about CaseReview, for any number of sessions, users and admins   *)
(* and any lengths of the lists.                                           *)
(*                                                                         *)
(* A save goes through only when the session's copy is the file            *)
(* (CopiesAreTrue), so every save is an operation on the file itself.  The *)
(* lemmas of the first part say, operation by operation, how the file it   *)
(* writes differs from the one it read (Outcome); each property then       *)
(* follows from Outcome alone.                                             *)
(***************************************************************************)
EXTENDS CaseReview, SequenceTheorems, TLAPS

\* How a save of user u changes the Cases; X are those that it crosses.
CasesFit(u, old, new, X) ==
    /\ Len(old.cases) <= Len(new.cases)
    /\ X \subseteq CaseIds(old)
    /\ \A c \in CaseIds(old) :
          /\ new.cases[c].owner = old.cases[c].owner
          /\ new.cases[c].from = old.cases[c].from
          /\ old.cases[c].archived => new.cases[c] = old.cases[c]
          /\ (/\ old.cases[c].visibility = "private"
              /\ old.cases[c].owner # u /\ u \notin Admins)
                => new.cases[c] = old.cases[c]
          /\ old.cases[c].visibility = "collaborative"
                => new.cases[c].visibility = "collaborative" /\ c \notin X
          /\ old.cases[c].visibility # "collaborative"
                => (new.cases[c].visibility = "collaborative" <=> c \in X)
    /\ \A c \in CaseIds(new) : c > Len(old.cases) =>
          /\ new.cases[c].visibility = "private"
          /\ ~new.cases[c].archived
          /\ new.cases[c].from # 0 =>
                /\ new.cases[c].from \in CaseIds(old)
                /\ old.cases[new.cases[c].from].archived

\* A Case that user u may add to.
Open(u, old, c) ==
    \/ old.cases[c].visibility # "private"
    \/ old.cases[c].owner = u
    \/ u \in Admins

\* What is carried forward into entry i of a list of the new file.
CarryFits(list, i, old) ==
    list[i].carried # 0 =>
        LET home == list[list[i].carried].case IN
        /\ old.cases[home].archived
        /\ old.cases[list[i].case].from = home

FindingsFit(u, old, new) ==
    /\ Len(old.findings) <= Len(new.findings)
    /\ \A f \in FindingIds(old) :
          /\ new.findings[f].case = old.findings[f].case
          /\ new.findings[f].carried = old.findings[f].carried
          /\ old.cases[old.findings[f].case].archived => new.findings[f] = old.findings[f]
          /\ old.findings[f].applied => new.findings[f] = old.findings[f]
          /\ ~Open(u, old, old.findings[f].case) => new.findings[f] = old.findings[f]
    /\ \A f \in FindingIds(new) : f > Len(old.findings) =>
          /\ ~new.findings[f].applied
          /\ new.findings[f].verdict = "none" /\ new.findings[f].disposition = "none"
          /\ new.findings[f].case \in CaseIds(old)
          /\ new.findings[f].carried < f
          /\ Open(u, old, new.findings[f].case)
          /\ CarryFits(new.findings, f, old)

ThreadsFit(u, old, new) ==
    /\ Len(old.threads) <= Len(new.threads)
    /\ \A t \in ThreadIds(old) :
          /\ new.threads[t].case = old.threads[t].case
          /\ new.threads[t].carried = old.threads[t].carried
          /\ old.threads[t].spoken => new.threads[t].spoken
          /\ old.cases[old.threads[t].case].archived => new.threads[t] = old.threads[t]
          /\ ~Open(u, old, old.threads[t].case) => new.threads[t] = old.threads[t]
    /\ \A t \in ThreadIds(new) : t > Len(old.threads) =>
          /\ new.threads[t].case \in CaseIds(old)
          /\ new.threads[t].carried < t
          /\ Open(u, old, new.threads[t].case)
          /\ CarryFits(new.threads, t, old)

\* Apply adds the findings it applies to the knowledge, each once.
KnowledgeFits(old, new) ==
    \/ /\ new.knowledge = old.knowledge
       /\ \A f \in FindingIds(old) :
             new.findings[f].applied => old.findings[f].applied
    \/ \E n \in Nat : \E q \in [1..n -> FindingIds(old)] :
          /\ new.knowledge = old.knowledge \o q
          /\ \A i, j \in 1..n : i < j => q[i] < q[j]
          /\ \A i \in 1..n :
                /\ ~old.findings[q[i]].applied
                /\ old.findings[q[i]].disposition = "Confirmed"
                /\ new.findings[q[i]].applied
                /\ new.findings[q[i]].disposition = "Confirmed"
          /\ \A f \in FindingIds(old) :
                (new.findings[f].applied /\ ~old.findings[f].applied)
                    => \E i \in 1..n : q[i] = f

\* Who is validated stays validated, and only then is it disposed of.
VerdictsFit(old, new) ==
    \A f \in FindingIds(old) :
        /\ old.findings[f].verdict # "none" => new.findings[f].verdict # "none"
        /\ new.findings[f].disposition # old.findings[f].disposition
              => new.findings[f].verdict # "none"

HistoryFits(s, old, new, X) ==
    /\ owed' = [owed EXCEPT ![s] = X]
    /\ logged' = logged
    /\ lost' = lost
    /\ uncounted' \subseteq uncounted \cup CaseIds(old)
    /\ \A c \in foreign' : c \in foreign \/
          (c \in CaseIds(old) /\ new.cases[c].visibility = "collaborative")

\* A write that crosses no threshold.
Quiet(s) ==
    /\ UNCHANGED <<foreign, owed, logged, lost>>
    /\ uncounted' \subseteq uncounted \cup CaseIds(held[s])

Outcome(s, new, X) ==
    /\ Holding(s)
    /\ new \in Workspace
    /\ WellNamed(new)
    /\ new.version = held[s].version
    /\ \E after \in {NoCopy, Stamped(new)} :
          /\ SaveThen(s, new, after)
          /\ X # {} => after = NoCopy
    /\ CasesFit(Who[s], held[s], new, X)
    /\ FindingsFit(Who[s], held[s], new)
    /\ ThreadsFit(Who[s], held[s], new)
    /\ KnowledgeFits(held[s], new)
    /\ VerdictsFit(held[s], new)
    /\ HistoryFits(s, held[s], new, X)

\* A session with a copy in hand has nothing left to log.
HoldersOweNothing == \A s \in Sessions : Holding(s) => owed[s] = {}

\* A finding with a disposition was validated first.
DisposedWasValidated ==
    \A f \in FindingIds(stored) :
        stored.findings[f].disposition # "none" => stored.findings[f].verdict # "none"

Types == TypeOK /\ CopiesAreTrue /\ HoldersOweNothing

USE SessionsAssumption, ReviewAssumption, NoCopyAssumption

-----------------------------------------------------------------------------
(***************************************************************************)
(* Lists that stay as they are.                                            *)
(***************************************************************************)

LEMMA SameCases ==
    ASSUME NEW u, NEW old \in Workspace, NEW new \in Workspace, new.cases = old.cases
    PROVE  CasesFit(u, old, new, {})
BY DEF CasesFit, CaseIds, Workspace

LEMMA SameFindings ==
    ASSUME NEW u, NEW old \in Workspace, NEW new \in Workspace,
           new.findings = old.findings
    PROVE  FindingsFit(u, old, new) /\ VerdictsFit(old, new)
BY DEF FindingsFit, VerdictsFit, FindingIds, Workspace

LEMMA SameThreads ==
    ASSUME NEW u, NEW old \in Workspace, NEW new \in Workspace, new.threads = old.threads
    PROVE  ThreadsFit(u, old, new)
BY DEF ThreadsFit, ThreadIds, Workspace

LEMMA SameKnowledge ==
    ASSUME NEW old \in Workspace, NEW new \in Workspace,
           new.findings = old.findings, new.knowledge = old.knowledge
    PROVE  KnowledgeFits(old, new)
BY DEF KnowledgeFits

(***************************************************************************)
(* Lists that grow by one entry.                                           *)
(***************************************************************************)

LEMMA AddedCase ==
    ASSUME NEW u, NEW old \in Workspace, NEW new \in Workspace, NEW k \in CaseRecord,
           new.cases = Append(old.cases, k),
           k.visibility = "private", ~k.archived,
           k.from # 0 => k.from \in CaseIds(old) /\ old.cases[k.from].archived
    PROVE  CasesFit(u, old, new, {})
<1>1. /\ Len(new.cases) = Len(old.cases) + 1
      /\ \A c \in 1..Len(old.cases) : new.cases[c] = old.cases[c]
      /\ new.cases[Len(old.cases) + 1] = k
      /\ Len(old.cases) \in Nat
  BY DEF Workspace
<1>2. \A c \in CaseIds(new) : c > Len(old.cases) => c = Len(old.cases) + 1
  BY <1>1 DEF CaseIds
<1> QED
  BY <1>1, <1>2 DEF CasesFit, CaseIds

LEMMA AddedFinding ==
    ASSUME NEW u, NEW old \in Workspace, NEW new \in Workspace,
           NEW c \in CaseIds(old), NEW k \in Nat,
           new.findings = Append(old.findings, NewFinding(c, k)),
           new.knowledge = old.knowledge, Open(u, old, c),
           k # 0 => /\ k \in FindingIds(old)
                    /\ old.cases[old.findings[k].case].archived
                    /\ old.cases[c].from = old.findings[k].case
    PROVE  /\ FindingsFit(u, old, new)
           /\ VerdictsFit(old, new)
           /\ KnowledgeFits(old, new)
<1> DEFINE n == Len(old.findings)
<1>1. /\ Len(new.findings) = n + 1
      /\ \A f \in 1..n : new.findings[f] = old.findings[f]
      /\ new.findings[n + 1] = NewFinding(c, k)
      /\ n \in Nat
  BY DEF Workspace, NewFinding
<1>2. /\ NewFinding(c, k).case = c /\ NewFinding(c, k).carried = k
      /\ ~NewFinding(c, k).applied
      /\ NewFinding(c, k).verdict = "none" /\ NewFinding(c, k).disposition = "none"
  BY DEF NewFinding
<1>3. \A f \in FindingIds(new) : f > n => f = n + 1
  BY <1>1 DEF FindingIds
<1>4. k < n + 1
  BY <1>1 DEF FindingIds
<1>5. k # 0 => new.findings[k] = old.findings[k]
  BY <1>1 DEF FindingIds
<1>6. CarryFits(new.findings, n + 1, old)
  BY <1>1, <1>2, <1>5 DEF CarryFits
<1>7. FindingsFit(u, old, new)
  BY <1>1, <1>2, <1>3, <1>4, <1>6 DEF FindingsFit, FindingIds
<1>8. VerdictsFit(old, new) /\ KnowledgeFits(old, new)
  BY <1>1 DEF VerdictsFit, KnowledgeFits, FindingIds
<1> QED
  BY <1>7, <1>8

LEMMA AddedThread ==
    ASSUME NEW u, NEW old \in Workspace, NEW new \in Workspace,
           NEW c \in CaseIds(old), NEW k \in Nat, NEW b \in BOOLEAN,
           new.threads = Append(old.threads, NewThread(c, k, b)), Open(u, old, c),
           k # 0 => /\ k \in ThreadIds(old)
                    /\ old.cases[old.threads[k].case].archived
                    /\ old.cases[c].from = old.threads[k].case
    PROVE  ThreadsFit(u, old, new)
<1> DEFINE n == Len(old.threads)
<1>1. /\ Len(new.threads) = n + 1
      /\ \A t \in 1..n : new.threads[t] = old.threads[t]
      /\ new.threads[n + 1] = NewThread(c, k, b)
      /\ n \in Nat
  BY DEF Workspace, NewThread
<1>2. NewThread(c, k, b).case = c /\ NewThread(c, k, b).carried = k
  BY DEF NewThread
<1>3. \A t \in ThreadIds(new) : t > n => t = n + 1
  BY <1>1 DEF ThreadIds
<1>4. k < n + 1
  BY <1>1 DEF ThreadIds
<1>5. k # 0 => new.threads[k] = old.threads[k]
  BY <1>1 DEF ThreadIds
<1>6. CarryFits(new.threads, n + 1, old)
  BY <1>1, <1>2, <1>5 DEF CarryFits
<1> QED
  BY <1>1, <1>2, <1>3, <1>4, <1>6 DEF ThreadsFit, ThreadIds

(***************************************************************************)
(* Lists in which one entry is changed.                                    *)
(***************************************************************************)

LEMMA ChangedCase ==
    ASSUME NEW u, NEW old \in Workspace, NEW new \in Workspace, NEW c \in CaseIds(old),
           Len(new.cases) = Len(old.cases),
           \A d \in CaseIds(old) \ {c} : new.cases[d] = old.cases[d],
           new.cases[c].owner = old.cases[c].owner,
           new.cases[c].from = old.cases[c].from,
           ~old.cases[c].archived, Open(u, old, c),
           old.cases[c].visibility = "collaborative"
               <=> new.cases[c].visibility = "collaborative"
    PROVE  CasesFit(u, old, new, {})
<1> DEFINE Kept(d) ==
        /\ new.cases[d].owner = old.cases[d].owner
        /\ new.cases[d].from = old.cases[d].from
        /\ old.cases[d].archived => new.cases[d] = old.cases[d]
        /\ (/\ old.cases[d].visibility = "private"
            /\ old.cases[d].owner # u /\ u \notin Admins)
              => new.cases[d] = old.cases[d]
        /\ old.cases[d].visibility = "collaborative"
              => new.cases[d].visibility = "collaborative"
        /\ old.cases[d].visibility # "collaborative"
              => new.cases[d].visibility # "collaborative"
<1>1. Kept(c)
  BY DEF Open
<1>2. \A d \in CaseIds(old) : Kept(d)
  BY <1>1
<1>3. Len(old.cases) \in Nat /\ CaseIds(new) = CaseIds(old)
  BY DEF CaseIds, Workspace
<1>4. \A d \in CaseIds(new) : ~(d > Len(old.cases))
  BY <1>3 DEF CaseIds
<1> HIDE DEF Kept
<1> QED
  <2>1. \A d \in CaseIds(old) : Kept(d)
    BY <1>2
  <2> QED
    BY <2>1, <1>3, <1>4 DEF CasesFit, Kept

LEMMA ChangedFinding ==
    ASSUME NEW u, NEW old \in Workspace, NEW new \in Workspace, NEW f \in FindingIds(old),
           Len(new.findings) = Len(old.findings), new.knowledge = old.knowledge,
           \A g \in FindingIds(old) \ {f} : new.findings[g] = old.findings[g],
           new.findings[f].case = old.findings[f].case,
           new.findings[f].carried = old.findings[f].carried,
           ~old.cases[old.findings[f].case].archived,
           Open(u, old, old.findings[f].case),
           ~old.findings[f].applied, ~new.findings[f].applied,
           new.findings[f].verdict # "none"
    PROVE  /\ FindingsFit(u, old, new)
           /\ VerdictsFit(old, new)
           /\ KnowledgeFits(old, new)
<1>1. FindingsFit(u, old, new)
  BY DEF FindingsFit, FindingIds, Workspace
<1>2. VerdictsFit(old, new)
  BY DEF VerdictsFit, FindingIds
<1>3. KnowledgeFits(old, new)
  BY DEF KnowledgeFits, FindingIds
<1> QED
  BY <1>1, <1>2, <1>3

LEMMA ChangedThread ==
    ASSUME NEW u, NEW old \in Workspace, NEW new \in Workspace, NEW t \in ThreadIds(old),
           Len(new.threads) = Len(old.threads),
           \A g \in ThreadIds(old) \ {t} : new.threads[g] = old.threads[g],
           new.threads[t].case = old.threads[t].case,
           new.threads[t].carried = old.threads[t].carried,
           old.threads[t].spoken => new.threads[t].spoken,
           ~old.cases[old.threads[t].case].archived,
           Open(u, old, old.threads[t].case)
    PROVE  ThreadsFit(u, old, new)
BY DEF ThreadsFit, ThreadIds, Workspace

-----------------------------------------------------------------------------
(***************************************************************************)
(* Contributions and saves.                                                *)
(***************************************************************************)

LEMMA SequenceOf ==
    ASSUME NEW S, NEW n \in Nat, NEW q \in [1..n -> S]
    PROVE  q \in Seq(S) /\ Len(q) = n
<1>1. q \in Seq(S)
  BY SeqDef
<1> QED
  BY <1>1, LenProperties

LEMMA SettledFits ==
    ASSUME NEW u \in Users, NEW old \in Workspace, NEW ws \in Workspace,
           NEW C \in SUBSET CaseIds(old), ws.cases = old.cases,
           \A c \in C : ~old.cases[c].archived
    PROVE  /\ Settled(ws, C, u) \in Workspace
           /\ Settled(ws, C, u).version = ws.version
           /\ Settled(ws, C, u).findings = ws.findings
           /\ Settled(ws, C, u).threads = ws.threads
           /\ Settled(ws, C, u).knowledge = ws.knowledge
           /\ CasesFit(u, old, Settled(ws, C, u), Crossed(ws, C, u))
           /\ \A c \in C : (/\ old.cases[c].visibility # "private"
                            /\ old.cases[c].owner # u)
                  => Settled(ws, C, u).cases[c].visibility = "collaborative"
<1> DEFINE X == Crossed(ws, C, u)
           n == Len(old.cases)
           moved == [c \in DOMAIN ws.cases |->
                        IF c \in X
                        THEN [ws.cases[c] EXCEPT !.visibility = "collaborative", !.by = u]
                        ELSE ws.cases[c]]
           new == Settled(ws, C, u)
<1>1. /\ n \in Nat /\ DOMAIN ws.cases = 1..n
      /\ \A c \in 1..n : old.cases[c] \in CaseRecord
  BY DEF Workspace
<1>2. /\ X \subseteq C
      /\ \A c \in C : c \in X <=>
            (old.cases[c].visibility = "shared" /\ old.cases[c].owner # u)
  BY DEF Crossed
<1>3. \A c \in 1..n : moved[c] = IF c \in X
             THEN [old.cases[c] EXCEPT !.visibility = "collaborative", !.by = u]
             ELSE old.cases[c]
  BY <1>1
<1>4. \A c \in 1..n : c \in X =>
          /\ moved[c] \in CaseRecord
          /\ moved[c].visibility = "collaborative"
          /\ moved[c].owner = old.cases[c].owner
          /\ moved[c].from = old.cases[c].from
  <2> SUFFICES ASSUME NEW c \in 1..n, c \in X
               PROVE  /\ moved[c] \in CaseRecord
                      /\ moved[c].visibility = "collaborative"
                      /\ moved[c].owner = old.cases[c].owner
                      /\ moved[c].from = old.cases[c].from
    OBVIOUS
  <2>1. moved[c] = [old.cases[c] EXCEPT !.visibility = "collaborative", !.by = u]
    BY <1>3
  <2>2. old.cases[c] \in CaseRecord
    BY <1>1
  <2> HIDE DEF moved
  <2> QED
    BY <2>1, <2>2 DEF CaseRecord, Visibilities
<1>5. moved \in [1..n -> CaseRecord]
  <2>1. \A c \in 1..n : moved[c] \in CaseRecord
    BY <1>1, <1>3, <1>4
  <2>2. moved = [c \in 1..n |-> moved[c]]
    BY <1>1
  <2> HIDE DEF moved
  <2> QED
    BY <2>1, <2>2
<1>7. new = [ws EXCEPT !.cases = moved]
  BY DEF Settled
<1> HIDE DEF moved, new, X
<1>6. moved \in Seq(CaseRecord) /\ Len(moved) = n
  BY <1>1, <1>5, SequenceOf
<1>8. /\ new \in Workspace /\ new.version = ws.version /\ new.cases = moved
      /\ new.findings = ws.findings /\ new.threads = ws.threads
      /\ new.knowledge = ws.knowledge
  BY <1>6, <1>7 DEF Workspace
<1>9. CasesFit(u, old, new, X)
  <2>1. Len(new.cases) = n /\ CaseIds(new) = 1..n /\ CaseIds(old) = 1..n
    BY <1>6, <1>8 DEF CaseIds
  <2>2. X \subseteq CaseIds(old)
    BY <1>2
  <2>3. \A c \in X : /\ ~old.cases[c].archived
                     /\ old.cases[c].visibility = "shared"
    BY <1>2
  <2>4. \A c \in 1..n : c \notin X => new.cases[c] = old.cases[c]
    BY <1>3, <1>8
  <2>5. \A c \in X : /\ new.cases[c].visibility = "collaborative"
                     /\ new.cases[c].owner = old.cases[c].owner
                     /\ new.cases[c].from = old.cases[c].from
    BY <1>4, <1>8, <2>1, <2>2
  <2> QED
    BY <1>1, <2>1, <2>2, <2>3, <2>4, <2>5 DEF CasesFit
<1>10. \A c \in C : (old.cases[c].visibility # "private" /\ old.cases[c].owner # u)
           => new.cases[c].visibility = "collaborative"
  <2> SUFFICES ASSUME NEW c \in C, old.cases[c].visibility # "private",
                      old.cases[c].owner # u
               PROVE  new.cases[c].visibility = "collaborative"
    OBVIOUS
  <2>1. c \in 1..n /\ old.cases[c] \in CaseRecord
    BY <1>1 DEF CaseIds
  <2>2. old.cases[c].visibility \in {"shared", "collaborative"}
    BY <2>1 DEF CaseRecord, Visibilities
  <2>3. CASE c \in X
    BY <1>4, <1>8, <2>1, <2>3
  <2>4. CASE c \notin X
    BY <1>2, <1>3, <1>8, <2>1, <2>2, <2>4
  <2> QED
    BY <2>3, <2>4
<1> QED
  BY <1>8, <1>9, <1>10 DEF new, X

LEMMA StillNamed ==
    ASSUME NEW u, NEW X, NEW old \in Workspace, NEW new \in Workspace, WellNamed(old),
           CasesFit(u, old, new, X), FindingsFit(u, old, new), ThreadsFit(u, old, new)
    PROVE  WellNamed(new)
<1>1. /\ Len(old.cases) \in Nat /\ Len(new.cases) \in Nat
      /\ Len(old.findings) \in Nat /\ Len(new.findings) \in Nat
      /\ Len(old.threads) \in Nat /\ Len(new.threads) \in Nat
      /\ Len(old.cases) <= Len(new.cases)
  BY DEF Workspace, CasesFit
<1>2. CaseIds(old) \subseteq 1..Len(new.cases)
  BY <1>1 DEF CaseIds
<1>3. ASSUME NEW i \in 1..Len(new.findings)
      PROVE  /\ new.findings[i].case \in 1..Len(new.cases)
             /\ new.findings[i].carried < i
  <2>1. CASE i <= Len(old.findings)
    BY <1>1, <1>2, <2>1 DEF FindingsFit, FindingIds, WellNamed, CaseIds
  <2>2. CASE i > Len(old.findings)
    BY <1>1, <1>2, <2>2 DEF FindingsFit, FindingIds
  <2> QED
    BY <1>1, <2>1, <2>2
<1>4. ASSUME NEW i \in 1..Len(new.threads)
      PROVE  /\ new.threads[i].case \in 1..Len(new.cases)
             /\ new.threads[i].carried < i
  <2>1. CASE i <= Len(old.threads)
    BY <1>1, <1>2, <2>1 DEF ThreadsFit, ThreadIds, WellNamed, CaseIds
  <2>2. CASE i > Len(old.threads)
    BY <1>1, <1>2, <2>2 DEF ThreadsFit, ThreadIds
  <2> QED
    BY <1>1, <2>1, <2>2
<1>5. ASSUME NEW i \in 1..Len(new.cases)
      PROVE  new.cases[i].from < i
  <2>1. CASE i <= Len(old.cases)
    BY <1>1, <2>1 DEF CasesFit, CaseIds, WellNamed
  <2>2. CASE i > Len(old.cases)
    BY <1>1, <2>2 DEF CasesFit, CaseIds
  <2> QED
    BY <1>1, <2>1, <2>2
<1> QED
  BY <1>3, <1>4, <1>5 DEF WellNamed

LEMMA HeldIsTyped ==
    ASSUME Types, NEW s \in Sessions, Holding(s)
    PROVE  /\ held[s] \in Workspace /\ WellNamed(held[s])
           /\ owed[s] = {} /\ Who[s] \in Users
           /\ Len(held[s].cases) \in Nat /\ Len(held[s].findings) \in Nat
           /\ Len(held[s].threads) \in Nat
<1>1. held[s] \in Workspace
  BY DEF Types, TypeOK, Holding
<1> QED
  BY <1>1 DEF Types, TypeOK, HoldersOweNothing, Workspace

\* The fits of the lists do not look at the Cases of the new file.
LEMMA SameParts ==
    ASSUME NEW u, NEW old, NEW a, NEW b, a.findings = b.findings,
           a.threads = b.threads, a.knowledge = b.knowledge,
           FindingsFit(u, old, a), ThreadsFit(u, old, a),
           KnowledgeFits(old, a), VerdictsFit(old, a)
    PROVE  FindingsFit(u, old, b) /\ ThreadsFit(u, old, b)
           /\ KnowledgeFits(old, b) /\ VerdictsFit(old, b)
<1>1. FindingsFit(u, old, b)
  BY DEF FindingsFit, FindingIds
<1>2. ThreadsFit(u, old, b)
  BY Zenon DEF ThreadsFit, ThreadIds, CarryFits
<1>3. VerdictsFit(old, b)
  BY DEF VerdictsFit
<1>4. KnowledgeFits(old, b)
  BY SMT DEF KnowledgeFits
<1> QED
  BY <1>1, <1>2, <1>3, <1>4

LEMMA PlainIsQuiet ==
    ASSUME NEW s \in Sessions, UNCHANGED history
    PROVE  Quiet(s)
BY DEF history, Quiet

LEMMA WriteIsQuiet ==
    ASSUME NEW s \in Sessions, NEW ws, Write(s, ws)
    PROVE  SaveThen(s, ws, NoCopy) /\ Quiet(s)
BY PlainIsQuiet DEF Write, Save

LEMMA UncountedIsQuiet ==
    ASSUME NEW s \in Sessions, NEW ws, NEW c \in CaseIds(held[s]), WriteUncounted(s, ws, c)
    PROVE  SaveThen(s, ws, NoCopy) /\ Quiet(s)
<1>1. Crossed(held[s], {c}, Who[s]) \subseteq CaseIds(held[s])
  BY DEF Crossed
<1> QED
  BY <1>1 DEF WriteUncounted, Save, Quiet

\* A write of the copy changed into new that crosses no threshold.
LEMMA WriteOutcome ==
    ASSUME Types, NEW s \in Sessions, Holding(s),
           NEW new \in Workspace, new.version = held[s].version,
           NEW after \in {NoCopy, Stamped(new)},
           SaveThen(s, new, after), Quiet(s),
           CasesFit(Who[s], held[s], new, {}), FindingsFit(Who[s], held[s], new),
           ThreadsFit(Who[s], held[s], new), KnowledgeFits(held[s], new),
           VerdictsFit(held[s], new)
    PROVE  Outcome(s, new, {})
<1>1. held[s] \in Workspace /\ WellNamed(held[s]) /\ owed[s] = {}
  BY HeldIsTyped
<1>2. WellNamed(new)
  BY <1>1, StillNamed
<1>3. owed' = [owed EXCEPT ![s] = {}]
  BY <1>1 DEF Quiet, Types, TypeOK
<1>4. HistoryFits(s, held[s], new, {})
  BY <1>3 DEF HistoryFits, Quiet
<1> QED
  BY <1>2, <1>4 DEF Outcome

\* A contribution of the changed copy ws to the Cases C.
LEMMA ContributeOutcome ==
    ASSUME Types, NEW s \in Sessions, Holding(s), NEW ws \in Workspace,
           ws.version = held[s].version, ws.cases = held[s].cases,
           NEW C \in SUBSET CaseIds(held[s]), \A c \in C : NotArchived(held[s], c),
           Contribute(s, ws, C),
           FindingsFit(Who[s], held[s], ws), ThreadsFit(Who[s], held[s], ws),
           KnowledgeFits(held[s], ws), VerdictsFit(held[s], ws)
    PROVE  \E new, X : Outcome(s, new, X)
<1> DEFINE old == held[s]
           u == Who[s]
           new == Settled(ws, C, u)
           X == Crossed(ws, C, u)
<1>1. old \in Workspace /\ WellNamed(old) /\ owed[s] = {} /\ u \in Users
  BY HeldIsTyped
<1>2. /\ new \in Workspace
      /\ new.version = old.version
      /\ new.findings = ws.findings
      /\ new.threads = ws.threads
      /\ new.knowledge = ws.knowledge
      /\ CasesFit(u, old, new, X)
      /\ \A c \in C : (old.cases[c].visibility # "private" /\ old.cases[c].owner # u)
             => new.cases[c].visibility = "collaborative"
  BY <1>1, SettledFits DEF NotArchived
<1>3. SaveThen(s, new, NoCopy)
  BY DEF Contribute, Save
<1>4. HistoryFits(s, old, new, X)
  <2>1. foreign' = foreign \cup
            {c \in C : ws.cases[c].visibility # "private" /\ ws.cases[c].owner # u}
    BY DEF Contribute
  <2>2. /\ owed' = [owed EXCEPT ![s] = X] /\ logged' = logged /\ lost' = lost
        /\ uncounted' = uncounted
    BY DEF Contribute
  <2>3. \A c \in foreign' : c \in foreign \/
            (c \in CaseIds(old) /\ new.cases[c].visibility = "collaborative")
    BY <1>2, <2>1
  <2> QED
    BY <2>2, <2>3 DEF HistoryFits
<1> HIDE DEF old, u, new, X
<1>5. FindingsFit(u, old, new) /\ ThreadsFit(u, old, new)
      /\ KnowledgeFits(old, new) /\ VerdictsFit(old, new)
  <2>1. FindingsFit(u, old, ws) /\ ThreadsFit(u, old, ws)
        /\ KnowledgeFits(old, ws) /\ VerdictsFit(old, ws)
    BY DEF u, old
  <2> QED
    BY <1>2, <2>1, SameParts
<1>6. WellNamed(new)
  BY <1>1, <1>2, <1>5, StillNamed
<1>7. Outcome(s, new, X)
  BY <1>2, <1>3, <1>4, <1>5, <1>6 DEF Outcome, old, u
<1> QED
  BY <1>7

-----------------------------------------------------------------------------
(***************************************************************************)
(* The operations, one by one.                                             *)
(***************************************************************************)

WithCase(ws, c, k) == [ws EXCEPT !.cases = [ws.cases EXCEPT ![c] = k]]
WithFinding(ws, f, k) == [ws EXCEPT !.findings = [ws.findings EXCEPT ![f] = k]]
WithThread(ws, t, k) == [ws EXCEPT !.threads = [ws.threads EXCEPT ![t] = k]]

LEMMA CaseChange ==
    ASSUME NEW old \in Workspace, NEW c \in CaseIds(old), NEW k \in CaseRecord, NEW new,
           new = WithCase(old, c, k)
    PROVE  /\ new \in Workspace /\ new.version = old.version
           /\ new.findings = old.findings /\ new.threads = old.threads
           /\ new.knowledge = old.knowledge
           /\ Len(new.cases) = Len(old.cases)
           /\ new.cases[c] = k
           /\ \A d \in CaseIds(old) \ {c} : new.cases[d] = old.cases[d]
<1>1. old.cases \in Seq(CaseRecord) /\ c \in 1..Len(old.cases)
  BY DEF Workspace, CaseIds
<1>2. /\ [old.cases EXCEPT ![c] = k] \in Seq(CaseRecord)
      /\ Len([old.cases EXCEPT ![c] = k]) = Len(old.cases)
      /\ \A d \in 1..Len(old.cases) :
            [old.cases EXCEPT ![c] = k][d] = IF d = c THEN k ELSE old.cases[d]
  BY <1>1, ExceptSeq
<1> QED
  BY <1>1, <1>2 DEF Workspace, CaseIds, WithCase

LEMMA FindingChange ==
    ASSUME NEW old \in Workspace, NEW f \in FindingIds(old), NEW k \in Finding, NEW new,
           new = WithFinding(old, f, k)
    PROVE  /\ new \in Workspace /\ new.version = old.version
           /\ new.cases = old.cases /\ new.threads = old.threads
           /\ new.knowledge = old.knowledge
           /\ Len(new.findings) = Len(old.findings)
           /\ new.findings[f] = k
           /\ \A g \in FindingIds(old) \ {f} : new.findings[g] = old.findings[g]
<1>1. old.findings \in Seq(Finding) /\ f \in 1..Len(old.findings)
  BY DEF Workspace, FindingIds
<1>2. /\ [old.findings EXCEPT ![f] = k] \in Seq(Finding)
      /\ Len([old.findings EXCEPT ![f] = k]) = Len(old.findings)
      /\ \A d \in 1..Len(old.findings) :
            [old.findings EXCEPT ![f] = k][d] = IF d = f THEN k ELSE old.findings[d]
  BY <1>1, ExceptSeq
<1> QED
  BY <1>1, <1>2 DEF Workspace, FindingIds, WithFinding

LEMMA ThreadChange ==
    ASSUME NEW old \in Workspace, NEW t \in ThreadIds(old), NEW k \in Thread, NEW new,
           new = WithThread(old, t, k)
    PROVE  /\ new \in Workspace /\ new.version = old.version
           /\ new.cases = old.cases /\ new.findings = old.findings
           /\ new.knowledge = old.knowledge
           /\ Len(new.threads) = Len(old.threads)
           /\ new.threads[t] = k
           /\ \A g \in ThreadIds(old) \ {t} : new.threads[g] = old.threads[g]
<1>1. old.threads \in Seq(Thread) /\ t \in 1..Len(old.threads)
  BY DEF Workspace, ThreadIds
<1>2. /\ [old.threads EXCEPT ![t] = k] \in Seq(Thread)
      /\ Len([old.threads EXCEPT ![t] = k]) = Len(old.threads)
      /\ \A d \in 1..Len(old.threads) :
            [old.threads EXCEPT ![t] = k][d] = IF d = t THEN k ELSE old.threads[d]
  BY <1>1, ExceptSeq
<1> QED
  BY <1>1, <1>2 DEF Workspace, ThreadIds, WithThread

\* A write that changes Case c alone, into k.
LEMMA CaseWrite ==
    ASSUME Types, NEW s \in Sessions, Holding(s), NEW c \in CaseIds(held[s]),
           NEW k \in CaseRecord, NEW new,
           new = WithCase(held[s], c, k),
           Write(s, new), NotArchived(held[s], c), Open(Who[s], held[s], c),
           k.owner = held[s].cases[c].owner, k.from = held[s].cases[c].from,
           held[s].cases[c].visibility = "collaborative" <=> k.visibility = "collaborative"
    PROVE  \E w, X : Outcome(s, w, X)
<1>1. held[s] \in Workspace
  BY HeldIsTyped
<1>2. /\ new \in Workspace /\ new.version = held[s].version
      /\ new.findings = held[s].findings /\ new.threads = held[s].threads
      /\ new.knowledge = held[s].knowledge
      /\ Len(new.cases) = Len(held[s].cases)
      /\ new.cases[c] = k
      /\ \A d \in CaseIds(held[s]) \ {c} : new.cases[d] = held[s].cases[d]
  <2>1. PICK old \in Workspace : old = held[s]
    BY <1>1
  <2>2. /\ c \in CaseIds(old)
        /\ new = WithCase(old, c, k)
    BY <2>1
  <2>3. /\ new \in Workspace /\ new.version = old.version
        /\ new.findings = old.findings
        /\ new.threads = old.threads /\ new.knowledge = old.knowledge
        /\ Len(new.cases) = Len(old.cases)
        /\ new.cases[c] = k
        /\ \A d \in CaseIds(old) \ {c} : new.cases[d] = old.cases[d]
    BY <2>2, CaseChange
  <2> QED
    BY <2>1, <2>3
<1>3. CasesFit(Who[s], held[s], new, {})
  BY <1>1, <1>2, ChangedCase DEF NotArchived
<1>4. SaveThen(s, new, NoCopy) /\ Quiet(s)
  BY WriteIsQuiet
<1>5. Outcome(s, new, {})
  BY <1>1, <1>2, <1>3, <1>4, WriteOutcome, SameFindings, SameThreads, SameKnowledge
<1> QED
  BY <1>5

\* A write that changes thread t alone, into k.
LEMMA ThreadWrite ==
    ASSUME Types, NEW s \in Sessions, Holding(s), NEW t \in ThreadIds(held[s]),
           NEW k \in Thread, NEW new,
           new = WithThread(held[s], t, k),
           Write(s, new), Discussing(s, t),
           k.case = held[s].threads[t].case, k.carried = held[s].threads[t].carried,
           held[s].threads[t].spoken => k.spoken
    PROVE  \E w, X : Outcome(s, w, X)
<1>1. held[s] \in Workspace
  BY HeldIsTyped
<1>2. /\ new \in Workspace /\ new.version = held[s].version
      /\ new.cases = held[s].cases /\ new.findings = held[s].findings
      /\ new.knowledge = held[s].knowledge
      /\ Len(new.threads) = Len(held[s].threads)
      /\ new.threads[t] = k
      /\ \A d \in ThreadIds(held[s]) \ {t} : new.threads[d] = held[s].threads[d]
  <2>1. PICK old \in Workspace : old = held[s]
    BY <1>1
  <2>2. /\ t \in ThreadIds(old)
        /\ new = WithThread(old, t, k)
    BY <2>1
  <2>3. /\ new \in Workspace /\ new.version = old.version
        /\ new.cases = old.cases /\ new.findings = old.findings
        /\ new.knowledge = old.knowledge
        /\ Len(new.threads) = Len(old.threads)
        /\ new.threads[t] = k
        /\ \A d \in ThreadIds(old) \ {t} : new.threads[d] = old.threads[d]
    BY <2>2, ThreadChange
  <2> QED
    BY <2>1, <2>3
<1>3. ThreadsFit(Who[s], held[s], new)
  BY <1>1, <1>2, ChangedThread DEF Discussing, NotArchived, Visible, Open
<1>4. SaveThen(s, new, NoCopy) /\ Quiet(s)
  BY WriteIsQuiet
<1>5. Outcome(s, new, {})
  BY <1>1, <1>2, <1>3, <1>4, WriteOutcome, SameCases, SameFindings, SameKnowledge
<1> QED
  BY <1>5

\* A contribution that changes thread t alone, into k.
LEMMA ThreadContribution ==
    ASSUME Types, NEW s \in Sessions, Holding(s), NEW t \in ThreadIds(held[s]),
           NEW k \in Thread, NEW new,
           new = WithThread(held[s], t, k),
           Contribute(s, new, {held[s].threads[t].case}), Discussing(s, t),
           k.case = held[s].threads[t].case, k.carried = held[s].threads[t].carried,
           held[s].threads[t].spoken => k.spoken
    PROVE  \E w, X : Outcome(s, w, X)
<1>1. held[s] \in Workspace /\ WellNamed(held[s])
  BY HeldIsTyped
<1>2. /\ new \in Workspace /\ new.version = held[s].version
      /\ new.cases = held[s].cases /\ new.findings = held[s].findings
      /\ new.knowledge = held[s].knowledge
      /\ Len(new.threads) = Len(held[s].threads)
      /\ new.threads[t] = k
      /\ \A d \in ThreadIds(held[s]) \ {t} : new.threads[d] = held[s].threads[d]
  <2>1. PICK old \in Workspace : old = held[s]
    BY <1>1
  <2>2. /\ t \in ThreadIds(old)
        /\ new = WithThread(old, t, k)
    BY <2>1
  <2>3. /\ new \in Workspace /\ new.version = old.version
        /\ new.cases = old.cases /\ new.findings = old.findings
        /\ new.knowledge = old.knowledge
        /\ Len(new.threads) = Len(old.threads)
        /\ new.threads[t] = k
        /\ \A d \in ThreadIds(old) \ {t} : new.threads[d] = old.threads[d]
    BY <2>2, ThreadChange
  <2> QED
    BY <2>1, <2>3
<1>3. ThreadsFit(Who[s], held[s], new)
  BY <1>1, <1>2, ChangedThread DEF Discussing, NotArchived, Visible, Open
<1>4. {held[s].threads[t].case} \in SUBSET CaseIds(held[s])
  BY <1>1 DEF WellNamed, ThreadIds, CaseIds
<1>5. \A c \in {held[s].threads[t].case} : NotArchived(held[s], c)
  BY DEF Discussing
<1>6. FindingsFit(Who[s], held[s], new) /\ VerdictsFit(held[s], new)
      /\ KnowledgeFits(held[s], new)
  BY <1>1, <1>2, SameFindings, SameKnowledge
<1> QED
  BY <1>2, <1>3, <1>4, <1>5, <1>6, ContributeOutcome

\* A contribution that changes the open finding f alone, into k.
LEMMA FindingContribution ==
    ASSUME Types, NEW s \in Sessions, Holding(s), NEW f \in FindingIds(held[s]),
           NEW k \in Finding, NEW new,
           new = WithFinding(held[s], f, k),
           Contribute(s, new, {held[s].findings[f].case}),
           Visible(held[s], held[s].findings[f].case, Who[s]),
           NotArchived(held[s], held[s].findings[f].case),
           ~held[s].findings[f].applied, ~k.applied, k.verdict # "none",
           k.case = held[s].findings[f].case, k.carried = held[s].findings[f].carried
    PROVE  \E w, X : Outcome(s, w, X)
<1>1. held[s] \in Workspace /\ WellNamed(held[s])
  BY HeldIsTyped
<1>2. /\ new \in Workspace /\ new.version = held[s].version
      /\ new.cases = held[s].cases /\ new.threads = held[s].threads
      /\ new.knowledge = held[s].knowledge
      /\ Len(new.findings) = Len(held[s].findings)
      /\ new.findings[f] = k
      /\ \A d \in FindingIds(held[s]) \ {f} : new.findings[d] = held[s].findings[d]
  <2>1. PICK old \in Workspace : old = held[s]
    BY <1>1
  <2>2. /\ f \in FindingIds(old)
        /\ new = WithFinding(old, f, k)
    BY <2>1
  <2>3. /\ new \in Workspace /\ new.version = old.version
        /\ new.cases = old.cases
        /\ new.threads = old.threads /\ new.knowledge = old.knowledge
        /\ Len(new.findings) = Len(old.findings)
        /\ new.findings[f] = k
        /\ \A d \in FindingIds(old) \ {f} : new.findings[d] = old.findings[d]
    BY <2>2, FindingChange
  <2> QED
    BY <2>1, <2>3
<1>3. FindingsFit(Who[s], held[s], new) /\ VerdictsFit(held[s], new)
      /\ KnowledgeFits(held[s], new)
  BY <1>1, <1>2, ChangedFinding DEF NotArchived, Visible, Open
<1>4. {held[s].findings[f].case} \in SUBSET CaseIds(held[s])
  BY <1>1 DEF WellNamed, FindingIds, CaseIds
<1>5. \A c \in {held[s].findings[f].case} : NotArchived(held[s], c)
  OBVIOUS
<1>6. ThreadsFit(Who[s], held[s], new)
  BY <1>1, <1>2, SameThreads
<1> QED
  BY <1>2, <1>3, <1>4, <1>5, <1>6, ContributeOutcome

LEMMA ShareOutcome ==
    ASSUME Types, NEW s \in Sessions, ShareCase(s)
    PROVE  \E w, X : Outcome(s, w, X)
<1>1. Holding(s) /\ held[s] \in Workspace
  BY HeldIsTyped DEF ShareCase
<1>2. PICK c \in CaseIds(held[s]) :
          /\ NotArchived(held[s], c) /\ Open(Who[s], held[s], c)
          /\ Write(s, [held[s] EXCEPT !.cases[c].visibility = "shared"])
          /\ held[s].cases[c].visibility = "private"
  BY DEF ShareCase, Open, Visible, OwnerOrAdmin
<1> DEFINE k == [held[s].cases[c] EXCEPT !.visibility = "shared"]
           new == WithCase(held[s], c, k)
<1>3. held[s].cases[c] \in CaseRecord
  BY <1>1 DEF Workspace, CaseIds
<1>4. /\ k \in CaseRecord
      /\ k.owner = held[s].cases[c].owner /\ k.from = held[s].cases[c].from
      /\ held[s].cases[c].visibility = "collaborative" <=> k.visibility = "collaborative"
  BY <1>2, <1>3 DEF CaseRecord, Visibilities
<1>5. Write(s, new)
  BY <1>2 DEF WithCase
<1> HIDE DEF k
<1> QED
  BY <1>1, <1>2, <1>4, <1>5, CaseWrite

LEMMA RetractOutcome ==
    ASSUME Types, NEW s \in Sessions, RetractCase(s)
    PROVE  \E w, X : Outcome(s, w, X)
<1>1. Holding(s) /\ held[s] \in Workspace
  BY HeldIsTyped DEF RetractCase
<1>2. PICK c \in CaseIds(held[s]) :
          /\ NotArchived(held[s], c) /\ Open(Who[s], held[s], c)
          /\ Write(s, [held[s] EXCEPT !.cases[c].visibility = "private"])
          /\ held[s].cases[c].visibility = "shared"
  BY DEF RetractCase, Open, Visible, OwnerOrAdmin
<1> DEFINE k == [held[s].cases[c] EXCEPT !.visibility = "private"]
           new == WithCase(held[s], c, k)
<1>3. held[s].cases[c] \in CaseRecord
  BY <1>1 DEF Workspace, CaseIds
<1>4. /\ k \in CaseRecord
      /\ k.owner = held[s].cases[c].owner /\ k.from = held[s].cases[c].from
      /\ held[s].cases[c].visibility = "collaborative" <=> k.visibility = "collaborative"
  BY <1>2, <1>3 DEF CaseRecord, Visibilities
<1>5. Write(s, new)
  BY <1>2 DEF WithCase
<1> HIDE DEF k
<1> QED
  BY <1>1, <1>2, <1>4, <1>5, CaseWrite

LEMMA ArchiveOutcome ==
    ASSUME Types, NEW s \in Sessions, ArchiveCase(s)
    PROVE  \E w, X : Outcome(s, w, X)
<1>1. Holding(s) /\ held[s] \in Workspace
  BY HeldIsTyped DEF ArchiveCase
<1>2. PICK c \in CaseIds(held[s]) :
          /\ NotArchived(held[s], c) /\ Open(Who[s], held[s], c)
          /\ Write(s, [held[s] EXCEPT !.cases[c].archived = TRUE])
  BY DEF ArchiveCase, Open, Visible, OwnerOrAdmin
<1> DEFINE k == [held[s].cases[c] EXCEPT !.archived = TRUE]
           new == WithCase(held[s], c, k)
<1>3. held[s].cases[c] \in CaseRecord
  BY <1>1 DEF Workspace, CaseIds
<1>4. /\ k \in CaseRecord
      /\ k.owner = held[s].cases[c].owner /\ k.from = held[s].cases[c].from
      /\ held[s].cases[c].visibility = "collaborative" <=> k.visibility = "collaborative"
  BY <1>2, <1>3 DEF CaseRecord, Visibilities
<1>5. Write(s, new)
  BY <1>2 DEF WithCase
<1> HIDE DEF k
<1> QED
  BY <1>1, <1>2, <1>4, <1>5, CaseWrite

LEMMA AttachOutcome ==
    ASSUME Types, NEW s \in Sessions, AttachSource(s)
    PROVE  \E w, X : Outcome(s, w, X)
<1>1. Holding(s) /\ held[s] \in Workspace
  BY HeldIsTyped DEF AttachSource
<1>2. PICK c \in CaseIds(held[s]) :
          /\ NotArchived(held[s], c) /\ Open(Who[s], held[s], c)
          /\ Write(s, [held[s] EXCEPT !.cases[c].linked = TRUE])
  BY DEF AttachSource, Open, Visible, OwnerOrAdmin
<1> DEFINE k == [held[s].cases[c] EXCEPT !.linked = TRUE]
           new == WithCase(held[s], c, k)
<1>3. held[s].cases[c] \in CaseRecord
  BY <1>1 DEF Workspace, CaseIds
<1>4. /\ k \in CaseRecord
      /\ k.owner = held[s].cases[c].owner /\ k.from = held[s].cases[c].from
      /\ held[s].cases[c].visibility = "collaborative" <=> k.visibility = "collaborative"
  BY <1>2, <1>3 DEF CaseRecord, Visibilities
<1>5. Write(s, new)
  BY <1>2 DEF WithCase
<1> HIDE DEF k
<1> QED
  BY <1>1, <1>2, <1>4, <1>5, CaseWrite

LEMMA MessageOutcome ==
    ASSUME Types, NEW s \in Sessions, AddMessage(s)
    PROVE  \E w, X : Outcome(s, w, X)
<1>1. Holding(s) /\ held[s] \in Workspace
  BY HeldIsTyped DEF AddMessage
<1>2. PICK c \in CaseIds(held[s]) :
          /\ NotArchived(held[s], c) /\ Open(Who[s], held[s], c)
          /\ Write(s, [held[s] EXCEPT !.cases[c].turns = held[s].cases[c].turns + 1])
  BY DEF AddMessage, Open, Visible, OwnerOrAdmin
<1> DEFINE k == [held[s].cases[c] EXCEPT !.turns = held[s].cases[c].turns + 1]
           new == WithCase(held[s], c, k)
<1>3. held[s].cases[c] \in CaseRecord
  BY <1>1 DEF Workspace, CaseIds
<1>4. /\ k \in CaseRecord
      /\ k.owner = held[s].cases[c].owner /\ k.from = held[s].cases[c].from
      /\ held[s].cases[c].visibility = "collaborative" <=> k.visibility = "collaborative"
  BY <1>2, <1>3 DEF CaseRecord, Visibilities
<1>5. Write(s, new)
  BY <1>2 DEF WithCase
<1> HIDE DEF k
<1> QED
  BY <1>1, <1>2, <1>4, <1>5, CaseWrite


LEMMA TypedNewcomers ==
    ASSUME NEW u \in Users, NEW c \in Nat, NEW k \in Nat, NEW b \in BOOLEAN
    PROVE  /\ NewCase(u, k, b) \in CaseRecord
           /\ NewFinding(c, k) \in Finding
           /\ NewThread(c, k, b) \in Thread
BY DEF NewCase, NewFinding, NewThread, CaseRecord, Finding, Thread, Visibilities,
       Dispositions, Verdicts, ThreadStatuses

PlusCase(ws, k) == [ws EXCEPT !.cases = Append(ws.cases, k)]
PlusFinding(ws, k) == [ws EXCEPT !.findings = Append(ws.findings, k)]
PlusThread(ws, k) == [ws EXCEPT !.threads = Append(ws.threads, k)]

LEMMA PlusOne ==
    ASSUME NEW old \in Workspace, NEW new,
           \/ \E k \in CaseRecord : new = PlusCase(old, k)
           \/ \E k \in Finding : new = PlusFinding(old, k)
           \/ \E k \in Thread : new = PlusThread(old, k)
    PROVE  new \in Workspace /\ new.version = old.version
<1>1. CASE \E k \in CaseRecord : new = PlusCase(old, k)
  <2>1. PICK k \in CaseRecord : new = PlusCase(old, k)
    BY <1>1
  <2>2. old.cases \in Seq(CaseRecord)
    BY DEF Workspace
  <2>3. Append(old.cases, k) \in Seq(CaseRecord)
    BY <2>2, AppendProperties
  <2> QED
    BY <2>1, <2>3 DEF Workspace, PlusCase
<1>2. CASE \E k \in Finding : new = PlusFinding(old, k)
  <2>1. PICK k \in Finding : new = PlusFinding(old, k)
    BY <1>2
  <2>2. old.findings \in Seq(Finding)
    BY DEF Workspace
  <2>3. Append(old.findings, k) \in Seq(Finding)
    BY <2>2, AppendProperties
  <2> QED
    BY <2>1, <2>3 DEF Workspace, PlusFinding
<1>3. CASE \E k \in Thread : new = PlusThread(old, k)
  <2>1. PICK k \in Thread : new = PlusThread(old, k)
    BY <1>3
  <2>2. old.threads \in Seq(Thread)
    BY DEF Workspace
  <2>3. Append(old.threads, k) \in Seq(Thread)
    BY <2>2, AppendProperties
  <2> QED
    BY <2>1, <2>3 DEF Workspace, PlusThread
<1> QED
  BY <1>1, <1>2, <1>3

\* A write that adds a Case and nothing else.
LEMMA NewCaseWrite ==
    ASSUME Types, NEW s \in Sessions, Holding(s),
           NEW k \in Nat, NEW b \in BOOLEAN, NEW new, NEW after \in {NoCopy, Stamped(new)},
           new = PlusCase(held[s], NewCase(Who[s], k, b)),
           SaveThen(s, new, after), Quiet(s),
           k # 0 => k \in CaseIds(held[s]) /\ held[s].cases[k].archived
    PROVE  \E w, X : Outcome(s, w, X)
<1>1. held[s] \in Workspace /\ Who[s] \in Users
  BY HeldIsTyped
<1>2. PICK old \in Workspace : old = held[s]
  BY <1>1
<1>3. PICK new1 : new1 = new /\ new1 = PlusCase(old, NewCase(Who[s], k, b))
  BY <1>2
<1>4. NewCase(Who[s], k, b) \in CaseRecord
  BY <1>1, TypedNewcomers
<1>5. new1 \in Workspace /\ new1.version = old.version
  BY <1>3, <1>4, PlusOne
<1>6. /\ new1.cases = Append(old.cases, NewCase(Who[s], k, b))
      /\ new1.findings = old.findings /\ new1.threads = old.threads
      /\ new1.knowledge = old.knowledge
  BY <1>3 DEF PlusCase, Workspace
<1>7. /\ NewCase(Who[s], k, b).visibility = "private"
      /\ ~NewCase(Who[s], k, b).archived
      /\ NewCase(Who[s], k, b).from = k
  BY DEF NewCase
<1>8. CasesFit(Who[s], old, new1, {})
  BY <1>2, <1>4, <1>5, <1>6, <1>7, AddedCase
<1>9. /\ FindingsFit(Who[s], old, new1) /\ VerdictsFit(old, new1)
      /\ ThreadsFit(Who[s], old, new1) /\ KnowledgeFits(old, new1)
  BY <1>5, <1>6, SameFindings, SameThreads, SameKnowledge
<1>10. Outcome(s, new1, {})
  BY <1>2, <1>3, <1>5, <1>8, <1>9, WriteOutcome
<1> QED
  BY <1>10

LEMMA CreateOutcome ==
    ASSUME Types, NEW s \in Sessions, CreateCase(s)
    PROVE  \E w, X : Outcome(s, w, X)
<1> DEFINE new == PlusCase(held[s], NewCase(Who[s], 0, FALSE))
<1>1. Holding(s) /\ SaveThen(s, new, Stamped(new)) /\ Quiet(s)
  BY PlainIsQuiet DEF CreateCase, PlusCase
<1> QED
  BY <1>1, NewCaseWrite

LEMMA DeriveOutcome ==
    ASSUME Types, NEW s \in Sessions, DeriveCase(s)
    PROVE  \E w, X : Outcome(s, w, X)
<1>1. Holding(s) /\ held[s] \in Workspace
  BY HeldIsTyped DEF DeriveCase
<1>2. PICK c \in CaseIds(held[s]) :
          /\ held[s].cases[c].archived
          /\ Write(s, [held[s] EXCEPT !.cases =
                 Append(held[s].cases, NewCase(Who[s], c, held[s].cases[c].linked))])
  BY DEF DeriveCase
<1> DEFINE new == PlusCase(held[s], NewCase(Who[s], c, held[s].cases[c].linked))
<1>3. held[s].cases[c].linked \in BOOLEAN /\ c \in Nat
  <2>1. held[s].cases[c] \in CaseRecord /\ c \in Nat
    BY <1>1 DEF Workspace, CaseIds
  <2> QED
    BY <2>1 DEF CaseRecord
<1>4. SaveThen(s, new, NoCopy) /\ Quiet(s)
  BY <1>2, WriteIsQuiet DEF PlusCase
<1> QED
  BY <1>1, <1>2, <1>3, <1>4, NewCaseWrite

\* Finding k, when there is one, can be carried into Case c.
MayBeCarried(old, c, k) ==
    k # 0 => /\ k \in FindingIds(old)
             /\ old.cases[old.findings[k].case].archived
             /\ old.cases[c].from = old.findings[k].case

LEMMA PlusFindingFits ==
    ASSUME NEW u \in Users, NEW old \in Workspace, NEW c \in CaseIds(old), NEW k \in Nat, NEW new,
           new = PlusFinding(old, NewFinding(c, k)), Open(u, old, c),
           MayBeCarried(old, c, k)
    PROVE  /\ new \in Workspace /\ new.version = old.version
           /\ new.cases = old.cases
           /\ CasesFit(u, old, new, {})
           /\ FindingsFit(u, old, new) /\ VerdictsFit(old, new)
           /\ KnowledgeFits(old, new) /\ ThreadsFit(u, old, new)
<1>1. c \in Nat
  BY DEF CaseIds, Workspace
<1>2. NewFinding(c, k) \in Finding
  BY <1>1, TypedNewcomers
<1>3. new \in Workspace /\ new.version = old.version
  BY <1>2, PlusOne
<1>4. /\ new.findings = Append(old.findings, NewFinding(c, k))
      /\ new.cases = old.cases /\ new.threads = old.threads
      /\ new.knowledge = old.knowledge
  BY DEF PlusFinding, Workspace
<1>5. /\ FindingsFit(u, old, new) /\ VerdictsFit(old, new)
      /\ KnowledgeFits(old, new)
  BY <1>3, <1>4, AddedFinding DEF MayBeCarried
<1> QED
  BY <1>3, <1>4, <1>5, SameCases, SameThreads

\* A write that adds a finding to Case c and nothing else.
LEMMA NewFindingWrite ==
    ASSUME Types, NEW s \in Sessions, Holding(s), NEW c \in CaseIds(held[s]),
           NEW k \in Nat, NEW new, new = PlusFinding(held[s], NewFinding(c, k)),
           SaveThen(s, new, NoCopy), Quiet(s), Open(Who[s], held[s], c), MayBeCarried(held[s], c, k)
    PROVE  \E w, X : Outcome(s, w, X)
<1>1. held[s] \in Workspace /\ Who[s] \in Users
  BY HeldIsTyped
<1>2. PICK old \in Workspace : old = held[s]
  BY <1>1
<1>3. PICK new1 : new1 = new /\ new1 = PlusFinding(old, NewFinding(c, k))
  BY <1>2
<1>4. SaveThen(s, new1, NoCopy) /\ Quiet(s)
  BY <1>3
<1>5. /\ new1 \in Workspace /\ new1.version = old.version
      /\ CasesFit(Who[s], old, new1, {})
      /\ FindingsFit(Who[s], old, new1) /\ VerdictsFit(old, new1)
      /\ KnowledgeFits(old, new1) /\ ThreadsFit(Who[s], old, new1)
  <2>1. /\ c \in CaseIds(old) /\ Open(Who[s], old, c) /\ MayBeCarried(old, c, k)
    BY <1>1, <1>2
  <2> QED
    BY <1>3, <1>1, <2>1, PlusFindingFits
<1>6. Outcome(s, new1, {})
  BY <1>2, <1>4, <1>5, WriteOutcome
<1> QED
  BY <1>6

LEMMA AdoptFindingOutcome ==
    ASSUME Types, NEW s \in Sessions, AdoptFinding(s)
    PROVE  \E w, X : Outcome(s, w, X)
<1>1. Holding(s)
  BY DEF AdoptFinding
<1>2. PICK f \in FindingIds(held[s]), c \in CaseIds(held[s]) :
          /\ MayCarry(held[s], held[s].findings[f].case, c, Who[s])
          /\ WriteUncounted(s, PlusFinding(held[s], NewFinding(c, f)), c)
  BY DEF AdoptFinding, PlusFinding
<1>3. f \in Nat
  BY <1>1, HeldIsTyped DEF FindingIds
<1>4. Open(Who[s], held[s], c)
  BY <1>2 DEF MayCarry, OwnerOrAdmin, Open
<1>5. /\ SaveThen(s, PlusFinding(held[s], NewFinding(c, f)), NoCopy)
      /\ Quiet(s)
  BY <1>2, UncountedIsQuiet
<1>6. MayBeCarried(held[s], c, f)
  BY <1>2 DEF MayCarry, MayBeCarried
<1> QED
  BY <1>1, <1>3, <1>4, <1>5, <1>6, NewFindingWrite

LEMMA PromoteOutcome ==
    ASSUME Types, NEW s \in Sessions, PromoteRequirementItem(s)
    PROVE  \E w, X : Outcome(s, w, X)
<1>1. PICK c \in CaseIds(held[s]) :
          /\ Visible(held[s], c, Who[s])
          /\ WriteUncounted(s, PlusFinding(held[s], NewFinding(c, 0)), c)
  BY DEF PromoteRequirementItem, PlusFinding
<1>2. Open(Who[s], held[s], c)
  BY <1>1 DEF Visible, Open
<1>3. Holding(s)
  BY DEF PromoteRequirementItem
<1>4. MayBeCarried(held[s], c, 0)
  BY DEF MayBeCarried
<1>5. /\ SaveThen(s, PlusFinding(held[s], NewFinding(c, 0)), NoCopy)
      /\ Quiet(s)
  BY <1>1, UncountedIsQuiet
<1> QED
  BY <1>2, <1>3, <1>4, <1>5, NewFindingWrite

LEMMA AnalysisOutcome ==
    ASSUME Types, NEW s \in Sessions, RecordAnalysis(s)
    PROVE  \E w, X : Outcome(s, w, X)
<1>1. Holding(s) /\ held[s] \in Workspace /\ Who[s] \in Users
  BY HeldIsTyped DEF RecordAnalysis
<1>2. PICK c \in CaseIds(held[s]), C \in SUBSET CaseIds(held[s]) :
          /\ Visible(held[s], c, Who[s])
          /\ \A d \in C : NotArchived(held[s], d)
          /\ Contribute(s, PlusFinding(held[s], NewFinding(c, 0)), C)
  <2>1. PICK c \in CaseIds(held[s]), trigger \in {"user", "machine"} :
          /\ Visible(held[s], c, Who[s])
          /\ NotArchived(held[s], c)
          /\ Contribute(s, PlusFinding(held[s], NewFinding(c, 0)),
                        IF trigger = "user" THEN {c} ELSE {})
    BY DEF RecordAnalysis, PlusFinding
  <2>2. /\ (IF trigger = "user" THEN {c} ELSE {}) \in SUBSET CaseIds(held[s])
        /\ \A d \in (IF trigger = "user" THEN {c} ELSE {}) : NotArchived(held[s], d)
    BY <2>1
  <2> QED
    BY <2>1, <2>2
<1>3. PICK old \in Workspace : old = held[s]
  BY <1>1
<1>4. PICK new : new = PlusFinding(old, NewFinding(c, 0))
  OBVIOUS
<1>5. Open(Who[s], old, c) /\ c \in CaseIds(old) /\ MayBeCarried(old, c, 0)
  BY <1>2, <1>3 DEF Visible, Open, MayBeCarried
<1>6. /\ new \in Workspace /\ new.version = old.version
      /\ new.cases = old.cases
      /\ FindingsFit(Who[s], old, new) /\ VerdictsFit(old, new)
      /\ KnowledgeFits(old, new) /\ ThreadsFit(Who[s], old, new)
  BY <1>1, <1>4, <1>5, PlusFindingFits
<1>7. Contribute(s, new, C)
  BY <1>2, <1>3, <1>4
<1> QED
  BY <1>1, <1>2, <1>3, <1>6, <1>7, ContributeOutcome

\* A write that adds a thread to Case c and nothing else.
LEMMA NewThreadWrite ==
    ASSUME Types, NEW s \in Sessions, Holding(s), NEW c \in CaseIds(held[s]),
           NEW k \in Nat, NEW b \in BOOLEAN,
           NEW new, NEW after \in {NoCopy, Stamped(new)},
           new = PlusThread(held[s], NewThread(c, k, b)),
           SaveThen(s, new, after), Quiet(s), Open(Who[s], held[s], c),
           k # 0 => /\ k \in ThreadIds(held[s])
                    /\ held[s].cases[held[s].threads[k].case].archived
                    /\ held[s].cases[c].from = held[s].threads[k].case
    PROVE  \E w, X : Outcome(s, w, X)
<1>1. held[s] \in Workspace /\ Who[s] \in Users
  BY HeldIsTyped
<1>2. PICK old \in Workspace : old = held[s]
  BY <1>1
<1>3. PICK new1 : new1 = new /\ new1 = PlusThread(old, NewThread(c, k, b))
  BY <1>2
<1>4. c \in Nat /\ c \in CaseIds(old)
  BY <1>2 DEF CaseIds, Workspace
<1>5. NewThread(c, k, b) \in Thread
  BY <1>1, <1>4, TypedNewcomers
<1>6. new1 \in Workspace /\ new1.version = old.version
  BY <1>3, <1>5, PlusOne
<1>7. /\ new1.threads = Append(old.threads, NewThread(c, k, b))
      /\ new1.findings = old.findings /\ new1.cases = old.cases
      /\ new1.knowledge = old.knowledge
  BY <1>3 DEF PlusThread, Workspace
<1>8. ThreadsFit(Who[s], old, new1)
  BY <1>2, <1>4, <1>6, <1>7, AddedThread
<1>9. /\ FindingsFit(Who[s], old, new1) /\ VerdictsFit(old, new1)
      /\ CasesFit(Who[s], old, new1, {}) /\ KnowledgeFits(old, new1)
  BY <1>6, <1>7, SameFindings, SameCases, SameKnowledge
<1>10. Outcome(s, new1, {})
  BY <1>2, <1>3, <1>6, <1>8, <1>9, WriteOutcome
<1> QED
  BY <1>10

LEMMA CreateThreadOutcome ==
    ASSUME Types, NEW s \in Sessions, CreateReviewThread(s)
    PROVE  \E w, X : Outcome(s, w, X)
<1>1. Holding(s)
  BY DEF CreateReviewThread
<1> DEFINE New(c) == PlusThread(held[s], NewThread(c, 0, FALSE))
<1>2. PICK c \in CaseIds(held[s]) :
          /\ Visible(held[s], c, Who[s])
          /\ SaveThen(s, New(c), Stamped(New(c)))
          /\ Quiet(s)
  BY PlainIsQuiet DEF CreateReviewThread, PlusThread
<1>3. Open(Who[s], held[s], c)
  BY <1>2 DEF Visible, Open
<1> QED
  BY <1>1, <1>2, <1>3, NewThreadWrite

LEMMA AdoptMessageOutcome ==
    ASSUME Types, NEW s \in Sessions, AdoptMessage(s)
    PROVE  \E w, X : Outcome(s, w, X)
<1>1. Holding(s)
  BY DEF AdoptMessage
<1> DEFINE New(c, t) == PlusThread(held[s], NewThread(c, t, TRUE))
<1>2. PICK t \in ThreadIds(held[s]), c \in CaseIds(held[s]) :
          /\ MayCarry(held[s], held[s].threads[t].case, c, Who[s])
          /\ SaveThen(s, New(c, t), NoCopy)
          /\ Quiet(s)
  BY UncountedIsQuiet DEF AdoptMessage, PlusThread
<1>3. t \in Nat
  BY <1>1, HeldIsTyped DEF ThreadIds
<1>4. Open(Who[s], held[s], c)
  BY <1>2 DEF MayCarry, OwnerOrAdmin, Open
<1> QED
  BY <1>1, <1>2, <1>3, <1>4, NewThreadWrite DEF MayCarry

LEMMA ValidationOutcome ==
    ASSUME Types, NEW s \in Sessions, RecordReviewerValidation(s)
    PROVE  \E w, X : Outcome(s, w, X)
<1>1. Holding(s) /\ held[s] \in Workspace
  BY HeldIsTyped DEF RecordReviewerValidation
<1>2. PICK f \in FindingIds(held[s]), v \in Verdicts :
          /\ Visible(held[s], held[s].findings[f].case, Who[s])
          /\ ~held[s].findings[f].applied
          /\ NotArchived(held[s], held[s].findings[f].case)
          /\ Contribute(s, [held[s] EXCEPT !.findings[f].verdict = v],
                        {held[s].findings[f].case})
  BY DEF RecordReviewerValidation
<1> DEFINE k == [held[s].findings[f] EXCEPT !.verdict = v]
           new == WithFinding(held[s], f, k)
<1>3. held[s].findings[f] \in Finding
  BY <1>1 DEF Workspace, FindingIds
<1>4. /\ k \in Finding
      /\ k.case = held[s].findings[f].case
      /\ k.carried = held[s].findings[f].carried
      /\ ~k.applied /\ k.verdict # "none"
  BY <1>2, <1>3 DEF Finding, Verdicts
<1>5. Contribute(s, new, {held[s].findings[f].case})
  BY <1>2 DEF WithFinding
<1> HIDE DEF k
<1> QED
  BY <1>1, <1>2, <1>4, <1>5, FindingContribution

LEMMA DispositionOutcome ==
    ASSUME Types, NEW s \in Sessions, RecordDisposition(s)
    PROVE  \E w, X : Outcome(s, w, X)
<1>1. Holding(s) /\ held[s] \in Workspace
  BY HeldIsTyped DEF RecordDisposition
<1>2. PICK f \in FindingIds(held[s]), v \in Dispositions :
          /\ Visible(held[s], held[s].findings[f].case, Who[s])
          /\ ~held[s].findings[f].applied
          /\ NotArchived(held[s], held[s].findings[f].case)
          /\ Contribute(s, [held[s] EXCEPT !.findings[f].disposition = v],
                        {held[s].findings[f].case})
          /\ held[s].findings[f].verdict # "none"
  BY DEF RecordDisposition
<1> DEFINE k == [held[s].findings[f] EXCEPT !.disposition = v]
           new == WithFinding(held[s], f, k)
<1>3. held[s].findings[f] \in Finding
  BY <1>1 DEF Workspace, FindingIds
<1>4. /\ k \in Finding
      /\ k.case = held[s].findings[f].case
      /\ k.carried = held[s].findings[f].carried
      /\ ~k.applied /\ k.verdict # "none"
  BY <1>2, <1>3 DEF Finding, Dispositions
<1>5. Contribute(s, new, {held[s].findings[f].case})
  BY <1>2 DEF WithFinding
<1> HIDE DEF k
<1> QED
  BY <1>1, <1>2, <1>4, <1>5, FindingContribution

LEMMA AddReviewOutcome ==
    ASSUME Types, NEW s \in Sessions, AddReviewMessage(s)
    PROVE  \E w, X : Outcome(s, w, X)
<1>1. Holding(s) /\ held[s] \in Workspace
  BY HeldIsTyped DEF AddReviewMessage
<1>2. PICK t \in ThreadIds(held[s]) :
          /\ Discussing(s, t)
          /\ Contribute(s, [held[s] EXCEPT !.threads[t].spoken = TRUE], {held[s].threads[t].case})
  BY DEF AddReviewMessage
<1> DEFINE k == [held[s].threads[t] EXCEPT !.spoken = TRUE]
           new == WithThread(held[s], t, k)
<1>3. held[s].threads[t] \in Thread
  BY <1>1 DEF Workspace, ThreadIds
<1>4. /\ k \in Thread
      /\ k.case = held[s].threads[t].case
      /\ k.carried = held[s].threads[t].carried
      /\ held[s].threads[t].spoken => k.spoken
  BY <1>3 DEF Thread, ThreadStatuses
<1>5. Contribute(s, new, {held[s].threads[t].case})
  BY <1>2 DEF WithThread
<1> HIDE DEF k
<1> QED
  BY <1>1, <1>2, <1>4, <1>5, ThreadContribution

LEMMA RequestOutcome ==
    ASSUME Types, NEW s \in Sessions, RequestAttention(s)
    PROVE  \E w, X : Outcome(s, w, X)
<1>1. Holding(s) /\ held[s] \in Workspace
  BY HeldIsTyped DEF RequestAttention
<1>2. PICK t \in ThreadIds(held[s]) :
          /\ Discussing(s, t)
          /\ Contribute(s, [held[s] EXCEPT 
                 !.threads[t].asked = TRUE,
                 !.threads[t].status = Waiting(held[s].threads[t].status)], {held[s].threads[t].case})
  BY DEF RequestAttention
<1> DEFINE k == [held[s].threads[t] EXCEPT 
                   !.asked = TRUE,
                   !.status = Waiting(held[s].threads[t].status)]
           new == WithThread(held[s], t, k)
<1>3. held[s].threads[t] \in Thread
  BY <1>1 DEF Workspace, ThreadIds
<1>4. /\ k \in Thread
      /\ k.case = held[s].threads[t].case
      /\ k.carried = held[s].threads[t].carried
      /\ held[s].threads[t].spoken => k.spoken
  BY <1>3 DEF Thread, ThreadStatuses, Waiting
<1>5. Contribute(s, new, {held[s].threads[t].case})
  BY <1>2 DEF WithThread
<1> HIDE DEF k
<1> QED
  BY <1>1, <1>2, <1>4, <1>5, ThreadContribution

LEMMA RespondOutcome ==
    ASSUME Types, NEW s \in Sessions, RespondToAttention(s)
    PROVE  \E w, X : Outcome(s, w, X)
<1>1. Holding(s) /\ held[s] \in Workspace
  BY HeldIsTyped DEF RespondToAttention
<1>2. PICK t \in ThreadIds(held[s]) :
          /\ Discussing(s, t)
          /\ Write(s, [held[s] EXCEPT 
                 !.threads[t].status = Answered(held[s].threads[t].status)])
  BY DEF RespondToAttention
<1> DEFINE k == [held[s].threads[t] EXCEPT 
                   !.status = Answered(held[s].threads[t].status)]
           new == WithThread(held[s], t, k)
<1>3. held[s].threads[t] \in Thread
  BY <1>1 DEF Workspace, ThreadIds
<1>4. /\ k \in Thread
      /\ k.case = held[s].threads[t].case
      /\ k.carried = held[s].threads[t].carried
      /\ held[s].threads[t].spoken => k.spoken
  BY <1>3 DEF Thread, ThreadStatuses, Answered
<1>5. Write(s, new)
  BY <1>2 DEF WithThread
<1> HIDE DEF k
<1> QED
  BY <1>1, <1>2, <1>4, <1>5, ThreadWrite

LEMMA ResolveOutcome ==
    ASSUME Types, NEW s \in Sessions, ResolveReviewThread(s)
    PROVE  \E w, X : Outcome(s, w, X)
<1>1. Holding(s) /\ held[s] \in Workspace
  BY HeldIsTyped DEF ResolveReviewThread
<1>2. PICK t \in ThreadIds(held[s]) :
          /\ Discussing(s, t)
          /\ Write(s, [held[s] EXCEPT !.threads[t].status = "resolved"])
  BY DEF ResolveReviewThread
<1> DEFINE k == [held[s].threads[t] EXCEPT !.status = "resolved"]
           new == WithThread(held[s], t, k)
<1>3. held[s].threads[t] \in Thread
  BY <1>1 DEF Workspace, ThreadIds
<1>4. /\ k \in Thread
      /\ k.case = held[s].threads[t].case
      /\ k.carried = held[s].threads[t].carried
      /\ held[s].threads[t].spoken => k.spoken
  BY <1>3 DEF Thread, ThreadStatuses
<1>5. Write(s, new)
  BY <1>2 DEF WithThread
<1> HIDE DEF k
<1> QED
  BY <1>1, <1>2, <1>4, <1>5, ThreadWrite

LEMMA ReopenOutcome ==
    ASSUME Types, NEW s \in Sessions, ReopenReviewThread(s)
    PROVE  \E w, X : Outcome(s, w, X)
<1>1. Holding(s) /\ held[s] \in Workspace
  BY HeldIsTyped DEF ReopenReviewThread
<1>2. PICK t \in ThreadIds(held[s]) :
          /\ Discussing(s, t)
          /\ Write(s, [held[s] EXCEPT !.threads[t].status = "reopened"])
  BY DEF ReopenReviewThread
<1> DEFINE k == [held[s].threads[t] EXCEPT !.status = "reopened"]
           new == WithThread(held[s], t, k)
<1>3. held[s].threads[t] \in Thread
  BY <1>1 DEF Workspace, ThreadIds
<1>4. /\ k \in Thread
      /\ k.case = held[s].threads[t].case
      /\ k.carried = held[s].threads[t].carried
      /\ held[s].threads[t].spoken => k.spoken
  BY <1>3 DEF Thread, ThreadStatuses
<1>5. Write(s, new)
  BY <1>2 DEF WithThread
<1> HIDE DEF k
<1> QED
  BY <1>1, <1>2, <1>4, <1>5, ThreadWrite

LEMMA ConfirmOutcome ==
    ASSUME Types, NEW s \in Sessions, ConfirmRelationship(s)
    PROVE  \E w, X : Outcome(s, w, X)
<1>1. Holding(s) /\ held[s] \in Workspace
  BY HeldIsTyped DEF ConfirmRelationship
<1> DEFINE C == {c \in CaseIds(held[s]) : held[s].cases[c].linked}
           new == [held[s] EXCEPT !.confirmed = TRUE]
<1>2. /\ \A c \in C : NotArchived(held[s], c)
      /\ Contribute(s, new, C)
  BY DEF ConfirmRelationship
<1>3. C \in SUBSET CaseIds(held[s])
  OBVIOUS
<1>4. /\ new \in Workspace /\ new.version = held[s].version
      /\ new.cases = held[s].cases /\ new.findings = held[s].findings
      /\ new.threads = held[s].threads /\ new.knowledge = held[s].knowledge
  BY <1>1 DEF Workspace
<1> HIDE DEF C, new
<1>5. /\ FindingsFit(Who[s], held[s], new) /\ VerdictsFit(held[s], new)
      /\ ThreadsFit(Who[s], held[s], new) /\ KnowledgeFits(held[s], new)
  BY <1>1, <1>4, SameFindings, SameThreads, SameKnowledge
<1> QED
  BY <1>1, <1>2, <1>3, <1>4, <1>5, ContributeOutcome

Applied(ws, F, q) ==
    [ws EXCEPT
        !.findings = [f \in DOMAIN ws.findings |->
            IF f \in F THEN [ws.findings[f] EXCEPT !.applied = TRUE] ELSE ws.findings[f]],
        !.knowledge = ws.knowledge \o q]

\* Apply of the eligible findings F of an open Case.
LEMMA AppliedFits ==
    ASSUME NEW u, NEW old \in Workspace, NEW c \in CaseIds(old), NEW F, NEW n \in Nat,
           F = Eligible(old, c), NEW q \in [1..n -> F], Lists(q, F), NEW new,
           new = Applied(old, F, q), ~old.cases[c].archived, Open(u, old, c)
    PROVE  /\ new \in Workspace /\ new.version = old.version
           /\ new.cases = old.cases /\ new.threads = old.threads
           /\ FindingsFit(u, old, new) /\ VerdictsFit(old, new)
           /\ KnowledgeFits(old, new)
<1> DEFINE m == Len(old.findings)
           moved == [f \in DOMAIN old.findings |->
                        IF f \in F THEN [old.findings[f] EXCEPT !.applied = TRUE]
                                   ELSE old.findings[f]]
<1>1. /\ m \in Nat /\ DOMAIN old.findings = 1..m /\ FindingIds(old) = 1..m
      /\ \A f \in 1..m : old.findings[f] \in Finding
  BY DEF Workspace, FindingIds
<1>2. /\ F \subseteq 1..m
      /\ \A f \in F : /\ old.findings[f].case = c
                      /\ ~old.findings[f].applied
                      /\ old.findings[f].disposition = "Confirmed"
  BY <1>1 DEF Eligible
<1>3. \A f \in 1..m : moved[f] = IF f \in F
             THEN [old.findings[f] EXCEPT !.applied = TRUE] ELSE old.findings[f]
  BY <1>1
<1>4. \A f \in F :
          /\ moved[f] \in Finding
          /\ moved[f].case = old.findings[f].case
          /\ moved[f].carried = old.findings[f].carried
          /\ moved[f].verdict = old.findings[f].verdict
          /\ moved[f].disposition = old.findings[f].disposition
          /\ moved[f].applied
  <2> SUFFICES ASSUME NEW f \in F
               PROVE  /\ moved[f] \in Finding
                      /\ moved[f].case = old.findings[f].case
                      /\ moved[f].carried = old.findings[f].carried
                      /\ moved[f].verdict = old.findings[f].verdict
                      /\ moved[f].disposition = old.findings[f].disposition
                      /\ moved[f].applied
    OBVIOUS
  <2>1. moved[f] = [old.findings[f] EXCEPT !.applied = TRUE]
    BY <1>2, <1>3
  <2>2. old.findings[f] \in Finding
    BY <1>1, <1>2
  <2> HIDE DEF moved
  <2> QED
    BY <2>1, <2>2 DEF Finding
<1>5. moved \in [1..m -> Finding]
  <2>1. \A f \in 1..m : moved[f] \in Finding
    BY <1>1, <1>3, <1>4
  <2>2. moved = [f \in 1..m |-> moved[f]]
    BY <1>1
  <2> HIDE DEF moved
  <2> QED
    BY <2>1, <2>2
<1>6. new = [old EXCEPT !.findings = moved, !.knowledge = old.knowledge \o q]
  BY DEF Applied
<1> HIDE DEF moved, m
<1>7. moved \in Seq(Finding) /\ Len(moved) = m
  BY <1>1, <1>5, SequenceOf
<1>8. q \in Seq(Nat)
  <2>1. q \in [1..n -> Nat]
    BY <1>1, <1>2
  <2> QED
    BY <2>1, SequenceOf
<1>9. old.knowledge \o q \in Seq(Nat)
  BY <1>8, ConcatProperties DEF Workspace
<1>10. /\ new \in Workspace /\ new.version = old.version
       /\ new.cases = old.cases /\ new.threads = old.threads
       /\ new.findings = moved /\ new.knowledge = old.knowledge \o q
  BY <1>6, <1>7, <1>9 DEF Workspace
<1>11. \A f \in 1..m : f \notin F => new.findings[f] = old.findings[f]
  BY <1>3, <1>10
<1>12. Len(new.findings) = m /\ FindingIds(new) = 1..m
  BY <1>7, <1>10 DEF FindingIds
<1>13. FindingsFit(u, old, new)
  <2>1. \A f \in 1..m : ~(f > m)
    BY <1>1
  <2> QED
    BY <1>1, <1>2, <1>4, <1>10, <1>11, <1>12, <2>1 DEF FindingsFit, m
<1>14. VerdictsFit(old, new)
  BY <1>1, <1>4, <1>10, <1>11 DEF VerdictsFit
<1>15. KnowledgeFits(old, new)
  <2>1. q \in [1..n -> FindingIds(old)] /\ DOMAIN q = 1..n
    BY <1>1, <1>2
  <2>2. \A i, j \in 1..n : i < j => q[i] < q[j]
    BY <2>1 DEF Lists
  <2>3. \A i \in 1..n : q[i] \in F
    OBVIOUS
  <2>4. \A f \in FindingIds(old) :
            (new.findings[f].applied /\ ~old.findings[f].applied)
               => \E i \in 1..n : q[i] = f
    BY <1>1, <1>11, <2>1 DEF Lists
  <2>5. \A i \in 1..n :
            /\ ~old.findings[q[i]].applied
            /\ old.findings[q[i]].disposition = "Confirmed"
            /\ new.findings[q[i]].applied
            /\ new.findings[q[i]].disposition = "Confirmed"
    BY <1>2, <1>4, <1>10, <2>3
  <2> QED
    BY <1>10, <2>1, <2>2, <2>4, <2>5 DEF KnowledgeFits
<1> QED
  BY <1>10, <1>13, <1>14, <1>15

LEMMA ApplyOutcome ==
    ASSUME Types, NEW s \in Sessions, ApplyFindings(s)
    PROVE  \E w, X : Outcome(s, w, X)
<1>1. Holding(s) /\ held[s] \in Workspace
  BY HeldIsTyped DEF ApplyFindings
<1>2. PICK old \in Workspace : old = held[s]
  BY <1>1
<1>3. PICK c \in CaseIds(held[s]) :
          /\ Visible(held[s], c, Who[s])
          /\ NotArchived(held[s], c)
          /\ \E n \in FindingIds(held[s]) : \E q \in [1..n -> Eligible(held[s], c)] :
                /\ Lists(q, Eligible(held[s], c))
                /\ Write(s, Applied(held[s], Eligible(held[s], c), q))
  BY DEF ApplyFindings, Applied
<1>4a. PICK n \in Nat : \E q \in [1..n -> Eligible(old, c)] :
           /\ Lists(q, Eligible(old, c))
           /\ Write(s, Applied(old, Eligible(old, c), q))
  <2>1. FindingIds(held[s]) \subseteq Nat
    BY <1>1 DEF FindingIds, Workspace
  <2> QED
    BY <1>2, <1>3, <2>1
<1>4. PICK q \in [1..n -> Eligible(old, c)] :
          /\ Lists(q, Eligible(old, c))
          /\ Write(s, Applied(old, Eligible(old, c), q))
  BY <1>4a
<1>5. c \in CaseIds(old) /\ ~old.cases[c].archived /\ Open(Who[s], old, c)
  BY <1>2, <1>3 DEF NotArchived, Visible, Open
<1>6. PICK new : new = Applied(old, Eligible(old, c), q)
  OBVIOUS
<1>7. /\ new \in Workspace /\ new.version = old.version
      /\ new.cases = old.cases /\ new.threads = old.threads
      /\ FindingsFit(Who[s], old, new) /\ VerdictsFit(old, new)
      /\ KnowledgeFits(old, new)
  BY <1>4, <1>5, <1>6, AppliedFits
<1>8. SaveThen(s, new, NoCopy) /\ Quiet(s)
  BY <1>4, <1>6, WriteIsQuiet
<1>9. Outcome(s, new, {})
  BY <1>1, <1>2, <1>7, <1>8, WriteOutcome, SameCases, SameThreads
<1> QED
  BY <1>9

\* A step is an operation, or the beginning or the end of a route.
LEMMA EveryStep ==
    ASSUME Types, [Next]_vars
    PROVE  \/ \E s \in Sessions : \E w, X : Outcome(s, w, X)
           \/ \E s \in Sessions : \/ BeginRoute(s) \/ EndRoute(s)
                                  \/ AppendToLog(s) \/ DieUnlogged(s)
           \/ UNCHANGED vars
<1>1. ASSUME NEW s \in Sessions, CaseStep(s)
      PROVE  \E w, X : Outcome(s, w, X)
  BY <1>1, CreateOutcome, ShareOutcome, RetractOutcome, ArchiveOutcome, DeriveOutcome,
     AdoptFindingOutcome, AdoptMessageOutcome, AttachOutcome, MessageOutcome,
     ConfirmOutcome DEF CaseStep
<1>2. ASSUME NEW s \in Sessions, FindingStep(s)
      PROVE  \E w, X : Outcome(s, w, X)
  BY <1>2, AnalysisOutcome, ValidationOutcome, DispositionOutcome, ApplyOutcome,
     PromoteOutcome DEF FindingStep
<1>3. ASSUME NEW s \in Sessions, ThreadStep(s)
      PROVE  \E w, X : Outcome(s, w, X)
  BY <1>3, CreateThreadOutcome, AddReviewOutcome, RequestOutcome, RespondOutcome,
     ResolveOutcome, ReopenOutcome DEF ThreadStep
<1> QED
  BY <1>1, <1>2, <1>3 DEF Next

-----------------------------------------------------------------------------
(***************************************************************************)
(* Type correctness.                                                       *)
(***************************************************************************)

\* What a save does to the file and to the copies: the session had the file.
LEMMA SaveFacts ==
    ASSUME Types, NEW s \in Sessions, NEW w, NEW X, Outcome(s, w, X)
    PROVE  /\ held[s] = stored /\ w \in Workspace /\ Who[s] \in Users
           /\ stored' = Stamped(w) /\ w.version = stored.version
           /\ stored'.version = stored.version + 1
           /\ stored'.cases = w.cases /\ stored'.findings = w.findings
           /\ stored'.threads = w.threads /\ stored'.knowledge = w.knowledge
           /\ held'[s] \in {NoCopy, stored'}
           /\ X # {} => held'[s] = NoCopy
           /\ \A r \in Sessions \ {s} : held'[r] = held[r]
           /\ held' \in [Sessions -> Workspace \cup {NoCopy}]
           /\ stored' \in Workspace
<1>1. Holding(s) /\ w \in Workspace
  BY DEF Outcome
<1>2. PICK after \in {NoCopy, Stamped(w)} :
          SaveThen(s, w, after) /\ (X # {} => after = NoCopy)
  BY DEF Outcome
<1>3. /\ w.version = stored.version /\ stored' = Stamped(w)
      /\ held' = [held EXCEPT ![s] = after]
      /\ w.version = held[s].version
  BY <1>2 DEF SaveThen, Outcome
<1>4. held[s] = stored
  BY <1>1, <1>3 DEF Types, CopiesAreTrue
<1>5. /\ Stamped(w) \in Workspace /\ Stamped(w).version = w.version + 1
      /\ Stamped(w).cases = w.cases /\ Stamped(w).findings = w.findings
      /\ Stamped(w).threads = w.threads /\ Stamped(w).knowledge = w.knowledge
  <2>1. PICK new : new = Stamped(w)
    OBVIOUS
  <2>2. new = [w EXCEPT !.version = w.version + 1] /\ w.version + 1 \in Nat
    BY <1>1, <2>1 DEF Stamped, Workspace
  <2>3. new \in Workspace
    BY <1>1, <2>2 DEF Workspace
  <2>4. /\ new.version = w.version + 1
        /\ new.cases = w.cases /\ new.findings = w.findings
        /\ new.threads = w.threads /\ new.knowledge = w.knowledge
    BY <1>1, <2>2 DEF Workspace
  <2> QED
    BY <2>1, <2>3, <2>4
<1>6. held \in [Sessions -> Workspace \cup {NoCopy}] /\ Who[s] \in Users
  BY DEF Types, TypeOK
<1> HIDE DEF Stamped
<1> QED
  BY <1>1, <1>2, <1>3, <1>4, <1>5, <1>6

LEMMA SaveKeepsTypes ==
    ASSUME Types, NEW s \in Sessions, NEW w, NEW X, Outcome(s, w, X)
    PROVE  Types'
<1>1. /\ held[s] = stored /\ w \in Workspace
      /\ stored' = Stamped(w) /\ stored'.version = stored.version + 1
      /\ held'[s] \in {NoCopy, stored'}
      /\ X # {} => held'[s] = NoCopy
      /\ \A r \in Sessions \ {s} : held'[r] = held[r]
      /\ held' \in [Sessions -> Workspace \cup {NoCopy}]
      /\ stored' \in Workspace
  BY SaveFacts
<1>2. WellNamed(stored')
  <2>1. /\ stored'.cases = w.cases /\ stored'.findings = w.findings
        /\ stored'.threads = w.threads
    BY SaveFacts
  <2>2. WellNamed(w)
    BY DEF Outcome
  <2> QED
    BY <2>1, <2>2 DEF WellNamed
<1>3. X \subseteq Nat /\ foreign' \subseteq Nat /\ uncounted' \subseteq Nat
  <2>1. CaseIds(stored) \subseteq Nat
    BY DEF Types, TypeOK, CaseIds, Workspace
  <2>2. X \subseteq CaseIds(stored)
    BY <1>1 DEF Outcome, CasesFit
  <2>3. /\ \A c \in foreign' : c \in foreign \/ c \in CaseIds(stored)
        /\ uncounted' \subseteq uncounted \cup CaseIds(stored)
    BY <1>1 DEF Outcome, HistoryFits
  <2> QED
    BY <2>1, <2>2, <2>3 DEF Types, TypeOK
<1>4. owed' = [owed EXCEPT ![s] = X] /\ logged' = logged /\ lost' = lost
  BY DEF Outcome, HistoryFits
<1>5. TypeOK'
  <2>1. owed' \in [Sessions -> SUBSET Nat] /\ logged' \subseteq Nat /\ lost' \subseteq Nat
    BY <1>3, <1>4 DEF Types, TypeOK
  <2>2. \A r \in Sessions : held'[r] # NoCopy => WellNamed(held'[r])
    BY <1>1, <1>2 DEF Types, TypeOK, Holding
  <2> QED
    BY <1>1, <1>2, <1>3, <2>1, <2>2 DEF TypeOK, Holding, WellNamed, Workspace
<1>6. CopiesAreTrue'
  <2> SUFFICES ASSUME NEW r \in Sessions, held'[r] # NoCopy
               PROVE  /\ held'[r].version <= stored'.version
                      /\ held'[r].version = stored'.version => held'[r] = stored'
    BY DEF CopiesAreTrue, Holding
  <2>1. stored.version \in Nat
    BY DEF Types, TypeOK, Workspace
  <2>2. CASE r = s
    BY <1>1, <2>1, <2>2
  <2>3. CASE r # s
    <3>1. held'[r] = held[r] /\ held[r].version <= stored.version /\ held[r].version \in Nat
      BY <1>1, <2>3 DEF Types, TypeOK, CopiesAreTrue, Holding, Workspace
    <3> QED
      BY <1>1, <2>1, <3>1
  <2> QED
    BY <2>2, <2>3
<1>7. HoldersOweNothing'
  BY <1>1, <1>4 DEF Types, TypeOK, HoldersOweNothing, Holding
<1> QED
  BY <1>5, <1>6, <1>7 DEF Types

LEMMA RouteKeepsTypes ==
    ASSUME Types, NEW s \in Sessions,
           BeginRoute(s) \/ EndRoute(s) \/ AppendToLog(s) \/ DieUnlogged(s)
    PROVE  Types'
<1>1. CASE BeginRoute(s)
  <2>1. /\ stored' = stored /\ held' = [held EXCEPT ![s] = stored] /\ owed[s] = {}
        /\ UNCHANGED <<foreign, uncounted, owed, logged, lost>>
    BY <1>1 DEF BeginRoute, Load, history
  <2>2. /\ held'[s] = stored
        /\ \A r \in Sessions \ {s} : held'[r] = held[r]
        /\ held' \in [Sessions -> Workspace \cup {NoCopy}]
    BY <2>1 DEF Types, TypeOK
  <2>3. stored.version \in Nat
    BY DEF Types, TypeOK, Workspace
  <2>4. TypeOK'
    BY <2>1, <2>2 DEF Types, TypeOK, Holding, WellNamed, Workspace
  <2>5. CopiesAreTrue'
    BY <2>1, <2>2, <2>3 DEF Types, CopiesAreTrue, Holding
  <2>6. HoldersOweNothing'
    BY <2>1, <2>2 DEF Types, HoldersOweNothing, Holding
  <2> QED
    BY <2>4, <2>5, <2>6 DEF Types
<1>2. CASE EndRoute(s)
  <2>1. /\ stored' = stored /\ held' = [held EXCEPT ![s] = NoCopy]
        /\ UNCHANGED <<foreign, uncounted, owed, logged, lost>>
    BY <1>2 DEF EndRoute, GiveUp, history
  <2>2. /\ held'[s] = NoCopy
        /\ \A r \in Sessions \ {s} : held'[r] = held[r]
        /\ held' \in [Sessions -> Workspace \cup {NoCopy}]
    BY <2>1 DEF Types, TypeOK
  <2>4. TypeOK'
    BY <2>1, <2>2 DEF Types, TypeOK, Holding, WellNamed, Workspace
  <2>5. CopiesAreTrue'
    BY <2>1, <2>2 DEF Types, CopiesAreTrue, Holding
  <2>6. HoldersOweNothing'
    BY <2>1, <2>2 DEF Types, HoldersOweNothing, Holding
  <2> QED
    BY <2>4, <2>5, <2>6 DEF Types
<1>3. CASE AppendToLog(s) \/ DieUnlogged(s)
  <2>1. /\ UNCHANGED <<stored, held, foreign, uncounted>>
        /\ owed' = [owed EXCEPT ![s] = {}]
        /\ logged' \subseteq logged \cup owed[s] /\ lost' \subseteq lost \cup owed[s]
    BY <1>3 DEF AppendToLog, DieUnlogged
  <2>2. owed' \in [Sessions -> SUBSET Nat] /\ owed[s] \subseteq Nat
    BY <2>1 DEF Types, TypeOK
  <2>3. TypeOK'
    BY <2>1, <2>2 DEF Types, TypeOK, Holding, WellNamed, Workspace
  <2>4. CopiesAreTrue'
    BY <2>1 DEF Types, CopiesAreTrue, Holding
  <2>5. HoldersOweNothing'
    BY <2>1 DEF Types, TypeOK, HoldersOweNothing, Holding
  <2> QED
    BY <2>3, <2>4, <2>5 DEF Types
<1> QED
  BY <1>1, <1>2, <1>3

\* The types, and that every copy at the version of the file is the file, hold
\* in every reachable state.
THEOREM TypesAlways == Spec => []Types
<1>1. Init => Types
  <2> SUFFICES ASSUME Init PROVE Types
    OBVIOUS
  <2>1. /\ stored = EmptyWorkspace /\ held = [s \in Sessions |-> NoCopy]
        /\ foreign = {} /\ uncounted = {} /\ owed = [s \in Sessions |-> {}]
        /\ logged = {} /\ lost = {}
    BY DEF Init
  <2>2. EmptyWorkspace \in Workspace /\ WellNamed(EmptyWorkspace)
    BY DEF EmptyWorkspace, Workspace, WellNamed
  <2>3. TypeOK
    BY <2>1, <2>2 DEF TypeOK, Holding
  <2>4. CopiesAreTrue /\ HoldersOweNothing
    BY <2>1 DEF CopiesAreTrue, HoldersOweNothing, Holding
  <2> QED
    BY <2>3, <2>4 DEF Types
<1>2. Types /\ [Next]_vars => Types'
  <2> SUFFICES ASSUME Types, [Next]_vars PROVE Types'
    OBVIOUS
  <2>1. CASE UNCHANGED vars
    BY <2>1 DEF vars, Types, TypeOK, CopiesAreTrue, HoldersOweNothing, Holding,
                WellNamed, Workspace
  <2> QED
    BY <2>1, EveryStep, SaveKeepsTypes, RouteKeepsTypes
<1> QED
  BY <1>1, <1>2, PTL DEF Spec

\* TypeOK of CaseReview, in every reachable state.
THEOREM TypeCorrect == Spec => []TypeOK
<1>1. Types => TypeOK
  BY DEF Types
<1> QED
  BY <1>1, TypesAlways, PTL

-----------------------------------------------------------------------------
(***************************************************************************)
(* The action properties, which need nothing but the types.                *)
(***************************************************************************)

\* Only an operation changes the file.
LEMMA OnlySavesWrite ==
    ASSUME Types, [Next]_vars
    PROVE  \/ stored' = stored /\ foreign' = foreign
           \/ \E s \in Sessions : \E w, X : Outcome(s, w, X)
BY EveryStep DEF BeginRoute, EndRoute, AppendToLog, DieUnlogged, Load, GiveUp, vars, history

\* The fits, read off the file.
LEMMA FileFits ==
    ASSUME Types, NEW s \in Sessions, NEW w, NEW X, Outcome(s, w, X)
    PROVE  /\ CasesFit(Who[s], stored, stored', X)
           /\ FindingsFit(Who[s], stored, stored')
           /\ ThreadsFit(Who[s], stored, stored')
           /\ KnowledgeFits(stored, stored')
           /\ VerdictsFit(stored, stored')
<1>1. /\ held[s] = stored /\ stored'.cases = w.cases
      /\ stored'.findings = w.findings /\ stored'.threads = w.threads
      /\ stored'.knowledge = w.knowledge
  BY SaveFacts
<1>2. /\ CasesFit(Who[s], stored, w, X)
      /\ FindingsFit(Who[s], stored, w)
      /\ ThreadsFit(Who[s], stored, w)
      /\ KnowledgeFits(stored, w)
      /\ VerdictsFit(stored, w)
  BY <1>1 DEF Outcome
<1>3. CasesFit(Who[s], stored, stored', X)
  BY <1>1, <1>2 DEF CasesFit, CaseIds
<1> QED
  BY <1>1, <1>2, <1>3, SameParts

\* No operation of any session changes an archived Case or what it holds.
THEOREM ArchivesAreFrozen == Spec => ArchivedIsFrozen
<1> DEFINE Frozen(c) ==
        /\ stored'.cases[c] = stored.cases[c]
        /\ \A f \in Of(stored.findings, c) : stored'.findings[f] = stored.findings[f]
        /\ \A t \in Of(stored.threads, c) : stored'.threads[t] = stored.threads[t]
    Step == \A c \in CaseIds(stored) : stored.cases[c].archived => Frozen(c)
<1>1. Types /\ [Next]_vars => [Step]_stored
  <2> SUFFICES ASSUME Types, [Next]_vars, stored' # stored PROVE Step
    OBVIOUS
  <2>1. PICK s \in Sessions : \E w, X : Outcome(s, w, X)
    BY OnlySavesWrite
  <2>2. \E X : CasesFit(Who[s], stored, stored', X)
    BY <2>1, FileFits
  <2>3. FindingsFit(Who[s], stored, stored') /\ ThreadsFit(Who[s], stored, stored')
    BY <2>1, FileFits
  <2>4. /\ DOMAIN stored.findings = FindingIds(stored)
        /\ DOMAIN stored.threads = ThreadIds(stored)
    BY DEF Types, TypeOK, Workspace, FindingIds, ThreadIds
  <2> SUFFICES ASSUME NEW c \in CaseIds(stored), stored.cases[c].archived
               PROVE  Frozen(c)
    OBVIOUS
  <2>5. stored'.cases[c] = stored.cases[c]
    BY <2>2 DEF CasesFit
  <2>6. \A f \in Of(stored.findings, c) : stored'.findings[f] = stored.findings[f]
    BY <2>3, <2>4 DEF FindingsFit, Of
  <2>7. \A t \in Of(stored.threads, c) : stored'.threads[t] = stored.threads[t]
    BY <2>3, <2>4 DEF ThreadsFit, Of
  <2> QED
    BY <2>5, <2>6, <2>7
<1> QED
  BY <1>1, TypesAlways, PTL DEF Spec, ArchivedIsFrozen, Step, Frozen

\* No save loses what an earlier save of another session has added.
THEOREM NoLostWork == Spec => NothingIsOverwritten
<1> DEFINE Step ==
       /\ stored'.version = stored.version + 1
       /\ CaseIds(stored) \subseteq CaseIds(stored')
       /\ \A c \in CaseIds(stored) : stored'.cases[c].owner = stored.cases[c].owner
       /\ \A f \in FindingIds(stored) :
             /\ f \in FindingIds(stored')
             /\ stored'.findings[f].case = stored.findings[f].case
             /\ stored.findings[f].applied => stored'.findings[f] = stored.findings[f]
       /\ \A t \in ThreadIds(stored) :
             /\ t \in ThreadIds(stored')
             /\ stored.threads[t].spoken => stored'.threads[t].spoken
<1>1. Types /\ [Next]_vars => [Step]_stored
  <2> SUFFICES ASSUME Types, [Next]_vars, stored' # stored PROVE Step
    OBVIOUS
  <2>1. PICK s \in Sessions : \E w, X : Outcome(s, w, X)
    BY OnlySavesWrite
  <2>2. \E X : CasesFit(Who[s], stored, stored', X)
    BY <2>1, FileFits
  <2>3. FindingsFit(Who[s], stored, stored') /\ ThreadsFit(Who[s], stored, stored')
    BY <2>1, FileFits
  <2>4. stored'.version = stored.version + 1 /\ stored' \in Workspace
    BY <2>1, SaveFacts
  <2>5. /\ CaseIds(stored) \subseteq CaseIds(stored')
        /\ FindingIds(stored) \subseteq FindingIds(stored')
        /\ ThreadIds(stored) \subseteq ThreadIds(stored')
    <3>1. /\ Len(stored.cases) \in Nat /\ Len(stored'.cases) \in Nat
          /\ Len(stored.findings) \in Nat /\ Len(stored'.findings) \in Nat
          /\ Len(stored.threads) \in Nat /\ Len(stored'.threads) \in Nat
      BY <2>4 DEF Types, TypeOK, Workspace
    <3> QED
      BY <2>2, <2>3, <3>1 DEF CasesFit, FindingsFit, ThreadsFit, CaseIds, FindingIds, ThreadIds
  <2>6. \A c \in CaseIds(stored) : stored'.cases[c].owner = stored.cases[c].owner
    BY <2>2 DEF CasesFit
  <2>7. \A f \in FindingIds(stored) :
            /\ stored'.findings[f].case = stored.findings[f].case
            /\ stored.findings[f].applied => stored'.findings[f] = stored.findings[f]
    BY <2>3 DEF FindingsFit
  <2>8. \A t \in ThreadIds(stored) : stored.threads[t].spoken => stored'.threads[t].spoken
    BY <2>3 DEF ThreadsFit
  <2> QED
    BY <2>4, <2>5, <2>6, <2>7, <2>8
<1> QED
  BY <1>1, TypesAlways, PTL DEF Spec, NothingIsOverwritten, Step

\* Nobody but the owner, or an admin, changes or adds to a private Case.
THEOREM PrivateWorkIsSafe == Spec => PrivateWorkIsTheOwners
<1> DEFINE Untouched(c) ==
              /\ stored'.cases[c] = stored.cases[c]
              /\ Of(stored'.findings, c) = Of(stored.findings, c)
              /\ \A f \in Of(stored.findings, c) : stored'.findings[f] = stored.findings[f]
              /\ Of(stored'.threads, c) = Of(stored.threads, c)
              /\ \A t \in Of(stored.threads, c) : stored'.threads[t] = stored.threads[t]
    Step == \A s \in Sessions : \A c \in CaseIds(stored) :
          (/\ held[s] # NoCopy /\ held'[s] # held[s]
           /\ stored.cases[c].visibility = "private"
           /\ stored.cases[c].owner # Who[s] /\ Who[s] \notin Admins) => Untouched(c)
<1>1. Types /\ [Next]_vars => [Step]_stored
  <2> SUFFICES ASSUME Types, [Next]_vars, stored' # stored,
                      NEW s \in Sessions, NEW c \in CaseIds(stored),
                      held'[s] # held[s],
                      stored.cases[c].visibility = "private",
                      stored.cases[c].owner # Who[s], Who[s] \notin Admins
               PROVE  Untouched(c)
    OBVIOUS
  <2>1. PICK r \in Sessions : \E w, X : Outcome(r, w, X)
    BY OnlySavesWrite
  <2>2. r = s /\ stored' \in Workspace
    BY <2>1, SaveFacts
  <2>3. \E X : CasesFit(Who[s], stored, stored', X)
    BY <2>1, <2>2, FileFits
  <2>4. FindingsFit(Who[s], stored, stored') /\ ThreadsFit(Who[s], stored, stored')
    BY <2>1, <2>2, FileFits
  <2>5. /\ DOMAIN stored.findings = FindingIds(stored)
        /\ DOMAIN stored.threads = ThreadIds(stored)
        /\ DOMAIN stored'.findings = FindingIds(stored')
        /\ DOMAIN stored'.threads = ThreadIds(stored')
        /\ Len(stored.findings) \in Nat /\ Len(stored'.findings) \in Nat
        /\ Len(stored.threads) \in Nat /\ Len(stored'.threads) \in Nat
    BY <2>2 DEF Types, TypeOK, Workspace, FindingIds, ThreadIds
  <2>6. ~Open(Who[s], stored, c)
    BY DEF Open
  <2>7. stored'.cases[c] = stored.cases[c]
    BY <2>3 DEF CasesFit
  <2>8. \A f \in Of(stored.findings, c) : stored'.findings[f] = stored.findings[f]
    BY <2>4, <2>5, <2>6 DEF FindingsFit, Of
  <2>9. \A t \in Of(stored.threads, c) : stored'.threads[t] = stored.threads[t]
    BY <2>4, <2>5, <2>6 DEF ThreadsFit, Of
  <2>10. Of(stored'.findings, c) = Of(stored.findings, c)
    BY <2>4, <2>5, <2>6 DEF FindingsFit, FindingIds, Of
  <2>11. Of(stored'.threads, c) = Of(stored.threads, c)
    BY <2>4, <2>5, <2>6 DEF ThreadsFit, ThreadIds, Of
  <2> QED
    BY <2>7, <2>8, <2>9, <2>10, <2>11
<1> QED
  BY <1>1, TypesAlways, PTL DEF Spec, PrivateWorkIsTheOwners, Step, Untouched

-----------------------------------------------------------------------------
(***************************************************************************)
(* The state invariants.                                                   *)
(***************************************************************************)

\* A Case that one of the six counted writes of another person has reached
\* never becomes private again.
THEOREM CountedWorkIsKept == Spec => []CountedWorkStaysShared
<1>1. Init => CountedWorkStaysShared
  BY DEF Init, CountedWorkStaysShared
<1>2. Types /\ CountedWorkStaysShared /\ [Next]_vars => CountedWorkStaysShared'
  <2> SUFFICES ASSUME Types, CountedWorkStaysShared, [Next]_vars
               PROVE  CountedWorkStaysShared'
    OBVIOUS
  <2>1. CASE stored' = stored /\ foreign' = foreign
    BY <2>1 DEF CountedWorkStaysShared, CaseIds
  <2>2. ASSUME NEW s \in Sessions, NEW w, NEW X, Outcome(s, w, X)
        PROVE  CountedWorkStaysShared'
    <3>1. CasesFit(Who[s], stored, stored', X) /\ stored' \in Workspace
      BY <2>2, FileFits, SaveFacts
    <3>2. Len(stored.cases) \in Nat /\ Len(stored'.cases) \in Nat
      BY <3>1 DEF Types, TypeOK, Workspace
    <3>3. CaseIds(stored) \subseteq CaseIds(stored')
      BY <3>1, <3>2 DEF CasesFit, CaseIds
    <3>4. \A c \in foreign' : c \in foreign \/
              (c \in CaseIds(stored) /\ stored'.cases[c].visibility = "collaborative")
      BY <2>2, SaveFacts DEF Outcome, HistoryFits
    <3>5. \A c \in CaseIds(stored) : stored.cases[c].visibility = "collaborative"
              => stored'.cases[c].visibility = "collaborative"
      BY <3>1 DEF CasesFit
    <3> QED
      BY <3>3, <3>4, <3>5 DEF CountedWorkStaysShared
  <2> QED
    BY <2>1, <2>2, OnlySavesWrite
<1> QED
  BY <1>1, <1>2, TypesAlways, PTL DEF Spec

\* What was carried forward came out of an archived Case into its successor.
THEOREM LineageIsKept == Spec => []LineageHolds
<1>1. Init => LineageHolds
  BY DEF Init, LineageHolds, EmptyWorkspace, FindingIds, ThreadIds, CaseIds
<1>2. Types /\ LineageHolds /\ [Next]_vars => LineageHolds'
  <2> SUFFICES ASSUME Types, LineageHolds, [Next]_vars PROVE LineageHolds'
    OBVIOUS
  <2>1. CASE stored' = stored
    BY <2>1 DEF LineageHolds, CarriedFrom, FindingIds, ThreadIds, CaseIds
  <2>2. ASSUME NEW s \in Sessions, NEW w, NEW X, Outcome(s, w, X)
        PROVE  LineageHolds'
    <3>1. /\ CasesFit(Who[s], stored, stored', X)
          /\ FindingsFit(Who[s], stored, stored')
          /\ ThreadsFit(Who[s], stored, stored')
          /\ stored' \in Workspace
      BY <2>2, FileFits, SaveFacts
    <3>2. WellNamed(stored) /\ WellNamed(stored') /\ stored \in Workspace
      BY <2>2, SaveKeepsTypes DEF Types, TypeOK
    <3>3. /\ Len(stored.cases) \in Nat /\ Len(stored'.cases) \in Nat
          /\ Len(stored.findings) \in Nat /\ Len(stored'.findings) \in Nat
          /\ Len(stored.threads) \in Nat /\ Len(stored'.threads) \in Nat
          /\ Len(stored.cases) <= Len(stored'.cases)
          /\ Len(stored.findings) <= Len(stored'.findings)
          /\ Len(stored.threads) <= Len(stored'.threads)
      BY <3>1, <3>2 DEF Workspace, CasesFit, FindingsFit, ThreadsFit
    <3>4. \A c \in CaseIds(stored) :
              /\ stored'.cases[c].from = stored.cases[c].from
              /\ stored.cases[c].archived => stored'.cases[c].archived
      BY <3>1 DEF CasesFit
    <3>5. ASSUME NEW f \in FindingIds(stored'), stored'.findings[f].carried # 0
          PROVE  CarriedFrom(stored.findings, f)'
      <4> DEFINE k == stored'.findings[f].carried
      <4>1. k \in FindingIds(stored') /\ k < f
        <5>1. stored'.findings[f] \in Finding
          BY <3>1 DEF Workspace, FindingIds
        <5>2. k \in Nat /\ k < f
          BY <3>2, <5>1 DEF Finding, WellNamed, FindingIds
        <5> QED
          BY <3>3, <3>5, <5>2 DEF FindingIds
      <4>2. CASE f <= Len(stored.findings)
        <5>1. f \in FindingIds(stored) /\ k \in FindingIds(stored)
          BY <3>3, <4>1, <4>2 DEF FindingIds
        <5>2. /\ stored'.findings[f].case = stored.findings[f].case
              /\ stored'.findings[k].case = stored.findings[k].case
              /\ stored.findings[f].carried = k
          BY <3>1, <5>1 DEF FindingsFit
        <5>3. /\ stored.cases[stored.findings[k].case].archived
              /\ stored.cases[stored.findings[f].case].from = stored.findings[k].case
          BY <3>5, <5>1, <5>2 DEF LineageHolds, CarriedFrom
        <5>4. /\ stored.findings[k].case \in CaseIds(stored)
              /\ stored.findings[f].case \in CaseIds(stored)
          BY <3>2, <5>1 DEF WellNamed, FindingIds, CaseIds
        <5> QED
          BY <3>4, <5>2, <5>3, <5>4 DEF CarriedFrom
      <4>3. CASE f > Len(stored.findings)
        <5>1. /\ CarryFits(stored'.findings, f, stored)
              /\ stored'.findings[f].case \in CaseIds(stored)
          BY <3>1, <4>3 DEF FindingsFit
        <5>2. /\ stored.cases[stored'.findings[k].case].archived
              /\ stored.cases[stored'.findings[f].case].from = stored'.findings[k].case
          BY <3>5, <5>1 DEF CarryFits
        <5>3. stored'.findings[k].case \in CaseIds(stored)
          <6>1. CASE k > Len(stored.findings)
            BY <3>1, <4>1, <6>1 DEF FindingsFit
          <6>2. CASE k <= Len(stored.findings)
            <7>1. k \in FindingIds(stored)
              BY <3>3, <4>1, <6>2 DEF FindingIds
            <7> QED
              BY <3>1, <3>2, <7>1 DEF FindingsFit, WellNamed, FindingIds, CaseIds
          <6> QED
            BY <3>3, <4>1, <6>1, <6>2 DEF FindingIds
        <5> QED
          BY <3>4, <5>1, <5>2, <5>3 DEF CarriedFrom
      <4> QED
        BY <3>3, <4>2, <4>3 DEF FindingIds
    <3>6. ASSUME NEW t \in ThreadIds(stored'), stored'.threads[t].carried # 0
          PROVE  CarriedFrom(stored.threads, t)'
      <4> DEFINE k == stored'.threads[t].carried
      <4>1. k \in ThreadIds(stored') /\ k < t
        <5>1. stored'.threads[t] \in Thread
          BY <3>1 DEF Workspace, ThreadIds
        <5>2. k \in Nat /\ k < t
          BY <3>2, <5>1 DEF Thread, WellNamed, ThreadIds
        <5> QED
          BY <3>3, <3>6, <5>2 DEF ThreadIds
      <4>2. CASE t <= Len(stored.threads)
        <5>1. t \in ThreadIds(stored) /\ k \in ThreadIds(stored)
          BY <3>3, <4>1, <4>2 DEF ThreadIds
        <5>2. /\ stored'.threads[t].case = stored.threads[t].case
              /\ stored'.threads[k].case = stored.threads[k].case
              /\ stored.threads[t].carried = k
          BY <3>1, <5>1 DEF ThreadsFit
        <5>3. /\ stored.cases[stored.threads[k].case].archived
              /\ stored.cases[stored.threads[t].case].from = stored.threads[k].case
          BY <3>6, <5>1, <5>2 DEF LineageHolds, CarriedFrom
        <5>4. /\ stored.threads[k].case \in CaseIds(stored)
              /\ stored.threads[t].case \in CaseIds(stored)
          BY <3>2, <5>1 DEF WellNamed, ThreadIds, CaseIds
        <5> QED
          BY <3>4, <5>2, <5>3, <5>4 DEF CarriedFrom
      <4>3. CASE t > Len(stored.threads)
        <5>1. /\ CarryFits(stored'.threads, t, stored)
              /\ stored'.threads[t].case \in CaseIds(stored)
          BY <3>1, <4>3 DEF ThreadsFit
        <5>2. /\ stored.cases[stored'.threads[k].case].archived
              /\ stored.cases[stored'.threads[t].case].from = stored'.threads[k].case
          BY <3>6, <5>1 DEF CarryFits
        <5>3. stored'.threads[k].case \in CaseIds(stored)
          <6>1. CASE k > Len(stored.threads)
            BY <3>1, <4>1, <6>1 DEF ThreadsFit
          <6>2. CASE k <= Len(stored.threads)
            <7>1. k \in ThreadIds(stored)
              BY <3>3, <4>1, <6>2 DEF ThreadIds
            <7> QED
              BY <3>1, <3>2, <7>1 DEF ThreadsFit, WellNamed, ThreadIds, CaseIds
          <6> QED
            BY <3>3, <4>1, <6>1, <6>2 DEF ThreadIds
        <5> QED
          BY <3>4, <5>1, <5>2, <5>3 DEF CarriedFrom
      <4> QED
        BY <3>3, <4>2, <4>3 DEF ThreadIds
    <3>7. ASSUME NEW c \in CaseIds(stored'), stored'.cases[c].from # 0
          PROVE  stored'.cases[stored'.cases[c].from].archived
      <4>1. CASE c <= Len(stored.cases)
        <5>1. c \in CaseIds(stored)
          BY <3>3, <4>1 DEF CaseIds
        <5>2. stored.cases[c].from = stored'.cases[c].from
          BY <3>4, <5>1
        <5>3. stored.cases[stored.cases[c].from].archived
          BY <3>7, <5>1, <5>2 DEF LineageHolds
        <5>4. stored.cases[c].from \in CaseIds(stored)
          <6>1. stored.cases[c] \in CaseRecord
            BY <3>2, <5>1 DEF Workspace, CaseIds
          <6>2. stored.cases[c].from \in Nat /\ stored.cases[c].from < c
            BY <3>2, <5>1, <6>1 DEF CaseRecord, WellNamed, CaseIds
          <6> QED
            BY <3>3, <3>7, <5>1, <5>2, <6>2 DEF CaseIds
        <5> QED
          BY <3>4, <5>2, <5>3, <5>4
      <4>2. CASE c > Len(stored.cases)
        BY <3>1, <3>4, <3>7, <4>2 DEF CasesFit
      <4> QED
        BY <3>3, <4>1, <4>2 DEF CaseIds
    <3> QED
      BY <3>5, <3>6, <3>7 DEF LineageHolds, CarriedFrom
  <2> QED
    BY <2>1, <2>2, OnlySavesWrite
<1> QED
  BY <1>1, <1>2, TypesAlways, PTL DEF Spec

\* Every crossing that was saved is in the log once, is still owed, or was lost
\* with its process; nothing else is in the log.
THEOREM EveryCrossingIsLogged == Spec => []CrossingsAreLoggedOnce
<1>1. Init => CrossingsAreLoggedOnce
  BY DEF Init, CrossingsAreLoggedOnce, CollaborativeCases, CaseIds, EmptyWorkspace
<1>2. Types /\ CrossingsAreLoggedOnce /\ [Next]_vars => CrossingsAreLoggedOnce'
  <2> SUFFICES ASSUME Types, CrossingsAreLoggedOnce, [Next]_vars
               PROVE  CrossingsAreLoggedOnce'
    OBVIOUS
  <2>1. owed \in [Sessions -> SUBSET Nat]
    BY DEF Types, TypeOK
  <2>2. CASE UNCHANGED <<stored, owed, logged, lost>>
    BY <2>2 DEF CrossingsAreLoggedOnce, CollaborativeCases, CaseIds
  <2>3. ASSUME NEW s \in Sessions, AppendToLog(s) \/ DieUnlogged(s)
        PROVE  CrossingsAreLoggedOnce'
    <3>1. /\ stored' = stored /\ owed' = [owed EXCEPT ![s] = {}]
          /\ \/ logged' = logged \cup owed[s] /\ lost' = lost
             \/ logged' = logged /\ lost' = lost \cup owed[s]
      BY <2>3 DEF AppendToLog, DieUnlogged
    <3>2. owed'[s] = {} /\ \A r \in Sessions \ {s} : owed'[r] = owed[r]
      BY <2>1, <3>1
    <3>3. CollaborativeCases' = CollaborativeCases
      BY <3>1 DEF CollaborativeCases, CaseIds
    <3>4. /\ CollaborativeCases = logged \cup lost \cup UNION {owed[r] : r \in Sessions}
          /\ logged \cap lost = {}
          /\ \A r \in Sessions :
                /\ owed[r] \cap (logged \cup lost) = {}
                /\ \A q \in Sessions \ {r} : owed[r] \cap owed[q] = {}
      BY DEF CrossingsAreLoggedOnce
    <3>5. logged' \cup lost' \cup UNION {owed'[r] : r \in Sessions}
              = logged \cup lost \cup UNION {owed[r] : r \in Sessions}
      BY <3>1, <3>2
    <3>6. logged' \cap lost' = {}
      BY <3>1, <3>4
    <3>7. \A r \in Sessions :
              /\ owed'[r] \cap (logged' \cup lost') = {}
              /\ \A q \in Sessions \ {r} : owed'[r] \cap owed'[q] = {}
      BY <3>1, <3>2, <3>4
    <3> QED
      BY <3>3, <3>4, <3>5, <3>6, <3>7 DEF CrossingsAreLoggedOnce
  <2>4. ASSUME NEW s \in Sessions, NEW w, NEW X, Outcome(s, w, X)
        PROVE  CrossingsAreLoggedOnce'
    <3>1. /\ CasesFit(Who[s], stored, stored', X) /\ stored' \in Workspace
          /\ held[s] = stored
      BY <2>4, FileFits, SaveFacts
    <3>2. owed' = [owed EXCEPT ![s] = X] /\ logged' = logged /\ lost' = lost
      BY <2>4 DEF Outcome, HistoryFits
    <3>3. owed[s] = {}
      BY <2>4 DEF Outcome, Types, HoldersOweNothing
    <3>4. owed'[s] = X /\ \A r \in Sessions \ {s} : owed'[r] = owed[r]
      BY <2>1, <3>2
    <3>5. X \cap CollaborativeCases = {}
      BY <3>1 DEF CasesFit, CollaborativeCases
    <3>6. CollaborativeCases' = CollaborativeCases \cup X
      <4>1. Len(stored.cases) \in Nat /\ Len(stored'.cases) \in Nat
        BY <3>1 DEF Types, TypeOK, Workspace
      <4>2. CaseIds(stored) \subseteq CaseIds(stored')
        BY <3>1, <4>1 DEF CasesFit, CaseIds
      <4>3. \A c \in CaseIds(stored) : stored'.cases[c].visibility = "collaborative"
                <=> (stored.cases[c].visibility = "collaborative" \/ c \in X)
        BY <3>1 DEF CasesFit
      <4>4. \A c \in CaseIds(stored') \ CaseIds(stored) :
                stored'.cases[c].visibility # "collaborative"
        BY <3>1, <4>1 DEF CasesFit, CaseIds
      <4>5. X \subseteq CaseIds(stored)
        BY <3>1 DEF CasesFit
      <4> QED
        BY <4>2, <4>3, <4>4, <4>5 DEF CollaborativeCases
    <3>7. /\ CollaborativeCases = logged \cup lost \cup UNION {owed[r] : r \in Sessions}
          /\ logged \cap lost = {}
          /\ \A r \in Sessions :
                /\ owed[r] \cap (logged \cup lost) = {}
                /\ \A q \in Sessions \ {r} : owed[r] \cap owed[q] = {}
      BY DEF CrossingsAreLoggedOnce
    <3>8. UNION {owed'[r] : r \in Sessions} = X \cup UNION {owed[r] : r \in Sessions}
      BY <3>3, <3>4
    <3>9. X \cap (logged \cup lost) = {} /\ \A r \in Sessions : X \cap owed[r] = {}
      BY <3>5, <3>7
    <3>10. \A r \in Sessions :
              /\ owed'[r] \cap (logged \cup lost) = {}
              /\ \A q \in Sessions \ {r} : owed'[r] \cap owed'[q] = {}
      BY <3>4, <3>7, <3>9
    <3> QED
      BY <3>2, <3>6, <3>7, <3>8, <3>10 DEF CrossingsAreLoggedOnce
  <2> QED
    BY <2>2, <2>3, <2>4, EveryStep
       DEF BeginRoute, EndRoute, Load, GiveUp, vars, history
<1> QED
  BY <1>1, <1>2, TypesAlways, PTL DEF Spec

\* A finding with a disposition was validated, and stays so.
LEMMA ValidatedFirst == Spec => []DisposedWasValidated
<1>1. Init => DisposedWasValidated
  BY DEF Init, EmptyWorkspace, DisposedWasValidated, FindingIds
<1>2. Types /\ DisposedWasValidated /\ [Next]_vars => DisposedWasValidated'
  <2> SUFFICES ASSUME Types, DisposedWasValidated, [Next]_vars
               PROVE  DisposedWasValidated'
    OBVIOUS
  <2>1. CASE stored' = stored
    BY <2>1 DEF DisposedWasValidated, FindingIds
  <2>2. ASSUME NEW s \in Sessions, NEW w, NEW X, Outcome(s, w, X)
        PROVE  DisposedWasValidated'
    <3>1. /\ FindingsFit(Who[s], stored, stored') /\ VerdictsFit(stored, stored')
          /\ stored' \in Workspace
      BY <2>2, FileFits, SaveFacts
    <3>2. ASSUME NEW f \in FindingIds(stored'), stored'.findings[f].disposition # "none"
          PROVE  stored'.findings[f].verdict # "none"
      <4>1. f \in Nat /\ f >= 1 /\ Len(stored.findings) \in Nat
        BY <3>1 DEF FindingIds, Types, TypeOK, Workspace
      <4>2. CASE f <= Len(stored.findings)
        BY <3>1, <3>2, <4>1, <4>2 DEF VerdictsFit, FindingIds, DisposedWasValidated
      <4>3. CASE f > Len(stored.findings)
        BY <3>1, <3>2, <4>3 DEF FindingsFit
      <4> QED
        BY <4>1, <4>2, <4>3
    <3> QED
      BY <3>2 DEF DisposedWasValidated
  <2> QED
    BY <2>1, <2>2, OnlySavesWrite
<1> QED
  BY <1>1, <1>2, TypesAlways, PTL DEF Spec

\* Project knowledge holds each applied finding once, and what is applied was
\* validated and Confirmed.
THEOREM KnowledgeIsRight == Spec => []KnowledgeIsTheApplied
<1>1. Init => KnowledgeIsTheApplied
  BY DEF Init, EmptyWorkspace, KnowledgeIsTheApplied, FindingIds
<1>2. Types /\ Types' /\ KnowledgeIsTheApplied /\ DisposedWasValidated' /\ [Next]_vars
          => KnowledgeIsTheApplied'
  <2> SUFFICES ASSUME Types, Types', KnowledgeIsTheApplied, DisposedWasValidated',
                      [Next]_vars
               PROVE  KnowledgeIsTheApplied'
    OBVIOUS
  <2>1. CASE stored' = stored
    BY <2>1 DEF KnowledgeIsTheApplied, FindingIds
  <2>2. ASSUME NEW s \in Sessions, NEW w, NEW X, Outcome(s, w, X)
        PROVE  KnowledgeIsTheApplied'
    <3>1. FindingsFit(Who[s], stored, stored') /\ KnowledgeFits(stored, stored')
      BY <2>2, FileFits
    <3>2. stored \in Workspace /\ stored' \in Workspace
      BY DEF Types, TypeOK
    <3> DEFINE m == Len(stored.findings)
               K == Len(stored.knowledge)
    <3>3. /\ m \in Nat /\ Len(stored'.findings) \in Nat /\ m <= Len(stored'.findings)
          /\ K \in Nat /\ Len(stored'.knowledge) \in Nat
          /\ stored.knowledge \in Seq(Nat)
          /\ \A f \in 1..m : stored'.findings[f].applied \in BOOLEAN
      <4>1. m \in Nat /\ Len(stored'.findings) \in Nat /\ m <= Len(stored'.findings)
        BY <3>1, <3>2 DEF Workspace, FindingsFit
      <4>2. \A f \in 1..m : stored'.findings[f] \in Finding
        BY <3>2, <4>1 DEF Workspace
      <4>3. \A f \in 1..m : stored'.findings[f].applied \in BOOLEAN
        BY <4>2 DEF Finding
      <4> QED
        BY <3>2, <4>1, <4>3 DEF Workspace
    <3>4. \A f \in FindingIds(stored') : stored'.findings[f].applied =>
              f \in FindingIds(stored)
      BY <3>1, <3>3 DEF FindingsFit, FindingIds
    <3>5. \A f \in FindingIds(stored) : stored.findings[f].applied =>
              stored'.findings[f] = stored.findings[f]
      BY <3>1 DEF FindingsFit
    <3>6. FindingIds(stored) \subseteq FindingIds(stored')
      BY <3>3 DEF FindingIds
    <3>7. /\ \A f \in FindingIds(stored) : stored.findings[f].applied =>
                /\ stored.findings[f].disposition = "Confirmed"
                /\ stored.findings[f].verdict # "none"
                /\ \E i \in 1..K : stored.knowledge[i] = f
          /\ \A i \in 1..K :
                /\ stored.knowledge[i] \in FindingIds(stored)
                /\ stored.findings[stored.knowledge[i]].applied
                /\ \A j \in 1..K : stored.knowledge[i] = stored.knowledge[j] => i = j
      BY DEF KnowledgeIsTheApplied
    <3>8. CASE /\ stored'.knowledge = stored.knowledge
               /\ \A f \in FindingIds(stored) :
                     stored'.findings[f].applied => stored.findings[f].applied
      <4>1. \A f \in FindingIds(stored') : stored'.findings[f].applied =>
                /\ stored'.findings[f].disposition = "Confirmed"
                /\ stored'.findings[f].verdict # "none"
                /\ \E i \in 1..K : stored'.knowledge[i] = f
        BY <3>4, <3>5, <3>7, <3>8
      <4>2. \A i \in 1..K :
                /\ stored'.knowledge[i] \in FindingIds(stored')
                /\ stored'.findings[stored'.knowledge[i]].applied
                /\ \A j \in 1..K : stored'.knowledge[i] = stored'.knowledge[j] => i = j
        BY <3>5, <3>6, <3>7, <3>8
      <4> QED
        BY <3>8, <4>1, <4>2 DEF KnowledgeIsTheApplied
    <3>9. ASSUME NEW n \in Nat, NEW q \in [1..n -> FindingIds(stored)],
                 stored'.knowledge = stored.knowledge \o q,
                 \A i, j \in 1..n : i < j => q[i] < q[j],
                 \A i \in 1..n :
                    /\ ~stored.findings[q[i]].applied
                    /\ stored.findings[q[i]].disposition = "Confirmed"
                    /\ stored'.findings[q[i]].applied
                    /\ stored'.findings[q[i]].disposition = "Confirmed",
                 \A f \in FindingIds(stored) :
                    (stored'.findings[f].applied /\ ~stored.findings[f].applied)
                        => \E i \in 1..n : q[i] = f
          PROVE  KnowledgeIsTheApplied'
      <4>1. q \in Seq(Nat) /\ Len(q) = n
        <5>1. q \in [1..n -> Nat]
          BY <3>3 DEF FindingIds
        <5> QED
          BY <5>1, SequenceOf
      <4>2. /\ Len(stored'.knowledge) = K + n
            /\ \A i \in 1..K : stored'.knowledge[i] = stored.knowledge[i]
            /\ \A i \in (K+1)..(K+n) : stored'.knowledge[i] = q[i - K]
        <5>1. PICK p \in Seq(Nat) : p = stored.knowledge
          BY <3>3
        <5>2. /\ Len(p \o q) = Len(p) + n
              /\ \A i \in 1..(Len(p) + n) :
                    (p \o q)[i] = IF i <= Len(p) THEN p[i] ELSE q[i - Len(p)]
          BY <4>1, ConcatProperties
        <5>3. stored'.knowledge = p \o q /\ K = Len(p)
          BY <3>9, <5>1
        <5>4. PICK k : k = p \o q
          OBVIOUS
        <5>5. Len(k) = K + n /\ \A i \in 1..(K+n) :
                  k[i] = IF i <= K THEN p[i] ELSE q[i - K]
          BY <5>2, <5>3, <5>4
        <5>6. stored'.knowledge = k /\ stored.knowledge = p
          BY <5>1, <5>3, <5>4
        <5> HIDE DEF K
        <5> QED
          BY <3>3, <5>5, <5>6
      <4> HIDE DEF K
      <4>3. ASSUME NEW f \in FindingIds(stored'), stored'.findings[f].applied
            PROVE  /\ stored'.findings[f].disposition = "Confirmed"
                   /\ stored'.findings[f].verdict # "none"
                   /\ \E i \in 1..Len(stored'.knowledge) : stored'.knowledge[i] = f
        <5>1. f \in FindingIds(stored)
          BY <3>4, <4>3
        <5>2. CASE stored.findings[f].applied
          <6>1. stored'.findings[f] = stored.findings[f]
            BY <3>5, <5>1, <5>2
          <6>2. PICK i \in 1..K : stored.knowledge[i] = f
            BY <3>7, <5>1, <5>2 DEF K
          <6>3. i \in 1..Len(stored'.knowledge) /\ stored'.knowledge[i] = f
            BY <3>3, <4>2, <6>2
          <6> QED
            BY <3>7, <5>1, <5>2, <6>1, <6>3
        <5>3. CASE ~stored.findings[f].applied
          <6>1. PICK i \in 1..n : q[i] = f
            BY <3>9, <4>3, <5>1, <5>3
          <6>2. stored'.findings[f].disposition = "Confirmed"
            BY <3>9, <6>1
          <6>3. K + i \in (K+1)..(K+n) /\ (K + i) - K = i
            BY <3>3, <6>1
          <6>4. K + i \in 1..Len(stored'.knowledge) /\ stored'.knowledge[K + i] = f
            BY <3>3, <4>2, <6>1, <6>3
          <6>5. stored'.findings[f].verdict # "none"
            BY <4>3, <6>2 DEF DisposedWasValidated
          <6> QED
            BY <6>2, <6>4, <6>5
        <5> QED
          BY <5>2, <5>3
      <4>4. \A i \in (K+1)..(K+n) : i - K \in 1..n
        BY <3>3
      <4>5. \A i \in 1..(K+n) : i \in 1..K \/ i \in (K+1)..(K+n)
        BY <3>3
      <4>6. ASSUME NEW i \in 1..(K+n)
            PROVE  /\ stored'.knowledge[i] \in FindingIds(stored')
                   /\ stored'.findings[stored'.knowledge[i]].applied
        <5>1. CASE i \in 1..K
          BY <3>5, <3>6, <3>7, <4>2, <5>1 DEF K
        <5>2. CASE i \in (K+1)..(K+n)
          BY <3>6, <3>9, <4>2, <4>4, <5>2
        <5> QED
          BY <4>5, <5>1, <5>2
      <4>7. ASSUME NEW i \in 1..K, NEW j \in (K+1)..(K+n)
            PROVE  stored'.knowledge[i] # stored'.knowledge[j]
        <5>1. stored.findings[stored'.knowledge[i]].applied
          BY <3>7, <4>2 DEF K
        <5>2. ~stored.findings[stored'.knowledge[j]].applied
          BY <3>9, <4>2, <4>4
        <5> QED
          BY <5>1, <5>2
      <4>8. ASSUME NEW i \in 1..K, NEW j \in 1..K,
                   stored'.knowledge[i] = stored'.knowledge[j]
            PROVE  i = j
        BY <3>7, <4>2, <4>8 DEF K
      <4>9. ASSUME NEW i \in (K+1)..(K+n), NEW j \in (K+1)..(K+n),
                   stored'.knowledge[i] = stored'.knowledge[j]
            PROVE  i = j
        <5>1. q[i - K] = q[j - K] /\ i - K \in 1..n /\ j - K \in 1..n
          BY <4>2, <4>4, <4>9
        <5>2. q[i - K] \in Nat
          BY <3>3, <5>1 DEF FindingIds
        <5>3. ~(i - K < j - K) /\ ~(j - K < i - K)
          BY <3>9, <5>1, <5>2
        <5> QED
          BY <3>3, <5>1, <5>3
      <4>10. ASSUME NEW i \in 1..(K+n), NEW j \in 1..(K+n),
                    stored'.knowledge[i] = stored'.knowledge[j]
             PROVE  i = j
        BY <4>5, <4>7, <4>8, <4>9, <4>10
      <4> QED
        BY <4>2, <4>3, <4>6, <4>10 DEF KnowledgeIsTheApplied
    <3> QED
      BY <3>1, <3>8, <3>9 DEF KnowledgeFits
  <2> QED
    BY <2>1, <2>2, OnlySavesWrite
<1> QED
  BY <1>1, <1>2, TypesAlways, ValidatedFirst, PTL DEF Spec
=============================================================================
