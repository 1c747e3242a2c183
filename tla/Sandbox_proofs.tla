--------------------------- MODULE Sandbox_proofs ---------------------------
(***************************************************************************)
(* Proofs about Sandbox, for any number of requests, images and deaths.    *)
(*                                                                         *)
(* The inductive invariant is Fits, of every request, with Held, of what   *)
(* they share.  As long as no lock was robbed, whoever is under the lock   *)
(* has it (so there is one), whatever a page or a start has seen is the    *)
(* Sandbox or lies before it (Past), and what is about to be written is    *)
(* the next revision of what is there, or a new Sandbox (Builds).          *)
(***************************************************************************)
EXTENDS Sandbox, TLAPS

\* Record e is the record s, or lies before it.
Precedes(e, s) ==
    \/ e = NoSandbox
    \/ /\ s # NoSandbox
       /\ \/ e.id < s.id
          \/ e.id = s.id /\ (e.revision < s.revision \/ e = s)

\* A record that is on disk, or was before what is.
Past(e) == Precedes(e, sandbox)

\* What request r is about to write follows what is there.
Builds(r) ==
    /\ work[r].internal \/ work[r].expected = sandbox
    /\ \/ sandbox = NoSandbox /\ work[r].record.images = {} /\ media = {}
       \/ /\ sandbox # NoSandbox /\ sandbox.id < work[r].record.id
          /\ media = {} /\ ~work[r].internal
       \/ /\ sandbox # NoSandbox /\ work[r].record.id = sandbox.id
          /\ work[r].record.revision = sandbox.revision + 1
          /\ sandbox.images \subseteq work[r].record.images
          /\ work[r].internal => work[r].record.images = sandbox.images

UnderLock == {"locked", "writing", "leaving"}
Before == {"idle", "page", "waiting", "breaking", "locked"}

Fits(r) ==
    /\ work[r].at \in Before => work[r].record = NoSandbox
    /\ work[r].record # NoSandbox => work[r].record.id <= started
    /\ At(r, "writing") => /\ work[r].record # NoSandbox
                           /\ work[r].record.images \subseteq media \cup taken
    /\ ~robbed =>
          /\ work[r].at \in UnderLock => lock = r
          /\ Past(work[r].expected)
          /\ work[r].at \in {"leaving", "sweeping"} => Past(work[r].record)
          /\ At(r, "writing") => Builds(r)

Held ==
    /\ sandbox # NoSandbox => sandbox.id <= started
    /\ ImagesOf(sandbox) \subseteq media \cup taken
    /\ ~robbed => \A i \in media :
          \/ i \in ImagesOf(sandbox) \cup stray
          \/ \E q \in Requests : At(q, "writing") /\ i \in work[q].record.images

Types ==
    /\ sandbox \in Record \cup {NoSandbox}
    /\ media \subseteq Images
    /\ lock \in Requests \cup {"free", "abandoned", "stale"}
    /\ work \in [Requests -> Work]
    /\ started \in Nat /\ deaths \in Nat
    /\ robbed \in BOOLEAN /\ taken \subseteq Images /\ stray \subseteq Images

Inv == Types /\ Held /\ \A r \in Requests : Fits(r)

USE SandboxAssumption, NoSandboxAssumption

-----------------------------------------------------------------------------

LEMMA InvTyped == Inv => TypeOK
BY DEF Inv, Types, TypeOK, Fits

LEMMA IdleIsTyped == Idle \in Work /\ Idle.at = "idle" /\ Idle.expected = NoSandbox
                     /\ Idle.record = NoSandbox /\ Idle.internal = FALSE
BY DEF Idle, Work, Places

\* A request that moves leaves the others where they are.
LEMMA OneMoves ==
    ASSUME work \in [Requests -> Work], NEW r \in Requests, NEW w \in Work,
           work' = [work EXCEPT ![r] = w]
    PROVE  /\ work' \in [Requests -> Work] /\ work'[r] = w
           /\ \A q \in Requests \ {r} : work'[q] = work[q]
OBVIOUS

\* A record with the token of the Sandbox that lies not before it is the Sandbox.
LEMMA TokensNameStates ==
    ASSUME NEW e \in Record \cup {NoSandbox}, sandbox \in Record \cup {NoSandbox},
           Past(e), Token(e) = Token(sandbox)
    PROVE  e = sandbox
<1>1. CASE e = NoSandbox
  BY <1>1 DEF Token, Record
<1>2. CASE e # NoSandbox
  <2>1. sandbox # NoSandbox /\ e \in Record /\ sandbox \in Record
    BY <1>2 DEF Past, Precedes
  <2>2. e.id = sandbox.id /\ e.revision = sandbox.revision
    BY <1>2, <2>1 DEF Token
  <2> QED
    BY <1>2, <2>1, <2>2 DEF Past, Precedes, Record
<1> QED
  BY <1>1, <1>2

\* A step of r that moves it somewhere outside the writing, and nothing else.
LEMMA OnlyMoves ==
    ASSUME Inv, NEW r \in Requests, NEW w \in Work, work' = [work EXCEPT ![r] = w],
           UNCHANGED <<sandbox, media, lock, started, robbed, taken, stray>>,
           deaths' \in Nat,
           work[r].at # "writing", w.at # "writing",
           w.at \in Before => w.record = NoSandbox,
           w.record # NoSandbox => w.record.id <= started,
           ~robbed => /\ w.at \in UnderLock => lock = r
                      /\ Past(w.expected)
                      /\ w.at \in {"leaving", "sweeping"} => Past(w.record)
    PROVE  Inv'
<1>1. /\ work' \in [Requests -> Work] /\ work'[r] = w
      /\ \A q \in Requests \ {r} : work'[q] = work[q]
  BY OneMoves DEF Inv, Types
<1>2. Types'
  BY <1>1 DEF Inv, Types
<1>3. Held'
  BY <1>1 DEF Inv, Held, At, ImagesOf
<1>4. Fits(r)'
  BY <1>1 DEF Fits, Past, Precedes, At
<1>5. ASSUME NEW q \in Requests \ {r} PROVE Fits(q)'
  BY <1>1 DEF Inv, Fits, Past, Precedes, At, Builds
<1> QED
  BY <1>2, <1>3, <1>4, <1>5 DEF Inv

LEMMA DrawKeeps == ASSUME Inv, NEW r \in Requests, Draw(r) PROVE Inv'
<1>1. PICK w : w = [Idle EXCEPT !.at = "page", !.expected = sandbox]
  OBVIOUS
<1>2. /\ w \in Work /\ w.at = "page" /\ w.expected = sandbox /\ w.record = NoSandbox
  BY <1>1 DEF Inv, Types, Idle, Work, Places
<1>3. Past(sandbox)
  BY DEF Past, Precedes
<1> QED
  BY <1>1, <1>2, <1>3, OnlyMoves DEF Draw, history, At, UnderLock, Inv, Types

LEMMA PostKeeps == ASSUME Inv, NEW r \in Requests, Post(r) PROVE Inv'
<1>1. PICK b \in BOOLEAN :
          work' = [work EXCEPT ![r] = [work[r] EXCEPT !.at = "waiting", !.internal = b]]
  <2>1. PICK b \in BOOLEAN : work' = [work EXCEPT ![r].at = "waiting", ![r].internal = b]
    BY DEF Post
  <2>2. work \in [Requests -> Work]
    BY DEF Inv, Types
  <2> QED
    BY <2>1, <2>2
<1>2. PICK w : w = [work[r] EXCEPT !.at = "waiting", !.internal = b]
  OBVIOUS
<1>3. /\ w \in Work /\ w.at = "waiting" /\ w.expected = work[r].expected
      /\ w.record = work[r].record
  BY <1>2 DEF Inv, Types, Work, Places
<1>4. Fits(r)
  BY DEF Inv
<1> QED
  BY <1>1, <1>2, <1>3, <1>4, OnlyMoves DEF Post, history, At, UnderLock, Before, Inv, Types, Fits

\* Going to a place where nothing is asked of a request.
LEMMA GoKeeps ==
    ASSUME Inv, NEW r \in Requests, NEW place \in {"waiting", "breaking"},
           Go(r, place), work[r].at \in Before,
           UNCHANGED <<sandbox, media, lock, started, deaths, history>>
    PROVE  Inv'
<1>1. PICK w : w = [work[r] EXCEPT !.at = place]
  OBVIOUS
<1>2. /\ w \in Work /\ w.at = place /\ w.expected = work[r].expected
      /\ w.record = work[r].record
  BY <1>1 DEF Inv, Types, Work, Places
<1>3. Fits(r)
  BY DEF Inv
<1> QED
  BY <1>1, <1>2, <1>3, OnlyMoves DEF Go, history, At, UnderLock, Before, Inv, Types, Fits

LEMMA FindStaleKeeps == ASSUME Inv, NEW r \in Requests, FindStale(r) PROVE Inv'
BY GoKeeps DEF FindStale, At, Before

LEMMA BusyKeeps == ASSUME Inv, NEW r \in Requests, Busy(r) PROVE Inv'
<1>1. Past(NoSandbox)
  BY DEF Past, Precedes
<1> QED
  BY <1>1, IdleIsTyped, OnlyMoves DEF Busy, history, At, UnderLock, Inv, Types

LEMMA RefuseKeeps == ASSUME Inv, NEW r \in Requests, Refuse(r) PROVE Inv'
<1>1. PICK w : w = [work[r] EXCEPT !.at = "leaving"]
  OBVIOUS
<1>2. /\ w \in Work /\ w.at = "leaving" /\ w.expected = work[r].expected
      /\ w.record = work[r].record
  BY <1>1 DEF Inv, Types, Work, Places
<1>3. Fits(r) /\ work[r].at = "locked" /\ Past(NoSandbox)
  BY DEF Inv, Refuse, At, Past, Precedes
<1> QED
  BY <1>1, <1>2, <1>3, OnlyMoves DEF Refuse, Go, history, At, UnderLock, Before, Inv, Types, Fits

LEMMA AcquireKeeps == ASSUME Inv, NEW r \in Requests, Acquire(r) PROVE Inv'
<1>1. PICK w : w = [work[r] EXCEPT !.at = "locked"]
  OBVIOUS
<1>2. /\ w \in Work /\ w.at = "locked" /\ w.expected = work[r].expected
      /\ w.record = work[r].record
  BY <1>1 DEF Inv, Types, Work, Places
<1>3. /\ work[r].at = "waiting" /\ lock = "free" /\ lock' = r
      /\ work' = [work EXCEPT ![r] = w]
      /\ UNCHANGED <<sandbox, media, started, deaths, robbed, taken, stray>>
  BY <1>1 DEF Acquire, Go, At, history
<1>4. /\ work' \in [Requests -> Work] /\ work'[r] = w
      /\ \A q \in Requests \ {r} : work'[q] = work[q]
  BY <1>2, <1>3, OneMoves DEF Inv, Types
<1>5. Types'
  BY <1>3, <1>4 DEF Inv, Types
<1>6. Held'
  BY <1>2, <1>3, <1>4 DEF Inv, Held, At, ImagesOf
<1>7. Fits(r)'
  BY <1>2, <1>3, <1>4 DEF Inv, Fits, Past, Precedes, At, UnderLock, Before
<1>8. ASSUME NEW q \in Requests \ {r} PROVE Fits(q)'
  BY <1>3, <1>4 DEF Inv, Fits, Past, Precedes, At, Builds
<1> QED
  BY <1>5, <1>6, <1>7, <1>8 DEF Inv

LEMMA BreakLockKeeps == ASSUME Inv, NEW r \in Requests, BreakLock(r) PROVE Inv'
<1>1. PICK w : w = [work[r] EXCEPT !.at = "waiting"]
  OBVIOUS
<1>2. /\ w \in Work /\ w.at = "waiting" /\ w.expected = work[r].expected
      /\ w.record = work[r].record
  BY <1>1 DEF Inv, Types, Work, Places
<1>3. /\ work[r].at = "breaking" /\ lock' = "free"
      /\ robbed' = (robbed \/ lock \in Requests)
      /\ work' = [work EXCEPT ![r] = w]
      /\ UNCHANGED <<sandbox, media, started, deaths, taken, stray>>
  BY <1>1 DEF BreakLock, Go, At
<1>4. /\ work' \in [Requests -> Work] /\ work'[r] = w
      /\ \A q \in Requests \ {r} : work'[q] = work[q]
  BY <1>2, <1>3, OneMoves DEF Inv, Types
<1>5. Types'
  BY <1>3, <1>4 DEF Inv, Types
<1>6. Held'
  BY <1>2, <1>3, <1>4 DEF Inv, Held, At, ImagesOf
<1>7. Fits(r)'
  BY <1>2, <1>3, <1>4 DEF Inv, Fits, Past, Precedes, At, UnderLock, Before
<1>8. ASSUME NEW q \in Requests \ {r} PROVE Fits(q)'
  <2>1. ~robbed' => work[q].at \notin UnderLock
    BY <1>3 DEF Inv, Fits
  <2> QED
    BY <1>3, <1>4, <2>1 DEF Inv, Fits, Past, Precedes, At, Builds
<1> QED
  BY <1>5, <1>6, <1>7, <1>8 DEF Inv

\* While no lock was robbed, whoever is under the lock is there alone.
LEMMA Alone ==
    ASSUME Inv, ~robbed, NEW r \in Requests, NEW q \in Requests,
           work[r].at \in UnderLock, work[q].at \in UnderLock
    PROVE  q = r
BY DEF Inv, Fits

LEMMA StartKeeps == ASSUME Inv, NEW r \in Requests, Start(r) PROVE Inv'
<1>1. PICK new : new = [id |-> started + 1, revision |-> 1, images |-> {}, by |-> r]
  OBVIOUS
<1>2. /\ new \in Record /\ new.id = started + 1 /\ new.images = {} /\ new # NoSandbox
  BY <1>1 DEF Inv, Types, Record
<1>3. PICK w : w = [work[r] EXCEPT !.at = "writing", !.record = new]
  OBVIOUS
<1>4. /\ w \in Work /\ w.at = "writing" /\ w.expected = work[r].expected
      /\ w.record = new /\ w.internal = work[r].internal
  BY <1>2, <1>3 DEF Inv, Types, Work, Places
<1>5. /\ work[r].at = "locked" /\ ~work[r].internal /\ Current(r)
      /\ media' = {} /\ taken' = taken \cup media /\ started' = started + 1
      /\ UNCHANGED <<sandbox, lock, deaths, robbed, stray>>
      /\ work' = [work EXCEPT ![r] = w]
  <2>1. work \in [Requests -> Work]
    BY DEF Inv, Types
  <2> QED
    BY <1>1, <1>3, <2>1 DEF Start, At
<1>6. /\ work' \in [Requests -> Work] /\ work'[r] = w
      /\ \A q \in Requests \ {r} : work'[q] = work[q]
  BY <1>4, <1>5, OneMoves DEF Inv, Types
<1>7. Types'
  BY <1>5, <1>6 DEF Inv, Types
<1>8. Held'
  <2>1. sandbox # NoSandbox => sandbox.id <= started'
    BY <1>5 DEF Inv, Held, Types, Record
  <2>2. ImagesOf(sandbox) \subseteq media' \cup taken'
    BY <1>5 DEF Inv, Held
  <2> QED
    BY <1>5, <2>1, <2>2 DEF Held, ImagesOf
<1>9. Fits(r)'
  <2>1. ~robbed => r = lock /\ Past(work[r].expected)
    BY <1>5 DEF Inv, Fits, UnderLock
  <2>2. ~robbed => work[r].expected = sandbox
    <3>1. work[r].expected \in Record \cup {NoSandbox} /\ sandbox \in Record \cup {NoSandbox}
      BY DEF Inv, Types, Work
    <3> QED
      BY <1>5, <2>1, <3>1, TokensNameStates DEF Current
  <2>3. sandbox # NoSandbox => sandbox.id < new.id
    BY <1>2 DEF Inv, Types, Held, Record
  <2>4. ~robbed => Builds(r)'
    BY <1>2, <1>4, <1>5, <1>6, <2>2, <2>3 DEF Builds
  <2> QED
    BY <1>2, <1>4, <1>5, <1>6, <2>1, <2>4 DEF Fits, Past, Precedes, At, UnderLock, Before, Inv, Types
<1>10. ASSUME NEW q \in Requests \ {r} PROVE Fits(q)'
  <2>1. Fits(q)
    BY DEF Inv
  <2>2. ~robbed => work[q].at \notin UnderLock
    BY <1>5, Alone DEF UnderLock
  <2>3. work[q].record # NoSandbox => work[q].record.id <= started'
    BY <1>5, <2>1 DEF Fits, Inv, Types, Work, Record
  <2>4. At(q, "writing") => work[q].record.images \subseteq media' \cup taken'
    BY <1>5, <2>1 DEF Fits
  <2> QED
    BY <1>5, <1>6, <2>1, <2>2, <2>3, <2>4 DEF Fits, Past, Precedes, At, UnderLock
<1> QED
  BY <1>7, <1>8, <1>9, <1>10 DEF Inv

LEMMA ChangeKeeps == ASSUME Inv, NEW r \in Requests, Change(r) PROVE Inv'
<1>1. PICK added \in {{}} \cup {{i} : i \in Images} :
          /\ work[r].internal => added = {}
          /\ media' = media \cup added /\ taken' = taken \ added
          /\ work' = [work EXCEPT ![r].at = "writing", ![r].record = Revised(r, added)]
  BY DEF Change
<1>2. /\ work[r].at = "locked" /\ Current(r) /\ sandbox \in Record /\ sandbox # NoSandbox
      /\ UNCHANGED <<sandbox, lock, started, deaths, robbed, stray>>
  BY DEF Change, At, Inv, Types
<1>3. added \subseteq Images
  OBVIOUS
<1>4. PICK new : new = Revised(r, added)
  OBVIOUS
<1>5. /\ new \in Record /\ new.id = sandbox.id /\ new.revision = sandbox.revision + 1
      /\ new.images = sandbox.images \cup added /\ new # NoSandbox
  <2>1. PICK next : next = sandbox.revision + 1
    OBVIOUS
  <2>2. PICK images : images = sandbox.images \cup added
    OBVIOUS
  <2>3. new = [sandbox EXCEPT !.revision = next, !.images = images, !.by = r]
    BY <1>4, <2>1, <2>2 DEF Revised
  <2>4. sandbox \in [id : Nat, revision : Nat \ {0}, images : SUBSET Images, by : Requests]
    BY <1>2 DEF Record
  <2>5. next \in Nat \ {0} /\ images \in SUBSET Images
    BY <1>3, <2>1, <2>2, <2>4
  <2>6. new = [id |-> sandbox.id, revision |-> next, images |-> images, by |-> r]
    BY <2>3, <2>4
  <2>7. new \in Record
    BY <2>4, <2>5, <2>6 DEF Record
  <2> QED
    BY <2>1, <2>2, <2>6, <2>7
<1>6. PICK w : w = [work[r] EXCEPT !.at = "writing", !.record = new]
  OBVIOUS
<1>7. /\ w \in Work /\ w.at = "writing" /\ w.expected = work[r].expected
      /\ w.record = new /\ w.internal = work[r].internal
  BY <1>5, <1>6 DEF Inv, Types, Work, Places
<1>8. work' = [work EXCEPT ![r] = w]
  <2>1. work \in [Requests -> Work]
    BY DEF Inv, Types
  <2> QED
    BY <1>1, <1>4, <1>6, <2>1
<1>9. /\ work' \in [Requests -> Work] /\ work'[r] = w
      /\ \A q \in Requests \ {r} : work'[q] = work[q]
  BY <1>7, <1>8, OneMoves DEF Inv, Types
<1>10. Types'
  BY <1>1, <1>2, <1>3, <1>9 DEF Inv, Types
<1>11. Held'
  <2>1. sandbox' # NoSandbox => sandbox'.id <= started'
    BY <1>2 DEF Inv, Held
  <2>2. ImagesOf(sandbox) \subseteq media' \cup taken'
    BY <1>1 DEF Inv, Held
  <2>3. ASSUME ~robbed, NEW i \in media'
        PROVE  \/ i \in ImagesOf(sandbox) \cup stray
               \/ \E q \in Requests : At(q, "writing")' /\ i \in work'[q].record.images
    <3>1. CASE i \in added
      BY <1>5, <1>7, <1>9, <3>1 DEF At
    <3>2. CASE i \in media
      <4>1. \/ i \in ImagesOf(sandbox) \cup stray
            \/ \E q \in Requests : At(q, "writing") /\ i \in work[q].record.images
        BY <2>3, <3>2 DEF Inv, Held
      <4>2. \A q \in Requests : At(q, "writing") => q # r
        BY <1>2 DEF At
      <4> QED
        BY <1>9, <4>1, <4>2 DEF At
    <3> QED
      BY <1>1, <2>3, <3>1, <3>2
  <2>4. ImagesOf(sandbox)' = ImagesOf(sandbox)
    BY <1>2 DEF ImagesOf
  <2> QED
    BY <1>2, <2>1, <2>2, <2>3, <2>4 DEF Held
<1>12. Fits(r)'
  <2>1. ~robbed => r = lock /\ Past(work[r].expected)
    BY <1>2 DEF Inv, Fits, UnderLock
  <2>2. ~robbed => work[r].internal \/ work[r].expected = sandbox
    <3>1. work[r].expected \in Record \cup {NoSandbox} /\ sandbox \in Record \cup {NoSandbox}
      BY DEF Inv, Types, Work
    <3> QED
      BY <1>2, <2>1, <3>1, TokensNameStates DEF Current
  <2>3. ~robbed => Builds(r)'
    BY <1>1, <1>2, <1>5, <1>7, <1>9, <2>2 DEF Builds
  <2>4. new.images \subseteq media' \cup taken'
    BY <1>1, <1>2, <1>5 DEF Inv, Held, ImagesOf
  <2>5. new.id <= started
    BY <1>2, <1>5 DEF Inv, Held
  <2> QED
    BY <1>2, <1>5, <1>7, <1>9, <2>1, <2>3, <2>4, <2>5 DEF Fits, Past, Precedes, At, UnderLock, Before
<1>13. ASSUME NEW q \in Requests \ {r} PROVE Fits(q)'
  <2>1. Fits(q)
    BY DEF Inv
  <2>2. ~robbed => work[q].at \notin UnderLock
    BY <1>2, Alone DEF UnderLock
  <2>3. At(q, "writing") => work[q].record.images \subseteq media' \cup taken'
    BY <1>1, <2>1 DEF Fits
  <2> QED
    BY <1>2, <1>9, <2>1, <2>2, <2>3 DEF Fits, Past, Precedes, At, UnderLock
<1> QED
  BY <1>10, <1>11, <1>12, <1>13 DEF Inv

\* What lay before a record lies before its next revision, and before a later
\* Sandbox.
LEMMA PastStays ==
    ASSUME NEW s \in Record, NEW n \in Record,
           s.id < n.id \/ (n.id = s.id /\ n.revision = s.revision + 1),
           NEW e \in Record, Precedes(e, s)
    PROVE  Precedes(e, n)
<1>1. /\ e.id \in Nat /\ s.id \in Nat /\ n.id \in Nat
      /\ e.revision \in Nat /\ s.revision \in Nat /\ n.revision \in Nat
  BY DEF Record
<1>2. e # NoSandbox /\ s # NoSandbox /\ n # NoSandbox
  OBVIOUS
<1>3. CASE e.id < s.id
  BY <1>1, <1>2, <1>3 DEF Precedes
<1>4. CASE e.id = s.id /\ e.revision < s.revision
  BY <1>1, <1>2, <1>4 DEF Precedes
<1>5. CASE e = s
  BY <1>1, <1>2, <1>5 DEF Precedes
<1> QED
  BY <1>2, <1>3, <1>4, <1>5 DEF Precedes

\* So it lies before what r is about to write over it.
LEMMA PastBuilds ==
    ASSUME Inv, NEW r \in Requests, Builds(r), work[r].record \in Record,
           NEW e \in Record \cup {NoSandbox}, Past(e)
    PROVE  Precedes(e, work[r].record)
<1>1. PICK n \in Record : n = work[r].record
  OBVIOUS
<1>2. CASE e = NoSandbox
  BY <1>2 DEF Precedes
<1>3. CASE e # NoSandbox
  <2>1. sandbox # NoSandbox /\ sandbox \in Record
    BY <1>3 DEF Past, Precedes, Inv, Types
  <2>2. PICK s \in Record : s = sandbox
    BY <2>1
  <2>3. s.id < n.id \/ (n.id = s.id /\ n.revision = s.revision + 1)
    BY <1>1, <2>1, <2>2 DEF Builds
  <2> QED
    BY <1>1, <1>3, <2>2, <2>3, PastStays DEF Past
<1> QED
  BY <1>2, <1>3

LEMMA WriteKeeps == ASSUME Inv, NEW r \in Requests, Write(r) PROVE Inv'
<1>1. PICK w : w = [work[r] EXCEPT !.at = "leaving"]
  OBVIOUS
<1>2. /\ w \in Work /\ w.at = "leaving" /\ w.expected = work[r].expected
      /\ w.record = work[r].record
  BY <1>1 DEF Inv, Types, Work, Places
<1>3. /\ work[r].at = "writing" /\ sandbox' = work[r].record
      /\ work' = [work EXCEPT ![r] = w]
      /\ UNCHANGED <<media, lock, started, deaths, robbed, taken, stray>>
  BY <1>1 DEF Write, Go, At, history
<1>4. /\ work' \in [Requests -> Work] /\ work'[r] = w
      /\ \A q \in Requests \ {r} : work'[q] = work[q]
  BY <1>2, <1>3, OneMoves DEF Inv, Types
<1>5. /\ work[r].record \in Record /\ work[r].record # NoSandbox
      /\ work[r].record.id <= started
      /\ work[r].record.images \subseteq media \cup taken
  BY <1>3 DEF Inv, Types, Fits, At, Work
<1>6. ~robbed => Builds(r)
  BY <1>3 DEF Inv, Fits, At
<1>7. Types'
  BY <1>3, <1>4, <1>5 DEF Inv, Types
<1>8. Held'
  <2>1. ASSUME ~robbed, NEW i \in media PROVE i \in work[r].record.images \cup stray
    <3>1. \/ i \in ImagesOf(sandbox) \cup stray
          \/ \E q \in Requests : At(q, "writing") /\ i \in work[q].record.images
      BY <2>1 DEF Inv, Held
    <3>2. ASSUME NEW q \in Requests, At(q, "writing") PROVE q = r
      BY <1>3, <2>1, <3>2, Alone DEF At, UnderLock
    <3>3. i \in ImagesOf(sandbox) => i \in work[r].record.images
      BY <1>6, <2>1 DEF Builds, ImagesOf
    <3> QED
      BY <3>1, <3>2, <3>3
  <2>2. sandbox'.id <= started' /\ ImagesOf(sandbox') = work[r].record.images
    BY <1>3, <1>5 DEF ImagesOf
  <2>3. ImagesOf(sandbox)' = ImagesOf(sandbox')
    BY DEF ImagesOf
  <2> QED
    BY <1>3, <1>5, <2>1, <2>2, <2>3 DEF Held
<1>9. ASSUME NEW q \in Requests, ~robbed PROVE Past(work[q].expected)'
  <2>1. work'[q].expected = work[q].expected
    BY <1>2, <1>4
  <2>2. PICK e \in Record \cup {NoSandbox} : e = work[q].expected
    BY DEF Inv, Types, Work
  <2>3. Past(e)
    BY <1>9, <2>2 DEF Inv, Fits
  <2>4. Precedes(e, work[r].record)
    BY <1>5, <1>6, <1>9, <2>3, PastBuilds
  <2> QED
    BY <1>3, <2>1, <2>2, <2>4 DEF Past
<1>10. Fits(r)'
  <2>1. Past(work[r].record)'
    BY <1>3, <1>4, <1>5, <1>2 DEF Past, Precedes
  <2>2. ~robbed => lock = r
    BY <1>3 DEF Inv, Fits, UnderLock
  <2> QED
    BY <1>2, <1>3, <1>4, <1>5, <1>9, <2>1, <2>2 DEF Fits, At, UnderLock, Before
<1>11. ASSUME NEW q \in Requests \ {r} PROVE Fits(q)'
  <2>1. Fits(q)
    BY DEF Inv
  <2>2. ~robbed => work[q].at \notin UnderLock
    BY <1>3, Alone DEF UnderLock
  <2>3. PICK e \in Record \cup {NoSandbox} : e = work[q].record
    BY DEF Inv, Types, Work
  <2>4. ~robbed /\ work[q].at = "sweeping" => Past(e)'
    <3>1. ~robbed /\ work[q].at = "sweeping" => Past(e)
      BY <2>1, <2>3 DEF Fits
    <3>2. ~robbed /\ work[q].at = "sweeping" => Precedes(e, work[r].record)
      BY <1>5, <1>6, <3>1, PastBuilds
    <3> QED
      BY <1>3, <3>2 DEF Past
  <2> QED
    BY <1>3, <1>4, <1>9, <2>1, <2>2, <2>3, <2>4 DEF Fits, At, UnderLock
<1> QED
  BY <1>7, <1>8, <1>10, <1>11 DEF Inv

LEMMA ReleaseKeeps == ASSUME Inv, NEW r \in Requests, Release(r) PROVE Inv'
<1>1. PICK w : w = IF work[r].record = NoSandbox \/ work[r].internal THEN Idle
                   ELSE [work[r] EXCEPT !.at = "sweeping"]
  OBVIOUS
<1>2. /\ w \in Work /\ w.at \in {"idle", "sweeping"}
      /\ w.expected \in {work[r].expected, NoSandbox}
      /\ w.record \in {work[r].record, NoSandbox}
      /\ w.at = "idle" => w.record = NoSandbox
  <2>1. CASE work[r].record = NoSandbox \/ work[r].internal
    BY <1>1, <2>1, IdleIsTyped
  <2>2. CASE ~(work[r].record = NoSandbox \/ work[r].internal)
    BY <1>1, <2>2 DEF Inv, Types, Work, Places
  <2> QED
    BY <2>1, <2>2
<1>3. /\ work[r].at = "leaving" /\ lock' = "free"
      /\ robbed' = (robbed \/ lock \in Requests \ {r})
      /\ work' = [work EXCEPT ![r] = w]
      /\ UNCHANGED <<sandbox, media, started, deaths, taken, stray>>
  <2>1. work \in [Requests -> Work]
    BY DEF Inv, Types
  <2> QED
    BY <1>1, <2>1 DEF Release, At
<1>4. /\ work' \in [Requests -> Work] /\ work'[r] = w
      /\ \A q \in Requests \ {r} : work'[q] = work[q]
  BY <1>2, <1>3, OneMoves DEF Inv, Types
<1>5. Types'
  BY <1>3, <1>4 DEF Inv, Types
<1>6. Held'
  BY <1>2, <1>3, <1>4 DEF Inv, Held, At, ImagesOf
<1>7. Fits(r)'
  <2>1. Fits(r)
    BY DEF Inv
  <2>2. ~robbed' => ~robbed
    BY <1>3
  <2> QED
    BY <1>2, <1>3, <1>4, <2>1, <2>2 DEF Fits, Past, Precedes, At, UnderLock, Before
<1>8. ASSUME NEW q \in Requests \ {r} PROVE Fits(q)'
  <2>1. ~robbed' => ~robbed
    BY <1>3
  <2>2. ~robbed' => work[q].at \notin UnderLock
    BY <1>3, <2>1, Alone DEF UnderLock
  <2>3. Fits(q)
    BY DEF Inv
  <2> QED
    BY <1>3, <1>4, <2>1, <2>2, <2>3 DEF Fits, Past, Precedes, At, UnderLock
<1> QED
  BY <1>5, <1>6, <1>7, <1>8 DEF Inv

LEMMA SweepKeeps == ASSUME Inv, NEW r \in Requests, Sweep(r) PROVE Inv'
<1>1. PICK gone : gone = media \ work[r].record.images
  OBVIOUS
<1>2. /\ work[r].at = "sweeping" /\ media' = media \ gone
      /\ taken' = IF Late(r) THEN taken \cup gone ELSE taken
      /\ stray' = stray \ gone
      /\ UNCHANGED <<sandbox, lock, started, deaths, robbed>>
  BY <1>1 DEF Sweep, At
<1>3. PICK w \in Work : /\ work' = [work EXCEPT ![r] = w]
                        /\ w.at \in {"idle", "page", "waiting"}
                        /\ w.record = NoSandbox
                        /\ w.expected \in {NoSandbox, work[r].record}
  <2>1. CASE work' = [work EXCEPT ![r] = Idle]
    BY <2>1, IdleIsTyped
  <2>2. CASE \E next \in {"page", "waiting"} :
                work' = [work EXCEPT ![r] = [Idle EXCEPT
                    !.at = next, !.expected = work[r].record]]
    <3>1. PICK next \in {"page", "waiting"} :
              work' = [work EXCEPT ![r] = [Idle EXCEPT
                  !.at = next, !.expected = work[r].record]]
      BY <2>2
    <3>2. PICK w : w = [Idle EXCEPT !.at = next, !.expected = work[r].record]
      OBVIOUS
    <3>3. w \in Work /\ w.at = next /\ w.record = NoSandbox /\ w.expected = work[r].record
      BY <3>2 DEF Inv, Types, Idle, Work, Places
    <3> QED
      BY <3>1, <3>2, <3>3
  <2> QED
    BY <2>1, <2>2 DEF Sweep
<1>4. /\ work' \in [Requests -> Work] /\ work'[r] = w
      /\ \A q \in Requests \ {r} : work'[q] = work[q]
  BY <1>3, OneMoves DEF Inv, Types
<1>5. /\ media' \subseteq media /\ stray' \subseteq stray /\ taken \subseteq taken'
      /\ taken' \subseteq taken \cup media
  BY <1>1, <1>2
<1>6. Types'
  BY <1>2, <1>4, <1>5 DEF Inv, Types
<1>7. Held'
  <2>1. sandbox' # NoSandbox => sandbox'.id <= started'
    BY <1>2 DEF Inv, Held
  <2>2. ImagesOf(sandbox) \subseteq media' \cup taken'
    <3>1. CASE Late(r)
      BY <1>2, <3>1 DEF Inv, Held
    <3>2. CASE ~Late(r)
      BY <1>1, <1>2, <3>2 DEF Inv, Held, Late, ImagesOf
    <3> QED
      BY <3>1, <3>2
  <2>3. ASSUME ~robbed, NEW i \in media'
        PROVE  \/ i \in ImagesOf(sandbox) \cup stray'
               \/ \E q \in Requests : At(q, "writing")' /\ i \in work'[q].record.images
    <3>1. \/ i \in ImagesOf(sandbox) \cup stray
          \/ \E q \in Requests : At(q, "writing") /\ i \in work[q].record.images
      BY <1>5, <2>3 DEF Inv, Held
    <3>2. CASE i \in ImagesOf(sandbox) \cup stray
      BY <1>2, <2>3, <3>2
    <3>3. CASE \E q \in Requests : At(q, "writing") /\ i \in work[q].record.images
      BY <1>2, <1>4, <3>3 DEF At
    <3> QED
      BY <3>1, <3>2, <3>3
  <2>4. ImagesOf(sandbox)' = ImagesOf(sandbox)
    BY <1>2 DEF ImagesOf
  <2> QED
    BY <1>2, <2>1, <2>2, <2>3, <2>4 DEF Held
<1>8. Fits(r)'
  <2>1. ~robbed => Past(work[r].record)
    BY <1>2 DEF Inv, Fits
  <2>2. Past(NoSandbox)
    BY DEF Past, Precedes
  <2>3. ~robbed => Past(w.expected)'
    BY <1>2, <1>3, <2>1, <2>2 DEF Past
  <2> QED
    BY <1>2, <1>3, <1>4, <2>3 DEF Fits, At, UnderLock, Before
<1>9. ASSUME NEW q \in Requests \ {r} PROVE Fits(q)'
  <2>1. Fits(q)
    BY DEF Inv
  <2>2. At(q, "writing") => work[q].record.images \subseteq media' \cup taken'
    <3>1. At(q, "writing") => Late(r)
      BY DEF Late
    <3> QED
      BY <1>2, <2>1, <3>1 DEF Fits
  <2>3. ~robbed /\ At(q, "writing") => Builds(q)'
    BY <1>2, <1>4, <1>5, <2>1 DEF Fits, Builds
  <2> QED
    BY <1>2, <1>4, <2>1, <2>2, <2>3 DEF Fits, Past, At, UnderLock
<1> QED
  BY <1>6, <1>7, <1>8, <1>9 DEF Inv

LEMMA DieKeeps == ASSUME Inv, NEW r \in Requests, Die(r) PROVE Inv'
<1>1. /\ deaths' = deaths + 1
      /\ lock' = IF lock = r THEN "abandoned" ELSE lock
      /\ stray' = IF work[r].record = NoSandbox \/ work[r].internal THEN stray
                  ELSE stray \cup (media \ ImagesOf(sandbox))
      /\ work' = [work EXCEPT ![r] = Idle]
      /\ UNCHANGED <<sandbox, media, started, robbed, taken>>
  BY DEF Die
<1>2. /\ work' \in [Requests -> Work] /\ work'[r] = Idle
      /\ \A q \in Requests \ {r} : work'[q] = work[q]
  BY <1>1, IdleIsTyped, OneMoves DEF Inv, Types
<1>3. stray \subseteq stray' /\ stray' \subseteq stray \cup media
  BY <1>1
<1>4. Types'
  BY <1>1, <1>2, <1>3 DEF Inv, Types
<1>5. Held'
  <2>1. ASSUME ~robbed, NEW i \in media
        PROVE  \/ i \in ImagesOf(sandbox) \cup stray'
               \/ \E q \in Requests : At(q, "writing")' /\ i \in work'[q].record.images
    <3>1. CASE i \in ImagesOf(sandbox) \cup stray
      BY <1>3, <3>1
    <3>2. CASE \E q \in Requests : At(q, "writing") /\ i \in work[q].record.images
      <4>1. PICK q \in Requests : At(q, "writing") /\ i \in work[q].record.images
        BY <3>2
      <4>2. CASE q # r
        BY <1>2, <4>1, <4>2 DEF At
      <4>3. CASE q = r
        <5>1. Builds(r) /\ work[r].record # NoSandbox
          BY <2>1, <4>1, <4>3 DEF Inv, Fits
        <5>2. CASE work[r].internal
          BY <2>1, <4>1, <4>3, <5>1, <5>2 DEF Builds, ImagesOf
        <5>3. CASE ~work[r].internal
          BY <1>1, <2>1, <5>1, <5>3
        <5> QED
          BY <5>2, <5>3
      <4> QED
        BY <4>2, <4>3
    <3> QED
      BY <2>1, <3>1, <3>2 DEF Inv, Held
  <2>2. ImagesOf(sandbox)' = ImagesOf(sandbox)
    BY <1>1 DEF ImagesOf
  <2> QED
    BY <1>1, <2>1, <2>2 DEF Inv, Held
<1>6. Fits(r)'
  <2>1. Past(NoSandbox)'
    BY DEF Past, Precedes
  <2> QED
    BY <1>2, <2>1, IdleIsTyped DEF Fits, At, UnderLock
<1>7. ASSUME NEW q \in Requests \ {r} PROVE Fits(q)'
  <2>1. Fits(q)
    BY DEF Inv
  <2> QED
    BY <1>1, <1>2, <2>1 DEF Fits, Past, At, Builds
<1> QED
  BY <1>4, <1>5, <1>6, <1>7 DEF Inv

LEMMA AgeKeeps == ASSUME Inv, Age PROVE Inv'
<1>1. /\ lock = "abandoned" /\ lock' = "stale"
      /\ UNCHANGED <<sandbox, media, work, started, deaths, robbed, taken, stray>>
  BY DEF Age, history
<1>2. Types'
  BY <1>1 DEF Inv, Types
<1>3. Held'
  BY <1>1 DEF Inv, Held, At, ImagesOf
<1>4. ASSUME NEW q \in Requests PROVE Fits(q)'
  <2>1. ~robbed => work[q].at \notin UnderLock
    BY <1>1 DEF Inv, Fits
  <2> QED
    BY <1>1, <2>1 DEF Inv, Fits, Past, At, Builds
<1> QED
  BY <1>2, <1>3, <1>4 DEF Inv

-----------------------------------------------------------------------------

LEMMA StepKeeps == Inv /\ [Next]_vars => Inv'
<1> SUFFICES ASSUME Inv, [Next]_vars PROVE Inv'
  OBVIOUS
<1>1. CASE UNCHANGED vars
  BY <1>1 DEF vars, Inv, Types, Held, Fits, Past, Builds, At, ImagesOf
<1>2. ASSUME NEW r \in Requests, Draw(r) \/ Post(r) \/ Die(r) PROVE Inv'
  BY <1>2, DrawKeeps, PostKeeps, DieKeeps
<1>3. ASSUME NEW r \in Requests, Proceed(r) PROVE Inv'
  <2>1. CASE Acquire(r) \/ FindStale(r) \/ BreakLock(r) \/ Busy(r)
    BY <2>1, AcquireKeeps, FindStaleKeeps, BreakLockKeeps, BusyKeeps
  <2>2. CASE Refuse(r) \/ Start(r) \/ Change(r)
    BY <2>2, RefuseKeeps, StartKeeps, ChangeKeeps
  <2>3. CASE Write(r) \/ Release(r) \/ Sweep(r)
    BY <2>3, WriteKeeps, ReleaseKeeps, SweepKeeps
  <2> QED
    BY <1>3, <2>1, <2>2, <2>3 DEF Proceed
<1>4. CASE Age
  BY <1>4, AgeKeeps
<1> QED
  BY <1>1, <1>2, <1>3, <1>4 DEF Next

\* In every reachable state whoever is under a lock nobody robbed is there
\* alone, and what it is about to write follows what is there.
THEOREM InvAlways == Spec => []Inv
<1>1. Init => Inv
  <2> SUFFICES ASSUME Init PROVE Inv
    OBVIOUS
  <2>1. work \in [Requests -> Work] /\ \A r \in Requests : work[r] = Idle
    BY IdleIsTyped DEF Init
  <2>2. Types
    BY <2>1 DEF Init, Types
  <2>3. Held
    BY DEF Init, Held, ImagesOf
  <2>4. \A r \in Requests : Fits(r)
    BY <2>1, IdleIsTyped DEF Init, Fits, Past, Precedes, At, UnderLock, Before
  <2> QED
    BY <2>2, <2>3, <2>4 DEF Inv
<1> QED
  BY <1>1, StepKeeps, PTL DEF Spec

\* The type invariant.
THEOREM TypeCorrect == Spec => []TypeOK
BY InvAlways, InvTyped, PTL

\* Unless a lock was robbed, what is written builds on the very record that is
\* on disk and that its page was drawn from.
THEOREM TurnsStay == Spec => NoTurnIsLost
<1>1. Inv /\ [Next]_vars =>
          [robbed \/ \E r \in Requests :
              /\ At(r, "writing")
              /\ work[r].internal \/ work[r].expected = sandbox
              /\ sandbox # NoSandbox /\ sandbox'.id = sandbox.id =>
                    /\ sandbox'.revision = sandbox.revision + 1
                    /\ sandbox.images \subseteq sandbox'.images]_sandbox
  <2> SUFFICES ASSUME Inv, Next, sandbox' # sandbox, ~robbed
               PROVE  \E r \in Requests :
                         /\ At(r, "writing")
                         /\ work[r].internal \/ work[r].expected = sandbox
                         /\ sandbox # NoSandbox /\ sandbox'.id = sandbox.id =>
                               /\ sandbox'.revision = sandbox.revision + 1
                               /\ sandbox.images \subseteq sandbox'.images
    BY DEF vars
  <2>1. PICK r \in Requests : Write(r)
    BY DEF Next, Proceed, Draw, Post, Die, Age, Acquire, FindStale, BreakLock, Busy,
           Refuse, Start, Change, Release, Sweep
  <2>2. /\ At(r, "writing") /\ Builds(r) /\ sandbox' = work[r].record
        /\ work[r].record \in Record
    BY <2>1 DEF Write, Inv, Types, Fits, At, Work
  <2>3. ASSUME sandbox # NoSandbox, sandbox'.id = sandbox.id
        PROVE  /\ sandbox'.revision = sandbox.revision + 1
               /\ sandbox.images \subseteq sandbox'.images
    <3>1. sandbox.id \in Nat
      BY <2>3 DEF Inv, Types, Record
    <3>2. ~(sandbox.id < work[r].record.id)
      BY <2>2, <2>3, <3>1
    <3> QED
      BY <2>2, <2>3, <3>2 DEF Builds
  <2> QED
    BY <2>2, <2>3 DEF Builds
<1> QED
  BY <1>1, InvAlways, PTL DEF Spec, NoTurnIsLost

\* What the Sandbox names has its bytes, or a start or a late sweep took them;
\* and what it does not name was left by a writer that died.
THEOREM MediaStayAccountedFor == Spec => []MediaIsAccountedFor
<1>1. Inv => MediaIsAccountedFor
  <2> SUFFICES ASSUME Inv PROVE MediaIsAccountedFor
    OBVIOUS
  <2>1. Quiet => \A q \in Requests : ~At(q, "writing")
    BY DEF Quiet, At
  <2> QED
    BY <2>1 DEF Inv, Held, MediaIsAccountedFor
<1> QED
  BY <1>1, InvAlways, PTL
=============================================================================
