---------------------- MODULE ContainerLifecycle_proofs ---------------------
(***************************************************************************)
(* The workspace store keeps the container promise, for any containers,    *)
(* requests, workers and purges, and through the death of any of them.     *)
(***************************************************************************)
EXTENDS ContainerLifecycle, TLAPS

USE LifecycleAssumption, NoFileAssumption DEF LifecycleAssumption

-----------------------------------------------------------------------------
(* The inductive invariant *)

\* The record ws could become by a desk move of the record on disk.
MovedFrom(rec, ws) ==
    /\ ws.edits = rec.edits
    /\ ws.desk # rec.desk
    /\ ws.desk # "active" => rec.desk = "active"
    /\ ws.expires = Never <=> ws.desk # "trash"

\* What a request has in hand is the record on disk, or a move of it, as long
\* as the versions agree; they never agree again once another save has landed.
Fits(hand, rec) ==
    /\ hand.ws.version <= rec.version
    /\ hand.ws.version = rec.version =>
         /\ hand.pc = "open" => hand.ws = rec
         /\ hand.pc = "moving" => MovedFrom(rec, hand.ws)

HandInv ==
    \A w \in Writers :
        (writer[w].pc # "idle" /\ Readable(writer[w].c)) => Fits(writer[w], disk[writer[w].c])

\* Only an erasure takes the record away.
RecordInv == \A c \in Containers : disk[c] = NoFile => c \in marker

\* A purge works on marked containers, and what it has removed stays removed.
EraseInv ==
    \A p \in Purgers : purger[p].pc \in EraseSteps =>
        LET c == purger[p].c
        IN  /\ c \in marker
            /\ purger[p].pc # "content" => "stored" \notin content[c]
            /\ purger[p].pc \in {"workspace", "sidecar"} => c \notin registered
            /\ purger[p].pc = "sidecar" => disk[c] = NoFile

\* No purge judges by a moment that is still to come.
MomentInv == \A p \in Purgers : purger[p].moment <= now


-----------------------------------------------------------------------------
(* Types *)

\* What a process that is under way has in hand.
LEMMA WriterHand ==
    ASSUME TypeOK, NEW w \in Writers, writer[w].pc # "idle"
    PROVE  writer[w] \in [pc : {"open", "moving"}, c : Containers, ws : Workspace]
  BY DEF TypeOK, Resting

LEMMA PurgerHand ==
    ASSUME TypeOK, NEW p \in Purgers, purger[p].pc \in {"deleting"} \cup EraseSteps
    PROVE  purger[p] \in [pc : {"deleting"} \cup EraseSteps, todo : SUBSET Containers,
                          moment : Nat, c : Containers]
  BY DEF TypeOK, EraseSteps

LEMMA PurgerListing ==
    ASSUME TypeOK, NEW p \in Purgers, purger[p].pc \in {"off", "listing"}
    PROVE  purger[p] \in [pc : {"off", "listing"}, todo : SUBSET Containers,
                          moment : Nat, c : {NoOne}]
  BY DEF TypeOK, EraseSteps

\* What a save writes.
LEMMA SavedType ==
    ASSUME NEW ws \in Workspace
    PROVE  Saved(ws) \in Workspace
  <1>1. PICK v \in Nat : v = ws.version + 1
    BY DEF Workspace
  <1>2. [ws EXCEPT !.version = v] \in Workspace
    BY DEF Workspace
  <1> QED BY <1>1, <1>2 DEF Saved

LEMMA TypeInit == Init => TypeOK
  BY DEF Init, TypeOK, Resting, Off, Workspace

\* A save keeps records well-formed, of requests ...
LEMMA WriterTypeStep ==
    ASSUME TypeOK, NEW w \in Writers, Request(w)
    PROVE  TypeOK'
  <1>1. ASSUME NEW c \in Containers, Open(w, c) PROVE TypeOK'
    BY <1>1 DEF Open, Readable, TypeOK
  <1>2. ASSUME NEW c \in Containers, NEW d \in {"active", "archive", "trash"}, DecideMove(w, c, d)
        PROVE  TypeOK'
    <2>0. PICK x \in Nat \cup {Never} : x = IF d = "trash" THEN now + Retention ELSE Never
      <3>1. now + Retention \in Nat
        BY DEF TypeOK
      <3> QED BY <3>1, Zenon
    <2>1. PICK ws : ws = [disk[c] EXCEPT !.desk = d, !.expires = x]
      OBVIOUS
    <2>2. disk[c] \in Workspace
      BY <1>2 DEF DecideMove, Readable, TypeOK
    <2>3. ws \in Workspace
      BY <2>0, <2>1, <2>2 DEF Workspace
    <2>4. writer' = [writer EXCEPT ![w] = [pc |-> "moving", c |-> c, ws |-> ws]]
      BY <1>2, <2>0, <2>1 DEF DecideMove
    <2>5. moves' = moves + 1 /\ UNCHANGED <<disk, registered, viewed, content, marker, lock, purger, now, edits>>
      BY <1>2 DEF DecideMove
    <2> QED BY <2>3, <2>4, <2>5 DEF TypeOK
  <1>3. CASE EditAndSave(w)
    <2>1. writer[w] \in [pc : {"open", "moving"}, c : Containers, ws : Workspace]
      BY <1>3, WriterHand DEF EditAndSave
    <2>2. PICK c \in Containers, ws \in Workspace :
            c = writer[w].c /\ ws = [writer[w].ws EXCEPT !.edits = @ \cup {edits}]
      <3>1. writer[w].c \in Containers /\ writer[w].ws \in Workspace /\ edits \in Nat
        BY <2>1 DEF TypeOK
      <3>2. [writer[w].ws EXCEPT !.edits = @ \cup {edits}] \in Workspace
        BY <3>1 DEF Workspace
      <3> QED BY <3>1, <3>2
    <2>3. PICK saved \in Workspace : saved = Saved(ws)
      BY <2>2, SavedType
    <2>4. PICK hand : hand = [writer[w] EXCEPT !.ws = saved]
      OBVIOUS
    <2>5. hand \in [pc : {"open", "moving"}, c : Containers, ws : Workspace]
      BY <2>1, <2>3, <2>4
    <2>6. \/ disk' = [disk EXCEPT ![c] = saved] /\ writer' = [writer EXCEPT ![w] = hand]
          \/ disk' = disk /\ writer' = [writer EXCEPT ![w] = Resting]
      BY <1>3, <2>2, <2>3, <2>4 DEF EditAndSave, TypeOK
    <2>7. disk' \in [Containers -> Workspace \cup {NoFile}]
      BY <2>6 DEF TypeOK
    <2>8. writer' \in [Writers -> {Resting} \cup [pc : {"open", "moving"}, c : Containers, ws : Workspace]]
      BY <2>5, <2>6 DEF TypeOK
    <2>9. edits' = edits + 1 /\ UNCHANGED <<registered, viewed, content, marker, lock, purger, now, moves>>
      BY <1>3 DEF EditAndSave
    <2> QED BY <2>7, <2>8, <2>9 DEF TypeOK
  <1>4. CASE SaveMove(w)
    <2>1. writer[w] \in [pc : {"open", "moving"}, c : Containers, ws : Workspace]
      BY <1>4, WriterHand DEF SaveMove
    <2>2. Saved(writer[w].ws) \in Workspace
      BY <2>1, SavedType
    <2>3. disk' \in [Containers -> Workspace \cup {NoFile}]
      BY <1>4, <2>1, <2>2 DEF SaveMove, TypeOK
    <2>4. writer' = [writer EXCEPT ![w] = Resting]
          /\ UNCHANGED <<registered, viewed, content, marker, lock, purger, now, edits, moves>>
      BY <1>4 DEF SaveMove
    <2> QED BY <2>3, <2>4 DEF TypeOK
  <1>5. CASE StoreContent(w) \/ WriteDerived(w)
    <2>1. content' \in [Containers -> SUBSET FileKinds]
      BY <1>5 DEF StoreContent, WriteDerived, TypeOK, FileKinds
    <2> QED BY <1>5, <2>1 DEF StoreContent, WriteDerived, TypeOK
  <1>6. CASE RecordView(w) \/ RegisterDocument(w)
    <2>1. writer[w].c \in Containers
      BY <1>6, WriterHand DEF RecordView, RegisterDocument
    <2> QED BY <1>6, <2>1 DEF RecordView, RegisterDocument, TypeOK
  <1>7. CASE Close(w)
    BY <1>7 DEF Close, TypeOK
  <1> QED BY <1>1, <1>2, <1>3, <1>4, <1>5, <1>6, <1>7 DEF Request

\* ... and of purges.
LEMMA PurgerTypeStep ==
    ASSUME TypeOK, NEW p \in Purgers,
           \/ PurgeStart(p) \/ PurgeEnd(p) \/ Delete(p) \/ Erase(p) \/ PurgeCrash(p)
           \/ \E c \in Containers : PurgeLook(p, c)
    PROVE  TypeOK'
  <1> DEFINE Listing == [pc : {"off", "listing"}, todo : SUBSET Containers, moment : Nat, c : {NoOne}]
             Busy == [pc : {"deleting"} \cup EraseSteps, todo : SUBSET Containers,
                      moment : Nat, c : Containers]
  <1>0. ASSUME NEW hand \in Listing \cup Busy, purger' = [purger EXCEPT ![p] = hand]
        PROVE  purger' \in [Purgers -> Listing \cup Busy]
    BY <1>0 DEF TypeOK
  <1> HIDE DEF Listing, Busy
  <1>a. ASSUME purger' \in [Purgers -> Listing \cup Busy],
               disk' \in [Containers -> Workspace \cup {NoFile}],
               registered' \subseteq Containers, viewed' \subseteq Containers,
               content' \in [Containers -> SUBSET FileKinds], marker' \subseteq Containers,
               lock' \in [Containers -> Purgers \cup {NoOne}],
               UNCHANGED <<writer, now, edits, moves>>
        PROVE  TypeOK'
    BY <1>a DEF TypeOK, Listing, Busy
  <1>b. /\ disk \in [Containers -> Workspace \cup {NoFile}]
        /\ registered \subseteq Containers /\ viewed \subseteq Containers
        /\ content \in [Containers -> SUBSET FileKinds] /\ marker \subseteq Containers
        /\ lock \in [Containers -> Purgers \cup {NoOne}]
        /\ now \in Nat
    BY DEF TypeOK
  <1>1. CASE PurgeStart(p)
    <2>1. PICK hand : hand = [pc |-> "listing", todo |-> registered \ marker, moment |-> now, c |-> NoOne]
      OBVIOUS
    <2>2. hand \in Listing
      BY <1>b, <2>1 DEF Listing
    <2>3. purger' = [purger EXCEPT ![p] = hand]
      BY <1>1, <2>1 DEF PurgeStart
    <2> QED BY <1>1, <1>0, <1>a, <1>b, <2>2, <2>3 DEF PurgeStart
  <1>2. CASE PurgeEnd(p)
    <2>1. Off \in Listing
      BY DEF Off, Listing
    <2> QED BY <1>2, <1>0, <1>a, <1>b, <2>1 DEF PurgeEnd
  <1>3. ASSUME NEW c \in Containers, PurgeLook(p, c) PROVE TypeOK'
    <2>1. purger[p] \in [pc : {"off", "listing"}, todo : SUBSET Containers, moment : Nat, c : {NoOne}]
      BY <1>3, PurgerListing DEF PurgeLook
    <2>2. PICK look : look = [purger[p] EXCEPT !.pc = "deleting", !.c = c]
      OBVIOUS
    <2>3. PICK skip : skip = [purger[p] EXCEPT !.todo = @ \ {c}]
      OBVIOUS
    <2>4. look \in Busy /\ skip \in Listing
      BY <2>1, <2>2, <2>3 DEF Listing, Busy
    <2>5. purger' = [purger EXCEPT ![p] = look] \/ purger' = [purger EXCEPT ![p] = skip]
      <3>1. CASE Readable(c) /\ Eligible(c, purger[p].moment)
        BY <1>3, <2>2, <3>1 DEF PurgeLook
      <3>2. CASE ~(Readable(c) /\ Eligible(c, purger[p].moment))
        BY <1>3, <2>3, <3>2 DEF PurgeLook
      <3> QED BY <3>1, <3>2
    <2> QED BY <1>3, <1>0, <1>a, <1>b, <2>4, <2>5 DEF PurgeLook
  <1>4. CASE Delete(p)
    <2>1. purger[p] \in [pc : {"deleting"} \cup EraseSteps, todo : SUBSET Containers,
                         moment : Nat, c : Containers]
      BY <1>4, PurgerHand DEF Delete
    <2>2. PICK hand : hand = [purger[p] EXCEPT !.pc = "content"]
      OBVIOUS
    <2>3. hand \in Busy /\ Off \in Listing
      BY <2>1, <2>2 DEF Listing, Busy, Off, EraseSteps
    <2>4. purger' = [purger EXCEPT ![p] = hand] \/ purger' = [purger EXCEPT ![p] = Off]
      BY <1>4, <2>2 DEF Delete, TypeOK
    <2>5. /\ marker' \subseteq Containers /\ lock' \in [Containers -> Purgers \cup {NoOne}]
          /\ UNCHANGED <<disk, registered, viewed, content, writer, now, edits, moves>>
      BY <1>4, <1>b, <2>1 DEF Delete
    <2> QED BY <1>0, <1>a, <1>b, <2>3, <2>4, <2>5
  <1>5. CASE Erase(p)
    <2>1. purger[p] \in [pc : {"deleting"} \cup EraseSteps, todo : SUBSET Containers,
                         moment : Nat, c : Containers]
      BY <1>5, PurgerHand DEF Erase, EraseContent, EraseSidecar, EraseRegistry, EraseWorkspace, EraseSteps
    <2>2. ASSUME NEW step \in EraseSteps, purger' = [purger EXCEPT ![p].pc = step]
          PROVE  purger' \in [Purgers -> Listing \cup Busy]
      <3>1. PICK hand : hand = [purger[p] EXCEPT !.pc = step]
        OBVIOUS
      <3>2. hand \in Busy /\ purger' = [purger EXCEPT ![p] = hand]
        BY <2>1, <2>2, <3>1 DEF Busy, TypeOK
      <3> QED BY <1>0, <3>2
    <2>3. CASE EraseContent(p)
      <3>1. content' \in [Containers -> SUBSET FileKinds]
        BY <1>b, <2>3 DEF EraseContent
      <3> QED BY <1>a, <1>b, <2>2, <2>3, <3>1 DEF EraseContent, EraseSteps
    <2>4. CASE EraseRegistry(p)
      BY <1>a, <1>b, <2>2, <2>4 DEF EraseRegistry, EraseSteps
    <2>5. CASE EraseWorkspace(p)
      <3>1. disk' \in [Containers -> Workspace \cup {NoFile}]
        BY <1>b, <2>5 DEF EraseWorkspace
      <3> QED BY <1>a, <1>b, <2>2, <2>5, <3>1 DEF EraseWorkspace, EraseSteps
    <2>6. CASE EraseSidecar(p)
      <3>1. PICK hand : hand = [purger[p] EXCEPT !.pc = "listing", !.todo = @ \ {purger[p].c}, !.c = NoOne]
        OBVIOUS
      <3>2. hand \in Listing
        BY <2>1, <3>1 DEF Listing
      <3>3. purger' = [purger EXCEPT ![p] = hand]
        BY <2>6, <3>1 DEF EraseSidecar
      <3>4. /\ viewed' \subseteq Containers
            /\ lock' \in [Containers -> Purgers \cup {NoOne}]
            /\ UNCHANGED <<disk, registered, content, marker, writer, now, edits, moves>>
        BY <1>b, <2>6 DEF EraseSidecar
      <3> QED BY <1>0, <1>a, <1>b, <3>2, <3>3, <3>4
    <2> QED BY <1>5, <2>3, <2>4, <2>5, <2>6 DEF Erase
  <1>6. CASE PurgeCrash(p)
    <2>1. Off \in Listing
      BY DEF Off, Listing
    <2>2. lock' \in [Containers -> Purgers \cup {NoOne}]
      BY <1>b, <1>6 DEF PurgeCrash
    <2> QED BY <1>6, <1>0, <1>a, <1>b, <2>1, <2>2 DEF PurgeCrash
  <1> QED BY <1>1, <1>2, <1>3, <1>4, <1>5, <1>6

LEMMA TypeStep == TypeOK /\ [Next]_vars => TypeOK'
  <1>1. TypeOK /\ Tick => TypeOK'
    BY DEF Tick, TypeOK
  <1>2. TypeOK /\ UNCHANGED vars => TypeOK'
    BY DEF vars, TypeOK
  <1> QED BY <1>1, <1>2, WriterTypeStep, PurgerTypeStep DEF Next

\* Every record on disk or in hand is well-formed, and no process holds a
\* container that there is not (ProjectWorkspace, purge_document_shop_trash).
THEOREM TypeCorrect == Spec => []TypeOK
  BY TypeInit, TypeStep, PTL DEF Spec

-----------------------------------------------------------------------------
(* Erasure *)

\* One purge moves; what the others have in hand stays.
OneRun(p) == \A q \in Purgers \ {p} : purger'[q] = purger[q]

\* Nothing brings back what a marked container has lost.
LostStaysLost(c) ==
    /\ c \in marker'
    /\ disk[c] = NoFile => disk'[c] = NoFile
    /\ c \notin registered => c \notin registered'
    /\ c \notin viewed => c \notin viewed'
    /\ "stored" \notin content[c] => "stored" \notin content'[c]

LEMMA MarkedContainer ==
    ASSUME TypeOK, [Next]_vars
    PROVE  \A c \in marker : LostStaysLost(c)
  <1> SUFFICES ASSUME NEW c \in marker PROVE LostStaysLost(c)
    OBVIOUS
  <1>0. c \in Containers
    BY DEF TypeOK
  <1>1. ASSUME NEW w \in Writers, Request(w) PROVE LostStaysLost(c)
    <2>1. CASE EditAndSave(w) \/ SaveMove(w)
      <3>1. disk'[c] = disk[c]
        BY <1>0, <2>1 DEF EditAndSave, SaveMove, SaveAllowed, TypeOK
      <3> QED BY <2>1, <3>1 DEF EditAndSave, SaveMove, LostStaysLost
    <2>2. CASE StoreContent(w) \/ WriteDerived(w)
      BY <1>0, <2>2 DEF StoreContent, WriteDerived, LostStaysLost, TypeOK
    <2>3. CASE RecordView(w) \/ RegisterDocument(w)
      BY <2>3 DEF RecordView, RegisterDocument, LostStaysLost
    <2>4. CASE UNCHANGED <<disk, registered, viewed, content, marker>>
      BY <2>4 DEF LostStaysLost
    <2> QED BY <1>1, <2>1, <2>2, <2>3, <2>4 DEF Request, Open, DecideMove, Close
  <1>2. ASSUME NEW p \in Purgers, Delete(p) \/ Erase(p) PROVE LostStaysLost(c)
    BY <1>0, <1>2 DEF Delete, Erase, EraseContent, EraseSidecar, EraseRegistry, EraseWorkspace,
                      LostStaysLost, TypeOK
  <1>3. CASE UNCHANGED <<disk, registered, viewed, content, marker>>
    BY <1>3 DEF LostStaysLost
  <1> QED BY <1>1, <1>2, <1>3 DEF Next, Tick, PurgeStart, PurgeEnd, PurgeLook, PurgeCrash, vars

\* After the marker nobody brings anything of the container back, however long
\* ago it was opened (save, require_live, attach_document_shop_sources).
THEOREM ErasedForGood == Spec => ErasedStaysErased
  <1>1. TypeOK /\ [Next]_vars => [\A c \in marker : LostStaysLost(c)]_vars
    BY MarkedContainer
  <1>2. (\A c \in marker : LostStaysLost(c)) =>
          \A c \in marker :
            /\ disk[c] = NoFile => disk'[c] = NoFile
            /\ c \notin registered => c \notin registered'
            /\ c \notin viewed => c \notin viewed'
            /\ "stored" \notin content[c] => "stored" \notin content'[c]
    BY DEF LostStaysLost
  <1> QED BY <1>1, <1>2, TypeCorrect, PTL DEF Spec, ErasedStaysErased

\* The run of one purge goes on.
LEMMA EraseStep ==
    ASSUME TypeOK, EraseInv, [Next]_vars
    PROVE  EraseInv'
  <1> DEFINE Keeps(p) ==
        purger'[p].pc \in EraseSteps =>
          LET c == purger'[p].c
          IN  /\ c \in marker'
              /\ purger'[p].pc # "content" => "stored" \notin content'[c]
              /\ purger'[p].pc \in {"workspace", "sidecar"} => c \notin registered'
              /\ purger'[p].pc = "sidecar" => disk'[c] = NoFile
  <1>1. ASSUME NEW p \in Purgers, purger'[p] = purger[p] PROVE Keeps(p)
    BY <1>1, MarkedContainer DEF EraseInv, LostStaysLost
  <1>2. ASSUME NEW p \in Purgers, OneRun(p), Keeps(p) PROVE EraseInv'
    BY <1>1, <1>2 DEF OneRun, EraseInv
  <1>3. CASE purger' = purger
    BY <1>1, <1>3 DEF EraseInv
  <1>4. ASSUME NEW p \in Purgers, PurgeStart(p) \/ PurgeEnd(p) \/ PurgeCrash(p) PROVE EraseInv'
    <2>1. OneRun(p) /\ purger'[p].pc \in {"off", "listing"}
      BY <1>4 DEF PurgeStart, PurgeEnd, PurgeCrash, OneRun, Off, TypeOK
    <2> QED BY <1>2, <2>1 DEF EraseSteps
  <1>5. ASSUME NEW p \in Purgers, NEW c \in Containers, PurgeLook(p, c) PROVE EraseInv'
    <2>1. OneRun(p) /\ purger'[p].pc \in {"listing", "deleting"}
      BY <1>5 DEF PurgeLook, OneRun, TypeOK
    <2> QED BY <1>2, <2>1 DEF EraseSteps
  <1>6. ASSUME NEW p \in Purgers, Delete(p) PROVE EraseInv'
    <2>1. CASE purger' = [purger EXCEPT ![p].pc = "content"] /\ marker' = marker \cup {purger[p].c}
      <3>1. OneRun(p) /\ purger'[p].pc = "content" /\ purger'[p].c = purger[p].c
        BY <2>1, <1>6, PurgerHand DEF OneRun, TypeOK, Delete
      <3> QED BY <1>2, <2>1, <3>1
    <2>2. CASE purger' = [purger EXCEPT ![p] = Off]
      <3>1. OneRun(p) /\ purger'[p].pc = "off"
        BY <2>2 DEF OneRun, TypeOK, Off
      <3> QED BY <1>2, <3>1 DEF EraseSteps
    <2> QED BY <1>6, <2>1, <2>2 DEF Delete
  <1>7. ASSUME NEW p \in Purgers, Erase(p) PROVE EraseInv'
    <2>1. purger[p].pc \in EraseSteps /\ purger[p].c \in Containers
      BY <1>7, PurgerHand DEF Erase, EraseContent, EraseSidecar, EraseRegistry, EraseWorkspace, EraseSteps
    <2>2. purger[p].c \in marker
      BY <2>1 DEF EraseInv
    <2>3. LostStaysLost(purger[p].c)
      BY <2>2, MarkedContainer
    <2>4. CASE EraseContent(p)
      <3>1. /\ OneRun(p) /\ purger'[p].pc = "registry" /\ purger'[p].c = purger[p].c
            /\ content'[purger[p].c] = {}
        BY <2>1, <2>4, PurgerHand DEF EraseContent, OneRun, TypeOK
      <3> QED BY <1>2, <2>3, <3>1 DEF LostStaysLost
    <2>5. CASE EraseRegistry(p)
      <3>1. /\ OneRun(p) /\ purger'[p].pc = "workspace" /\ purger'[p].c = purger[p].c
            /\ purger[p].c \notin registered' /\ "stored" \notin content[purger[p].c]
        BY <2>1, <2>5, PurgerHand DEF EraseRegistry, OneRun, TypeOK, EraseInv
      <3> QED BY <1>2, <2>3, <3>1 DEF LostStaysLost
    <2>6. CASE EraseWorkspace(p)
      <3>1. /\ OneRun(p) /\ purger'[p].pc = "sidecar" /\ purger'[p].c = purger[p].c
            /\ disk'[purger[p].c] = NoFile /\ purger[p].c \notin registered
            /\ "stored" \notin content[purger[p].c]
        BY <2>1, <2>6, PurgerHand DEF EraseWorkspace, OneRun, TypeOK, EraseInv
      <3> QED BY <1>2, <2>3, <3>1 DEF LostStaysLost
    <2>7. CASE EraseSidecar(p)
      <3>1. OneRun(p) /\ purger'[p].pc = "listing"
        BY <2>7, <2>1, PurgerHand DEF EraseSidecar, OneRun, TypeOK
      <3> QED BY <1>2, <3>1 DEF EraseSteps
    <2> QED BY <1>7, <2>4, <2>5, <2>6, <2>7 DEF Erase
  <1> QED
    BY <1>3, <1>4, <1>5, <1>6, <1>7
    DEF Next, Request, Open, EditAndSave, DecideMove, SaveMove, StoreContent, WriteDerived, RecordView,
        RegisterDocument, Close, Tick, vars

\* Only the last step of an erasure takes the record away.
LEMMA RecordLeaves ==
    ASSUME TypeOK, [Next]_vars, NEW c \in Containers, disk'[c] = NoFile
    PROVE  \/ disk[c] = NoFile
           \/ \E p \in Purgers : purger[p].pc = "workspace" /\ purger[p].c = c
  <1>1. ASSUME NEW w \in Writers, EditAndSave(w) PROVE disk[c] = NoFile
    <2>1. writer[w].c \in Containers /\ writer[w].ws \in Workspace /\ edits \in Nat
      BY <1>1, WriterHand DEF EditAndSave, TypeOK
    <2>2. PICK ws \in Workspace : ws = [writer[w].ws EXCEPT !.edits = @ \cup {edits}]
      BY <2>1 DEF Workspace
    <2>3. disk' = [disk EXCEPT ![writer[w].c] = Saved(ws)] \/ disk' = disk
      BY <1>1, <2>2 DEF EditAndSave
    <2>4. Saved(ws) # NoFile
      BY SavedType
    <2> QED BY <2>1, <2>3, <2>4 DEF TypeOK
  <1>2. ASSUME NEW w \in Writers, SaveMove(w) PROVE disk[c] = NoFile
    <2>1. writer[w].c \in Containers /\ Saved(writer[w].ws) # NoFile
      BY <1>2, WriterHand, SavedType DEF SaveMove
    <2> QED BY <1>2, <2>1 DEF SaveMove, TypeOK
  <1>3. ASSUME NEW p \in Purgers, EraseWorkspace(p)
        PROVE  disk[c] = NoFile \/ (purger[p].pc = "workspace" /\ purger[p].c = c)
    BY <1>3 DEF EraseWorkspace, TypeOK
  <1>4. CASE UNCHANGED disk
    BY <1>4
  <1> QED
    BY <1>1, <1>2, <1>3, <1>4
    DEF Next, Request, Open, DecideMove, StoreContent, WriteDerived, RecordView, RegisterDocument,
        Close, Tick, PurgeStart, PurgeEnd, PurgeLook, Delete, Erase, EraseContent, EraseSidecar,
        EraseRegistry, PurgeCrash, vars

LEMMA RecordStep ==
    ASSUME TypeOK, EraseInv, RecordInv, [Next]_vars
    PROVE  RecordInv'
  <1> SUFFICES ASSUME NEW c \in Containers, disk'[c] = NoFile PROVE c \in marker'
    BY DEF RecordInv
  <1>1. c \in marker
    BY RecordLeaves DEF RecordInv, EraseInv, EraseSteps
  <1> QED BY <1>1, MarkedContainer DEF LostStaysLost

LEMMA ContentStep ==
    ASSUME TypeOK, EraseInv, RecordInv, ContentBeforeRecord, [Next]_vars
    PROVE  ContentBeforeRecord'
  <1> SUFFICES ASSUME NEW c \in marker', disk'[c] = NoFile
               PROVE  "stored" \notin content'[c] /\ c \notin registered'
    BY DEF ContentBeforeRecord
  <1>1. c \in Containers
    BY TypeStep DEF TypeOK
  <1>2. c \in marker
    BY <1>1, RecordLeaves DEF RecordInv, EraseInv, EraseSteps
  <1>3. "stored" \notin content[c] /\ c \notin registered
    BY <1>1, <1>2, RecordLeaves DEF ContentBeforeRecord, EraseInv, EraseSteps
  <1> QED BY <1>2, <1>3, MarkedContainer DEF LostStaysLost

ErasureInv == TypeOK /\ EraseInv /\ RecordInv /\ ContentBeforeRecord

LEMMA ErasureInit == Init => ErasureInv
  BY TypeInit DEF Init, ErasureInv, EraseInv, EraseSteps, RecordInv, ContentBeforeRecord, Off, Workspace

LEMMA ErasureStep == ErasureInv /\ [Next]_vars => ErasureInv'
  BY TypeStep, EraseStep, RecordStep, ContentStep DEF ErasureInv

\* An erasure that stops anywhere leaves the workspace record, which names the
\* sources other containers share, behind everything stored and behind the
\* parsed document; only the view sidecar may outlive it
\* (_erase_document_shop_files).
THEOREM ContentFirst == Spec => []ContentBeforeRecord
  <1>1. ErasureInv => ContentBeforeRecord
    BY DEF ErasureInv
  <1> QED BY <1>1, ErasureInit, ErasureStep, PTL DEF Spec

-----------------------------------------------------------------------------
(* What requests have in hand *)

StoreInv == ErasureInv /\ HandInv /\ MomentInv

\* What HandInv says of one request after a step.
FitsNext(w) ==
    (writer'[w].pc # "idle" /\ writer'[w].c \notin marker' /\ disk'[writer'[w].c] # NoFile) =>
        Fits(writer'[w], disk'[writer'[w].c])

\* A request whose container is left alone, or erased.
LEMMA UntouchedHand ==
    ASSUME ErasureInv, HandInv, [Next]_vars, NEW w \in Writers, writer'[w] = writer[w],
           disk'[writer[w].c] \in {disk[writer[w].c], NoFile}
    PROVE  FitsNext(w)
  <1>1. marker \subseteq marker'
    BY MarkedContainer DEF LostStaysLost, ErasureInv
  <1> QED BY <1>1 DEF HandInv, FitsNext, Readable

\* A request that was overtaken by the save of another.
LEMMA OvertakenHand ==
    ASSUME ErasureInv, HandInv, NEW c \in Containers, NEW ws \in Workspace, SaveAllowed(c, ws),
           disk' = [disk EXCEPT ![c] = Saved(ws)], marker' = marker,
           NEW u \in Writers, writer'[u] = writer[u]
    PROVE  FitsNext(u)
  <1> SUFFICES ASSUME writer[u].pc # "idle", writer[u].c \notin marker, disk'[writer[u].c] # NoFile
               PROVE  Fits(writer[u], disk'[writer[u].c])
    BY DEF FitsNext
  <1>1. writer[u].c \in Containers /\ writer[u].ws \in Workspace
    BY WriterHand DEF ErasureInv
  <1>2. CASE writer[u].c # c
    <2>1. disk'[writer[u].c] = disk[writer[u].c]
      BY <1>1, <1>2
    <2> QED BY <2>1 DEF HandInv, Readable
  <1>3. CASE writer[u].c = c
    <2>1. disk[c] \in Workspace /\ disk[c] # NoFile /\ disk[c].version = ws.version
      BY <1>3 DEF ErasureInv, RecordInv, SaveAllowed, TypeOK
    <2>2. disk'[c].version = ws.version + 1
      BY DEF Saved, Workspace, ErasureInv, TypeOK
    <2>3. writer[u].ws.version <= disk[c].version
      BY <1>3, <2>1 DEF HandInv, Readable, Fits
    <2> QED BY <1>1, <1>3, <2>1, <2>2, <2>3 DEF Fits, Workspace
  <1> QED BY <1>2, <1>3

LEMMA HandStep ==
    ASSUME ErasureInv, HandInv, [Next]_vars
    PROVE  HandInv'
  <1>0. SUFFICES ASSUME NEW u \in Writers PROVE FitsNext(u)
    BY DEF HandInv, FitsNext, Readable
  <1>t. TypeOK
    BY DEF ErasureInv
  <1>1. CASE UNCHANGED <<disk, writer>>
    BY <1>1, UntouchedHand
  <1>2. ASSUME NEW p \in Purgers, EraseWorkspace(p) PROVE FitsNext(u)
    <2>1. writer'[u] = writer[u]
      BY <1>2 DEF EraseWorkspace
    <2>2. disk'[writer[u].c] \in {disk[writer[u].c], NoFile}
      BY <1>2, <1>t DEF EraseWorkspace, TypeOK
    <2> QED BY <2>1, <2>2, UntouchedHand
  <1>3. ASSUME NEW w \in Writers, Request(w) PROVE FitsNext(u)
    <2>1. CASE disk' = disk /\ writer'[u] = writer[u]
      BY <2>1, UntouchedHand
    <2>2. CASE writer'[u].pc = "idle"
      BY <2>2 DEF FitsNext
    <2>3. ASSUME NEW c \in Containers, Open(w, c), u = w PROVE FitsNext(u)
      <3>1. /\ writer'[w] = [pc |-> "open", c |-> c, ws |-> disk[c]]
            /\ disk' = disk /\ disk[c] \in Workspace
        BY <1>t, <2>3 DEF Open, Readable, TypeOK
      <3> QED BY <2>3, <3>1 DEF FitsNext, Fits, Workspace
    <2>4. ASSUME NEW c \in Containers, NEW d \in {"active", "archive", "trash"}, DecideMove(w, c, d), u = w
          PROVE  FitsNext(u)
      <3>1. PICK x \in Nat \cup {Never} : x = IF d = "trash" THEN now + Retention ELSE Never
        <4>1. now + Retention \in Nat
          BY <1>t DEF TypeOK
        <4> QED BY <4>1, Zenon
      <3>2. x = Never <=> d # "trash"
        <4>1. now + Retention \in Nat
          BY <1>t DEF TypeOK
        <4> QED BY <3>1, <4>1
      <3>3. PICK ws : ws = [disk[c] EXCEPT !.desk = d, !.expires = x]
        OBVIOUS
      <3>4. /\ disk[c] \in Workspace /\ disk' = disk
            /\ disk[c].desk # d /\ (d # "active" => disk[c].desk = "active")
        BY <1>t, <2>4 DEF DecideMove, Readable, TypeOK
      <3>5. writer'[w] = [pc |-> "moving", c |-> c, ws |-> ws]
        BY <1>t, <2>4, <3>1, <3>3 DEF DecideMove, TypeOK
      <3>6. ws.version = disk[c].version /\ ws.version \in Nat /\ MovedFrom(disk[c], ws)
        BY <3>2, <3>3, <3>4 DEF MovedFrom, Workspace
      <3> QED BY <2>4, <3>4, <3>5, <3>6 DEF FitsNext, Fits
    <2>5. CASE EditAndSave(w)
      <3>1. /\ writer[w].pc = "open" /\ writer[w].c \in Containers
            /\ writer[w].ws \in Workspace /\ edits \in Nat
        BY <1>t, <2>5, WriterHand DEF EditAndSave, TypeOK
      <3>2. PICK ws \in Workspace : ws = [writer[w].ws EXCEPT !.edits = @ \cup {edits}]
        BY <3>1 DEF Workspace
      <3>3. CASE SaveAllowed(writer[w].c, ws)
        <4>1. /\ disk' = [disk EXCEPT ![writer[w].c] = Saved(ws)] /\ marker' = marker
              /\ writer' = [writer EXCEPT ![w].ws = Saved(ws)]
          BY <2>5, <3>2, <3>3 DEF EditAndSave
        <4>2. CASE u # w
          <5>1. writer'[u] = writer[u]
            BY <4>1, <4>2
          <5> QED BY <3>1, <3>2, <3>3, <4>1, <5>1, OvertakenHand
        <4>3. CASE u = w
          <5>1. /\ writer'[u].pc = "open" /\ writer'[u].c = writer[w].c
                /\ writer'[u].ws = Saved(ws) /\ disk'[writer[w].c] = Saved(ws)
            BY <1>t, <3>1, <4>1, <4>3, WriterHand DEF TypeOK
          <5>2. Saved(ws).version \in Nat
            BY <3>2, SavedType DEF Workspace
          <5> QED BY <5>1, <5>2 DEF FitsNext, Fits
        <4> QED BY <4>2, <4>3
      <3>4. CASE ~SaveAllowed(writer[w].c, ws)
        <4>1. disk' = disk /\ writer' = [writer EXCEPT ![w] = Resting]
          BY <2>5, <3>2, <3>4 DEF EditAndSave
        <4> QED BY <1>t, <2>1, <2>2, <4>1 DEF Resting, TypeOK
      <3> QED BY <3>3, <3>4
    <2>6. CASE SaveMove(w)
      <3>1. writer[w].c \in Containers /\ writer[w].ws \in Workspace
        BY <1>t, <2>6, WriterHand DEF SaveMove
      <3>2. CASE u = w
        <4>1. writer'[u].pc = "idle"
          BY <1>t, <2>6, <3>2 DEF SaveMove, Resting, TypeOK
        <4> QED BY <2>2, <4>1
      <3>3. CASE u # w
        <4>1. writer'[u] = writer[u] /\ marker' = marker
          BY <2>6, <3>3 DEF SaveMove
        <4>2. \/ disk' = disk
              \/ /\ SaveAllowed(writer[w].c, writer[w].ws)
                 /\ disk' = [disk EXCEPT ![writer[w].c] = Saved(writer[w].ws)]
          BY <2>6 DEF SaveMove
        <4> QED BY <2>1, <3>1, <4>1, <4>2, OvertakenHand
      <3> QED BY <3>2, <3>3
    <2>7. ASSUME Close(w), u = w PROVE FitsNext(u)
      BY <1>t, <2>2, <2>7 DEF Close, Resting, TypeOK
    <2>8. ASSUME NEW c \in Containers, NEW d \in {"active", "archive", "trash"}, u # w,
                 Open(w, c) \/ DecideMove(w, c, d)
          PROVE  FitsNext(u)
      <3>1. disk' = disk /\ writer'[u] = writer[u]
        BY <1>t, <2>8 DEF Open, DecideMove, TypeOK
      <3> QED BY <2>1, <3>1
    <2>9. ASSUME Close(w), u # w PROVE FitsNext(u)
      <3>1. disk' = disk /\ writer'[u] = writer[u]
        BY <1>t, <2>9 DEF Close, TypeOK
      <3> QED BY <2>1, <3>1
    <2> QED
      BY <1>1, <1>3, <2>3, <2>4, <2>5, <2>6, <2>7, <2>8, <2>9
      DEF Request, StoreContent, WriteDerived, RecordView, RegisterDocument
  <1> QED
    BY <1>1, <1>2, <1>3
    DEF Next, Tick, PurgeStart, PurgeEnd, PurgeLook, Delete, Erase, EraseContent, EraseSidecar,
        EraseRegistry, PurgeCrash, vars

LEMMA MomentStep ==
    ASSUME TypeOK, MomentInv, [Next]_vars
    PROVE  MomentInv'
  <1> SUFFICES ASSUME NEW p \in Purgers PROVE purger'[p].moment <= now'
    BY DEF MomentInv
  <1>1. purger[p].moment \in Nat /\ purger[p].moment <= now /\ now \in Nat /\ now' \in Nat /\ now <= now'
    <2>1. now' = now \/ now' = now + 1
      BY DEF Next, Request, Open, EditAndSave, DecideMove, SaveMove, StoreContent, WriteDerived, RecordView,
             RegisterDocument, Close, Tick, PurgeStart, PurgeEnd, PurgeLook, Delete, Erase, EraseContent,
             EraseSidecar, EraseRegistry, EraseWorkspace, PurgeCrash, vars
    <2> QED BY <2>1 DEF TypeOK, MomentInv
  <1>2. purger'[p].moment \in {purger[p].moment, now, 0}
    <2>1. CASE purger' = purger
      BY <2>1
    <2>2. ASSUME NEW q \in Purgers, PurgeStart(q) PROVE purger'[p].moment \in {purger[p].moment, now}
      BY <2>2 DEF PurgeStart, TypeOK
    <2>3. ASSUME NEW q \in Purgers, PurgeEnd(q) \/ PurgeCrash(q) PROVE purger'[p].moment \in {purger[p].moment, 0}
      BY <2>3 DEF PurgeEnd, PurgeCrash, Off, TypeOK
    <2>4. ASSUME NEW q \in Purgers, NEW c \in Containers, PurgeLook(q, c)
          PROVE  purger'[p].moment = purger[p].moment
      <3>1. CASE q # p
        BY <2>4, <3>1 DEF PurgeLook, TypeOK
      <3>2. CASE q = p
        <4>1. purger[p] \in [pc : {"off", "listing"}, todo : SUBSET Containers, moment : Nat, c : {NoOne}]
          BY <2>4, <3>2, PurgerListing DEF PurgeLook
        <4>2. PICK look : look = [purger[p] EXCEPT !.pc = "deleting", !.c = c]
          OBVIOUS
        <4>3. PICK skip : skip = [purger[p] EXCEPT !.todo = @ \ {c}]
          OBVIOUS
        <4>4. look.moment = purger[p].moment /\ skip.moment = purger[p].moment
          BY <4>1, <4>2, <4>3
        <4>5. purger' = [purger EXCEPT ![p] = look] \/ purger' = [purger EXCEPT ![p] = skip]
          BY <2>4, <3>2, <4>2, <4>3 DEF PurgeLook
        <4> QED BY <4>4, <4>5 DEF TypeOK
      <3> QED BY <3>1, <3>2
    <2>5. ASSUME NEW q \in Purgers, Delete(q) PROVE purger'[p].moment \in {purger[p].moment, 0}
      <3>1. CASE q # p
        BY <2>5, <3>1 DEF Delete, TypeOK
      <3>2. CASE q = p
        <4>1. PICK hand : hand = [purger[p] EXCEPT !.pc = "content"]
          OBVIOUS
        <4>2. hand.moment = purger[p].moment
          BY <2>5, <3>2, <4>1, PurgerHand DEF Delete
        <4>3. purger' = [purger EXCEPT ![p] = hand] \/ purger' = [purger EXCEPT ![p] = Off]
          BY <2>5, <3>2, <4>1 DEF Delete
        <4> QED BY <4>2, <4>3 DEF Off, TypeOK
      <3> QED BY <3>1, <3>2
    <2>6. ASSUME NEW q \in Purgers, Erase(q) PROVE purger'[p].moment = purger[p].moment
      <3>1. CASE q # p
        BY <2>6, <3>1 DEF Erase, EraseContent, EraseSidecar, EraseRegistry, EraseWorkspace, TypeOK
      <3>2. CASE q = p
        <4>1. purger[p] \in [pc : {"deleting"} \cup EraseSteps, todo : SUBSET Containers,
                             moment : Nat, c : Containers]
          BY <2>6, <3>2, PurgerHand
             DEF Erase, EraseContent, EraseSidecar, EraseRegistry, EraseWorkspace, EraseSteps
        <4>2. ASSUME NEW step, purger' = [purger EXCEPT ![p].pc = step]
              PROVE  purger'[p].moment = purger[p].moment
          BY <4>1, <4>2 DEF TypeOK
        <4>3. CASE EraseSidecar(p)
          <5>1. PICK hand : hand = [purger[p] EXCEPT !.pc = "listing", !.todo = @ \ {purger[p].c}, !.c = NoOne]
            OBVIOUS
          <5>2. hand.moment = purger[p].moment
            BY <4>1, <5>1
          <5>3. purger' = [purger EXCEPT ![p] = hand]
            BY <4>3, <5>1 DEF EraseSidecar
          <5> QED BY <5>2, <5>3 DEF TypeOK
        <4> QED BY <2>6, <3>2, <4>2, <4>3 DEF Erase, EraseContent, EraseRegistry, EraseWorkspace
      <3> QED BY <3>1, <3>2
    <2> QED
      BY <2>1, <2>2, <2>3, <2>4, <2>5, <2>6
      DEF Next, Request, Open, EditAndSave, DecideMove, SaveMove, StoreContent, WriteDerived, RecordView,
          RegisterDocument, Close, Tick, vars
  <1> QED BY <1>1, <1>2

LEMMA StoreInit == Init => StoreInv
  BY ErasureInit DEF Init, StoreInv, HandInv, Resting, MomentInv, Off

LEMMA StoreStep == StoreInv /\ [Next]_vars => StoreInv'
  <1>1. ErasureInv => TypeOK
    BY DEF ErasureInv
  <1> QED BY <1>1, ErasureStep, HandStep, MomentStep DEF StoreInv

-----------------------------------------------------------------------------
(* The refinement *)

Place(c) == IF Readable(c) THEN disk[c].desk ELSE "gone"
Due(c)   == IF Readable(c) THEN disk[c].expires ELSE Never
Edits(c) == IF Readable(c) THEN disk[c].edits ELSE {}

PlaceOf == [c \in Containers |-> Place(c)]
DueOf   == [c \in Containers |-> Due(c)]
EditsOf == [c \in Containers |-> Edits(c)]

LEMMA InitRefines == Init => Promise!Init
  <1> SUFFICES ASSUME Init PROVE Promise!Init
    OBVIOUS
  <1>1. [version |-> 0, edits |-> {}, desk |-> "active", expires |-> Never] \in Workspace
    BY DEF Workspace
  <1>2. \A c \in Containers : Readable(c)
    BY <1>1 DEF Init, Readable
  <1> QED BY <1>2 DEF Init, Promise!Init

\* A step that leaves what can be read of the containers, and the clock.
LEMMA Unseen ==
    ASSUME UNCHANGED now,
           \A c \in Containers : Readable(c)' = Readable(c),
           \A c \in Containers : Readable(c) => disk'[c] = disk[c]
    PROVE  UNCHANGED Promise!promise
  <1>1. \A c \in Containers : Place(c)' = Place(c) /\ Due(c)' = Due(c) /\ Edits(c)' = Edits(c)
    BY DEF Place, Due, Edits
  <1>2. PlaceOf' = PlaceOf /\ DueOf' = DueOf /\ EditsOf' = EditsOf
    BY <1>1 DEF PlaceOf, DueOf, EditsOf
  <1> QED BY <1>2 DEF Promise!promise, PlaceOf, DueOf, EditsOf, Place, Due, Edits

\* A step that touches one container: the rest of each map is a function update.
LEMMA OneContainer ==
    ASSUME NEW c \in Containers,
           \A k \in Containers \ {c} : disk'[k] = disk[k] /\ (k \in marker' <=> k \in marker)
    PROVE  /\ PlaceOf' = [PlaceOf EXCEPT ![c] = Place(c)']
           /\ DueOf' = [DueOf EXCEPT ![c] = Due(c)']
           /\ EditsOf' = [EditsOf EXCEPT ![c] = Edits(c)']
  <1>1. \A k \in Containers \ {c} : Place(k)' = Place(k) /\ Due(k)' = Due(k) /\ Edits(k)' = Edits(k)
    BY DEF Place, Due, Edits, Readable
  <1> QED BY <1>1 DEF PlaceOf, DueOf, EditsOf

\* A save that goes through replaces the record it was made from.
LEMMA SaveSeen ==
    ASSUME ErasureInv, NEW c \in Containers, NEW ws \in Workspace, SaveAllowed(c, ws),
           disk' = [disk EXCEPT ![c] = Saved(ws)], marker' = marker
    PROVE  /\ Readable(c) /\ disk[c].version = ws.version
           /\ PlaceOf[c] = disk[c].desk /\ DueOf[c] = disk[c].expires /\ EditsOf[c] = disk[c].edits
           /\ PlaceOf' = [PlaceOf EXCEPT ![c] = ws.desk]
           /\ DueOf' = [DueOf EXCEPT ![c] = ws.expires]
           /\ EditsOf' = [EditsOf EXCEPT ![c] = ws.edits]
  <1>1. Readable(c) /\ disk[c].version = ws.version
    BY DEF ErasureInv, RecordInv, SaveAllowed, Readable
  <1>2. /\ disk'[c] # NoFile /\ disk'[c].desk = ws.desk /\ disk'[c].expires = ws.expires
        /\ disk'[c].edits = ws.edits
    BY SavedType DEF Saved, Workspace, ErasureInv, TypeOK
  <1>3. Place(c)' = ws.desk /\ Due(c)' = ws.expires /\ Edits(c)' = ws.edits
    BY <1>1, <1>2 DEF Place, Due, Edits, Readable
  <1>4. \A k \in Containers \ {c} : disk'[k] = disk[k]
    BY DEF ErasureInv, TypeOK
  <1>5. /\ PlaceOf' = [PlaceOf EXCEPT ![c] = ws.desk]
        /\ DueOf' = [DueOf EXCEPT ![c] = ws.expires]
        /\ EditsOf' = [EditsOf EXCEPT ![c] = ws.edits]
    BY <1>3, <1>4, OneContainer
  <1> QED BY <1>1, <1>5 DEF PlaceOf, DueOf, EditsOf, Place, Due, Edits

LEMMA EditRefines ==
    ASSUME StoreInv, NEW w \in Writers, EditAndSave(w)
    PROVE  [Promise!Next]_(Promise!promise)
  <1>1. /\ writer[w].pc = "open" /\ writer[w].c \in Containers
        /\ writer[w].ws \in Workspace /\ edits \in Nat
    BY WriterHand DEF EditAndSave, TypeOK, StoreInv, ErasureInv
  <1>2. PICK c \in Containers : c = writer[w].c
    BY <1>1
  <1>3. PICK ws \in Workspace : ws = [writer[w].ws EXCEPT !.edits = @ \cup {edits}]
    BY <1>1 DEF Workspace
  <1>4. CASE SaveAllowed(c, ws)
    <2>1. disk' = [disk EXCEPT ![c] = Saved(ws)] /\ marker' = marker /\ now' = now
      BY <1>2, <1>3, <1>4 DEF EditAndSave
    <2>2. /\ Readable(c) /\ disk[c].version = ws.version
          /\ PlaceOf[c] = disk[c].desk /\ DueOf[c] = disk[c].expires /\ EditsOf[c] = disk[c].edits
          /\ PlaceOf' = [PlaceOf EXCEPT ![c] = ws.desk]
          /\ DueOf' = [DueOf EXCEPT ![c] = ws.expires]
          /\ EditsOf' = [EditsOf EXCEPT ![c] = ws.edits]
      BY <1>4, <2>1, SaveSeen DEF StoreInv
    <2>3. /\ ws.version = writer[w].ws.version /\ ws.desk = writer[w].ws.desk
          /\ ws.expires = writer[w].ws.expires /\ writer[w].ws.edits \subseteq ws.edits
      BY <1>1, <1>3 DEF Workspace
    <2>4. writer[w].ws = disk[c]
      BY <1>1, <1>2, <2>2, <2>3 DEF StoreInv, HandInv, Fits
    <2>5. PlaceOf' = PlaceOf /\ DueOf' = DueOf
      <3>1. ws.desk = PlaceOf[c] /\ ws.expires = DueOf[c]
        BY <2>2, <2>3, <2>4
      <3> QED BY <2>2, <3>1 DEF PlaceOf, DueOf
    <2>6. EditsOf[c] \subseteq EditsOf'[c] /\ EditsOf' = [EditsOf EXCEPT ![c] = EditsOf'[c]]
      BY <2>2, <2>3, <2>4 DEF EditsOf
    <2>7. PlaceOf[c] # "gone"
      BY <1>1, <2>2, <2>4 DEF Workspace
    <2>8. Promise!Edit(c)
      BY <2>1, <2>5, <2>6, <2>7 DEF Promise!Edit, PlaceOf, DueOf, EditsOf, Place, Due, Edits
    <2> QED BY <2>8 DEF Promise!Next
  <1>5. CASE ~SaveAllowed(c, ws)
    <2>1. UNCHANGED <<disk, marker, now>>
      BY <1>2, <1>3, <1>5 DEF EditAndSave
    <2> QED BY <2>1, Unseen DEF Readable
  <1> QED BY <1>4, <1>5

LEMMA MoveRefines ==
    ASSUME StoreInv, NEW w \in Writers, SaveMove(w)
    PROVE  [Promise!Next]_(Promise!promise)
  <1>1. writer[w].pc = "moving" /\ writer[w].c \in Containers /\ writer[w].ws \in Workspace
    BY WriterHand DEF SaveMove, StoreInv, ErasureInv
  <1>2. PICK c \in Containers, ws \in Workspace : c = writer[w].c /\ ws = writer[w].ws
    BY <1>1
  <1>3. CASE SaveAllowed(c, ws)
    <2>1. disk' = [disk EXCEPT ![c] = Saved(ws)] /\ marker' = marker /\ now' = now
      BY <1>2, <1>3 DEF SaveMove
    <2>2. /\ Readable(c) /\ disk[c].version = ws.version
          /\ PlaceOf[c] = disk[c].desk /\ DueOf[c] = disk[c].expires /\ EditsOf[c] = disk[c].edits
          /\ PlaceOf' = [PlaceOf EXCEPT ![c] = ws.desk]
          /\ DueOf' = [DueOf EXCEPT ![c] = ws.expires]
          /\ EditsOf' = [EditsOf EXCEPT ![c] = ws.edits]
      BY <1>3, <2>1, SaveSeen DEF StoreInv
    <2>3. MovedFrom(disk[c], ws)
      BY <1>1, <1>2, <2>2 DEF StoreInv, HandInv, Fits
    <2>4. EditsOf' = EditsOf
      BY <2>2, <2>3 DEF EditsOf, MovedFrom
    <2>5. disk[c] \in Workspace
      BY <2>2 DEF Readable, StoreInv, ErasureInv, TypeOK
    <2>6. CASE ws.desk = "active"
      <3>1. /\ PlaceOf[c] \in {"archive", "trash"}
            /\ PlaceOf' = [PlaceOf EXCEPT ![c] = "active"]
            /\ DueOf' = [DueOf EXCEPT ![c] = Never]
        BY <2>2, <2>3, <2>5, <2>6 DEF MovedFrom, Workspace
      <3>2. Promise!Restore(c)
        BY <2>1, <2>4, <3>1 DEF Promise!Restore, PlaceOf, DueOf, EditsOf, Place, Due, Edits
      <3> QED BY <3>2 DEF Promise!Next
    <2>7. CASE ws.desk # "active"
      <3>1. PICK to \in {"archive", "trash"} : to = ws.desk
        BY <1>2, <2>7 DEF Workspace
      <3>2. /\ PlaceOf[c] = "active" /\ PlaceOf' = [PlaceOf EXCEPT ![c] = to]
            /\ (ws.expires = Never <=> to = "archive")
        BY <2>2, <2>3, <2>7, <3>1 DEF MovedFrom
      <3>3. (DueOf'[c] = Never <=> to = "archive") /\ DueOf' = [DueOf EXCEPT ![c] = DueOf'[c]]
        BY <2>2, <3>2 DEF DueOf
      <3>4. Promise!Shelve(c, to)
        BY <2>1, <2>4, <3>2, <3>3 DEF Promise!Shelve, PlaceOf, DueOf, EditsOf, Place, Due, Edits
      <3> QED BY <3>4 DEF Promise!Next
    <2> QED BY <2>6, <2>7
  <1>4. CASE ~SaveAllowed(c, ws)
    <2>1. UNCHANGED <<disk, marker, now>>
      BY <1>2, <1>4 DEF SaveMove
    <2> QED BY <2>1, Unseen DEF Readable
  <1> QED BY <1>3, <1>4

\* The marker is the erasure; the record has still to go, but nobody reads it.
LEMMA DeleteRefines ==
    ASSUME StoreInv, NEW p \in Purgers, Delete(p)
    PROVE  [Promise!Next]_(Promise!promise)
  <1>0. PICK c \in Containers : c = purger[p].c
    BY PurgerHand DEF Delete, StoreInv, ErasureInv
  <1>1. CASE Condemned(p, c) /\ c \notin marker
    <2>1. disk' = disk /\ marker' = marker \cup {c} /\ now' = now
      BY <1>0, <1>1 DEF Delete
    <2>2. /\ Readable(c) /\ disk[c].desk = "trash" /\ disk[c] \in Workspace
          /\ disk[c].expires \in Nat /\ disk[c].expires <= purger[p].moment
      BY <1>1 DEF Condemned, Eligible, Readable, StoreInv, ErasureInv, TypeOK, Workspace
    <2>3. purger[p].moment \in Nat /\ purger[p].moment <= now /\ now \in Nat
      BY DEF StoreInv, ErasureInv, MomentInv, TypeOK
    <2>4. /\ PlaceOf[c] = "trash" /\ DueOf[c] = disk[c].expires
      BY <2>2 DEF PlaceOf, DueOf, Place, Due
    <2>5. DueOf[c] <= now
      BY <2>2, <2>3, <2>4
    <2>6. Place(c)' = "gone" /\ Due(c)' = Never /\ Edits(c)' = {}
      BY <2>1 DEF Place, Due, Edits, Readable
    <2>7. /\ PlaceOf' = [PlaceOf EXCEPT ![c] = "gone"]
          /\ DueOf' = [DueOf EXCEPT ![c] = Never]
          /\ EditsOf' = [EditsOf EXCEPT ![c] = {}]
      BY <2>1, <2>6, OneContainer
    <2>8. Promise!Erase(c)
      BY <2>1, <2>4, <2>5, <2>7 DEF Promise!Erase, PlaceOf, DueOf, EditsOf, Place, Due, Edits
    <2> QED BY <2>8 DEF Promise!Next
  <1>2. CASE ~Condemned(p, c) \/ c \in marker
    <2>1. UNCHANGED <<disk, marker, now>>
      BY <1>0, <1>2 DEF Delete
    <2> QED BY <2>1, Unseen DEF Readable
  <1> QED BY <1>1, <1>2

LEMMA StepRefines == StoreInv /\ [Next]_vars => [Promise!Next]_(Promise!promise)
  <1> SUFFICES ASSUME StoreInv, [Next]_vars PROVE [Promise!Next]_(Promise!promise)
    OBVIOUS
  <1>1. ASSUME NEW w \in Writers, EditAndSave(w) \/ SaveMove(w)
        PROVE  [Promise!Next]_(Promise!promise)
    BY <1>1, EditRefines, MoveRefines
  <1>2. ASSUME NEW p \in Purgers, Delete(p) PROVE [Promise!Next]_(Promise!promise)
    BY <1>2, DeleteRefines
  <1>3. ASSUME NEW p \in Purgers, EraseWorkspace(p) PROVE [Promise!Next]_(Promise!promise)
    <2>1. PICK c \in marker : c = purger[p].c
      BY <1>3 DEF EraseWorkspace, StoreInv, ErasureInv, EraseInv, EraseSteps
    <2>2. disk' = [disk EXCEPT ![c] = NoFile] /\ marker' = marker /\ now' = now
      BY <1>3, <2>1 DEF EraseWorkspace
    <2>3. \A k \in Containers : k # c => disk'[k] = disk[k]
      BY <2>2 DEF StoreInv, ErasureInv, TypeOK
    <2> QED BY <2>1, <2>2, <2>3, Unseen DEF Readable
  <1>4. CASE Tick
    <2>1. now' = now + 1 /\ disk' = disk /\ marker' = marker
      BY <1>4 DEF Tick
    <2>2. \A c \in Containers : Place(c)' = Place(c) /\ Due(c)' = Due(c) /\ Edits(c)' = Edits(c)
      BY <2>1 DEF Place, Due, Edits, Readable
    <2>3. PlaceOf' = PlaceOf /\ DueOf' = DueOf /\ EditsOf' = EditsOf
      BY <2>2 DEF PlaceOf, DueOf, EditsOf
    <2>4. Promise!Tick
      BY <2>1, <2>3 DEF Promise!Tick, PlaceOf, DueOf, EditsOf, Place, Due, Edits
    <2> QED BY <2>4 DEF Promise!Next
  <1>5. CASE UNCHANGED <<disk, marker, now>>
    BY <1>5, Unseen DEF Readable
  <1> QED
    BY <1>1, <1>2, <1>3, <1>4, <1>5
    DEF Next, Request, Open, DecideMove, StoreContent, WriteDerived, RecordView, RegisterDocument,
        Close, PurgeStart, PurgeEnd, PurgeLook, Erase, EraseContent, EraseSidecar, EraseRegistry,
        PurgeCrash, vars

\* Version checks, locks and markers implement the promise: no committed edit
\* is lost or lands on a container its owner has since moved, only expired
\* trash is erased, and nothing erased comes back (save,
\* move_document_shop_case, delete_document_shop_job).
THEOREM StoreImplementsPromise == Spec => ImplementsPromise
  <1>1. Spec => []StoreInv
    BY StoreInit, StoreStep, PTL DEF Spec
  <1>2. Spec => Promise!Spec
    BY <1>1, StepRefines, InitRefines, PTL DEF Spec, Promise!Spec
  <1> QED BY <1>2 DEF ImplementsPromise
=============================================================================
