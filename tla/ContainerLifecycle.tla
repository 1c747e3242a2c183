------------------------- MODULE ContainerLifecycle -------------------------
(***************************************************************************)
(* The life of a disposable (black box) container of the document desk in  *)
(* services/case_workspace.py and services/requirements_registry.py: the   *)
(* version-checked save of the workspace file, the owner's desk moves, the *)
(* view sidecar, the private content files, and the hourly purge of        *)
(* expired trash, which commits a deletion marker and then erases.         *)
(*                                                                         *)
(* Processes share nothing but the files and one flock per container.  A   *)
(* save holds it around its version check and its write, which is one step *)
(* here; an erasure holds it from the marker to the last file.             *)
(***************************************************************************)
EXTENDS Naturals, FiniteSets

CONSTANTS
    Containers,
    Writers,        \* web requests and workers that open and save containers
    Purgers,        \* processes running tools/purge_document_shop.py
    Retention,      \* trash keeps a container this long (7 days)
    PurgeCrashes,   \* TRUE: a purge may die, or fail, at any step
    MaxNow,         \* bound: clock ticks
    MaxEdits,       \* bound: edits committed
    MaxMoves,       \* bound: desk moves decided
    Never, NoFile, NoOne

VARIABLES
    disk,           \* <id>.workspace.json: the record or NoFile
    registered,     \* containers whose <id>.json is there
    viewed,         \* containers whose view sidecar is there
    content,        \* private files of each container, by how they are written
    marker,         \* committed deletion markers
    lock,           \* the purger that holds the container's flock, or NoOne
    writer,         \* what each writer has in hand
    purger,         \* what each purge process is doing
    now, edits, moves   \* counters

vars == <<disk, registered, viewed, content, marker, lock, writer, purger,
          now, edits, moves>>

ASSUME LifecycleAssumption ==
    /\ Retention \in Nat \ {0}
    /\ PurgeCrashes \in BOOLEAN
    /\ MaxNow \in Nat /\ MaxEdits \in Nat /\ MaxMoves \in Nat
    /\ Never \notin Nat
    /\ NoOne \notin Containers \cup Purgers

Workspace == [version : Nat, edits : SUBSET Nat,
              desk : {"active", "archive", "trash"}, expires : Nat \cup {Never}]

ASSUME NoFileAssumption == NoFile \notin Workspace

\* How a content file reaches disk: under the container's lock after
\* require_live ("stored"), or with neither ("derived").
FileKinds == {"stored", "derived"}

\* A request with nothing in hand.
Resting == [pc |-> "idle", c |-> NoOne, ws |-> NoFile]

\* A purge process between two runs.
Off == [pc |-> "off", todo |-> {}, moment |-> 0, c |-> NoOne]

EraseSteps == {"content", "registry", "workspace", "sidecar"}

TypeOK ==
    /\ disk \in [Containers -> Workspace \cup {NoFile}]
    /\ registered \subseteq Containers
    /\ viewed \subseteq Containers
    /\ content \in [Containers -> SUBSET FileKinds]
    /\ marker \subseteq Containers
    /\ lock \in [Containers -> Purgers \cup {NoOne}]
    /\ writer \in [Writers -> {Resting} \cup
                    [pc : {"open", "moving"}, c : Containers, ws : Workspace]]
    /\ purger \in [Purgers ->
                     [pc : {"off", "listing"}, todo : SUBSET Containers,
                      moment : Nat, c : {NoOne}]
                     \cup [pc : {"deleting"} \cup EraseSteps, todo : SUBSET Containers,
                           moment : Nat, c : Containers]]
    /\ now \in Nat /\ edits \in Nat /\ moves \in Nat

Init ==
    /\ disk = [c \in Containers |->
                 [version |-> 0, edits |-> {}, desk |-> "active", expires |-> Never]]
    /\ registered = Containers
    /\ viewed = {}
    /\ content = [c \in Containers |-> {}]
    /\ marker = {}
    /\ lock = [c \in Containers |-> NoOne]
    /\ writer = [w \in Writers |-> Resting]
    /\ purger = [p \in Purgers |-> Off]
    /\ now = 0 /\ edits = 0 /\ moves = 0

-----------------------------------------------------------------------------
Free(c) == lock[c] = NoOne

\* CaseWorkspaceStore.get: None for a deleted or absent container.
Readable(c) == c \notin marker /\ disk[c] # NoFile

\* Mutants of SaveAllowed: no version check; no liveness test.
SaveAllowedAnyVersion(c, ws) == c \notin marker
SaveAllowedDeleted(c, ws) == disk[c] # NoFile => disk[c].version = ws.version

\* save, inside the lock: a deleted container is refused (CaseWorkspaceError),
\* a file that has moved on is refused (ConcurrentModificationError), else the
\* record in hand replaces it with the next version.
SaveAllowed(c, ws) ==
    /\ c \notin marker
    /\ disk[c] # NoFile => disk[c].version = ws.version

Saved(ws) == [ws EXCEPT !.version = @ + 1]

-----------------------------------------------------------------------------
(* Requests and workers *)

Open(w, c) ==
    /\ writer[w] = Resting
    /\ Readable(c)
    /\ writer' = [writer EXCEPT ![w] = [pc |-> "open", c |-> c, ws |-> disk[c]]]
    /\ UNCHANGED <<disk, registered, viewed, content, marker, lock, purger,
                   now, edits, moves>>

\* One domain operation: change the record in hand and save it.  After a
\* success the request may go on with the saved record; a refusal ends it.
EditAndSave(w) ==
    LET c == writer[w].c
        ws == [writer[w].ws EXCEPT !.edits = @ \cup {edits}]
    IN  /\ writer[w].pc = "open"
        /\ edits < MaxEdits
        /\ Free(c)
        /\ edits' = edits + 1
        /\ IF SaveAllowed(c, ws)
           THEN /\ disk' = [disk EXCEPT ![c] = Saved(ws)]
                /\ writer' = [writer EXCEPT ![w].ws = Saved(ws)]
           ELSE /\ writer' = [writer EXCEPT ![w] = Resting]
                /\ UNCHANGED disk
        /\ UNCHANGED <<registered, viewed, content, marker, lock, purger, now, moves>>

\* move_document_shop_case, up to its save: a fresh record, the checks, the
\* new desk state.  "active" restores; anything else needs an active record.
DecideMove(w, c, destination) ==
    /\ writer[w] = Resting
    /\ moves < MaxMoves
    /\ Readable(c)
    /\ disk[c].expires # Never => now < disk[c].expires
    /\ disk[c].desk # destination
    /\ destination # "active" => disk[c].desk = "active"
    /\ writer' = [writer EXCEPT ![w] =
         [pc |-> "moving", c |-> c,
          ws |-> [disk[c] EXCEPT
                    !.desk = destination,
                    !.expires = IF destination = "trash" THEN now + Retention ELSE Never]]]
    /\ moves' = moves + 1
    /\ UNCHANGED <<disk, registered, viewed, content, marker, lock, purger, now, edits>>

SaveMove(w) ==
    LET c == writer[w].c
    IN  /\ writer[w].pc = "moving"
        /\ Free(c)
        /\ disk' = IF SaveAllowed(c, writer[w].ws)
                   THEN [disk EXCEPT ![c] = Saved(writer[w].ws)] ELSE disk
        /\ writer' = [writer EXCEPT ![w] = Resting]
        /\ UNCHANGED <<registered, viewed, content, marker, lock, purger,
                       now, edits, moves>>

\* attach_document_shop_sources and the visual worker's reference: the bytes
\* are written inside the lock, after require_live.
StoreContent(w) ==
    LET c == writer[w].c
    IN  /\ writer[w].pc = "open"
        /\ Free(c) /\ c \notin marker
        /\ content' = [content EXCEPT ![c] = @ \cup {"stored"}]
        /\ UNCHANGED <<disk, registered, viewed, marker, lock, writer, purger,
                       now, edits, moves>>

\* create_document_frame and its siblings: the preview is written as soon as
\* it is rendered; only the add_source that follows is a save.
WriteDerived(w) ==
    LET c == writer[w].c
    IN  /\ writer[w].pc = "open"
        /\ content' = [content EXCEPT ![c] = @ \cup {"derived"}]
        /\ UNCHANGED <<disk, registered, viewed, marker, lock, writer, purger,
                       now, edits, moves>>

\* record_last_viewed: nothing without a workspace file, else the sidecar is
\* patched inside the lock, after require_live.
RecordView(w) ==
    LET c == writer[w].c
    IN  /\ writer[w].pc = "open"
        /\ disk[c] # NoFile
        /\ Free(c) /\ c \notin marker
        /\ viewed' = viewed \cup {c}
        /\ UNCHANGED <<disk, registered, content, marker, lock, writer, purger,
                       now, edits, moves>>

\* RequirementsRegistry.save of a document parsed again.
RegisterDocument(w) ==
    LET c == writer[w].c
    IN  /\ writer[w].pc = "open"
        /\ Free(c) /\ c \notin marker
        /\ registered' = registered \cup {c}
        /\ UNCHANGED <<disk, viewed, content, marker, lock, writer, purger,
                       now, edits, moves>>

\* The request ends, or fails, or its process dies.
Close(w) ==
    /\ writer[w] # Resting
    /\ writer' = [writer EXCEPT ![w] = Resting]
    /\ UNCHANGED <<disk, registered, viewed, content, marker, lock, purger,
                   now, edits, moves>>

Tick ==
    /\ now < MaxNow
    /\ now' = now + 1
    /\ UNCHANGED <<disk, registered, viewed, content, marker, lock, writer,
                   purger, edits, moves>>

-----------------------------------------------------------------------------
(* The purge of expired trash *)

\* purge_document_shop_trash: the moment and the listing are taken once.
PurgeStart(p) ==
    /\ purger[p].pc = "off"
    /\ purger' = [purger EXCEPT ![p] =
         [pc |-> "listing", todo |-> registered \ marker, moment |-> now, c |-> NoOne]]
    /\ UNCHANGED <<disk, registered, viewed, content, marker, lock, writer,
                   now, edits, moves>>

\* In the trash with a deadline that has passed at the run's moment.
Eligible(c, moment) ==
    disk[c].desk = "trash" /\ disk[c].expires # Never /\ disk[c].expires <= moment

\* Mutant of PurgeLook: a container that is not due is looked at for ever.
PurgeLookStuck(p, c) ==
    /\ purger[p].pc = "listing"
    /\ c \in purger[p].todo
    /\ Readable(c) /\ Eligible(c, purger[p].moment)
    /\ purger' = [purger EXCEPT ![p].pc = "deleting", ![p].c = c]
    /\ UNCHANGED <<disk, registered, viewed, content, marker, lock, writer,
                   now, edits, moves>>

\* Read the next container, outside its lock.
PurgeLook(p, c) ==
    /\ purger[p].pc = "listing"
    /\ c \in purger[p].todo
    /\ purger' = IF Readable(c) /\ Eligible(c, purger[p].moment)
                 THEN [purger EXCEPT ![p].pc = "deleting", ![p].c = c]
                 ELSE [purger EXCEPT ![p].todo = @ \ {c}]
    /\ UNCHANGED <<disk, registered, viewed, content, marker, lock, writer,
                   now, edits, moves>>

PurgeEnd(p) ==
    /\ purger[p].pc = "listing" /\ purger[p].todo = {}
    /\ purger' = [purger EXCEPT ![p] = Off]
    /\ UNCHANGED <<disk, registered, viewed, content, marker, lock, writer,
                   now, edits, moves>>

\* delete_document_shop_job with purge_before, inside the lock: read again.
Condemned(p, c) == Readable(c) /\ Eligible(c, purger[p].moment)

\* Take the lock.  A container still eligible gets its marker; one already
\* marked is an interrupted cleanup to resume; for any other one the call
\* raises, and the run ends there.
Delete(p) ==
    LET c == purger[p].c
    IN  /\ purger[p].pc = "deleting"
        /\ Free(c)
        /\ \/ /\ Condemned(p, c) \/ c \in marker
              /\ marker' = marker \cup {c}
              /\ lock' = [lock EXCEPT ![c] = p]
              /\ purger' = [purger EXCEPT ![p].pc = "content"]
           \/ /\ ~Condemned(p, c) /\ c \notin marker
              /\ purger' = [purger EXCEPT ![p] = Off]
              /\ UNCHANGED <<marker, lock>>
        /\ UNCHANGED <<disk, registered, viewed, content, writer, now, edits, moves>>

\* Mutant of EraseContent: it runs, but leaves the files for a later pass.
EraseContentLater(p) ==
    /\ purger[p].pc = "content"
    /\ purger' = [purger EXCEPT ![p].pc = "registry"]
    /\ UNCHANGED <<disk, registered, viewed, content, marker, lock, writer, now, edits, moves>>

\* _erase_document_shop_files.  The paths are sorted, stably, by whether they
\* have the name of one of the two records: everything else goes first ...
EraseContent(p) ==
    /\ purger[p].pc = "content"
    /\ content' = [content EXCEPT ![purger[p].c] = {}]
    /\ purger' = [purger EXCEPT ![p].pc = "registry"]
    /\ UNCHANGED <<disk, registered, viewed, marker, lock, writer, now, edits, moves>>

\* ... then <id>.json ...
EraseRegistry(p) ==
    /\ purger[p].pc = "registry"
    /\ registered' = registered \ {purger[p].c}
    /\ purger' = [purger EXCEPT ![p].pc = "workspace"]
    /\ UNCHANGED <<disk, viewed, content, marker, lock, writer, now, edits, moves>>

\* ... and <id>.workspace.json ...
EraseWorkspace(p) ==
    /\ purger[p].pc = "workspace"
    /\ disk' = [disk EXCEPT ![purger[p].c] = NoFile]
    /\ purger' = [purger EXCEPT ![p].pc = "sidecar"]
    /\ UNCHANGED <<registered, viewed, content, marker, lock, writer, now, edits, moves>>

\* Mutant of EraseSidecar: the run keeps the container in hand.
EraseSidecarStale(p) ==
    LET c == purger[p].c
    IN  /\ purger[p].pc = "sidecar"
        /\ viewed' = viewed \ {c}
        /\ lock' = [lock EXCEPT ![c] = NoOne]
        /\ purger' = [purger EXCEPT ![p].pc = "listing", ![p].todo = @ \ {c}]
        /\ UNCHANGED <<disk, registered, content, marker, writer, now, edits, moves>>

\* ... and last _view_state/<id>.json, whose name is that of <id>.json and
\* which was listed after it.  The lock is released and the run goes on.
EraseSidecar(p) ==
    LET c == purger[p].c
    IN  /\ purger[p].pc = "sidecar"
        /\ viewed' = viewed \ {c}
        /\ lock' = [lock EXCEPT ![c] = NoOne]
        /\ purger' = [purger EXCEPT ![p].pc = "listing", ![p].todo = @ \ {c}, ![p].c = NoOne]
        /\ UNCHANGED <<disk, registered, content, marker, writer, now, edits, moves>>

\* The purge process dies, or the run ends with an exception: a file cannot be
\* removed, or document_shop_deletion_state refuses the container (then at
\* "deleting", before any marker).  The lock goes, the marker stays.
PurgeCrash(p) ==
    /\ PurgeCrashes
    /\ purger[p].pc # "off"
    /\ lock' = [c \in Containers |-> IF lock[c] = p THEN NoOne ELSE lock[c]]
    /\ purger' = [purger EXCEPT ![p] = Off]
    /\ UNCHANGED <<disk, registered, viewed, content, marker, writer, now, edits, moves>>

-----------------------------------------------------------------------------
Request(w) ==
    \/ \E c \in Containers :
         Open(w, c) \/ \E d \in {"active", "archive", "trash"} : DecideMove(w, c, d)
    \/ EditAndSave(w) \/ SaveMove(w) \/ StoreContent(w) \/ WriteDerived(w)
    \/ RecordView(w) \/ RegisterDocument(w) \/ Close(w)

Erase(p) == EraseContent(p) \/ EraseRegistry(p) \/ EraseWorkspace(p) \/ EraseSidecar(p)

Next ==
    \/ \E w \in Writers : Request(w)
    \/ Tick
    \/ \E p \in Purgers :
         \/ PurgeStart(p) \/ PurgeEnd(p) \/ Delete(p) \/ Erase(p) \/ PurgeCrash(p)
         \/ \E c \in Containers : PurgeLook(p, c)

Spec == Init /\ [][Next]_vars

\* Time passes, the timer starts the purge again and again, and a purge that
\* runs gets on.  Nothing is owed of requests or of crashes.
Fairness ==
    /\ WF_vars(Tick)
    /\ \A p \in Purgers : WF_vars(\/ PurgeStart(p) \/ PurgeEnd(p) \/ Delete(p) \/ Erase(p)
                                  \/ \E c \in Containers : PurgeLook(p, c))

FairSpec == Spec /\ Fairness

-----------------------------------------------------------------------------
(* Properties *)

Gone(c) == /\ c \in marker /\ disk[c] = NoFile /\ c \notin registered
           /\ c \notin viewed /\ "stored" \notin content[c]

\* The files, versions, locks and markers of the store implement the promise:
\* no committed edit is lost to a stale save, an edit never undoes a desk
\* move, only expired trash is erased, and what is erased stays erased.
Promise == INSTANCE ContainerPromise WITH
    place <- [c \in Containers |->
                IF Readable(c) THEN disk[c].desk ELSE "gone"],
    due   <- [c \in Containers |-> IF Readable(c) THEN disk[c].expires ELSE Never],
    edits <- [c \in Containers |-> IF Readable(c) THEN disk[c].edits ELSE {}]
ImplementsPromise == Promise!Spec

\* After the marker no process brings back the workspace record, the parsed
\* document, the sidecar or a file stored under the lock, however long ago it
\* opened the container.
ErasedStaysErased ==
    [][\A c \in marker :
          /\ disk[c] = NoFile => disk'[c] = NoFile
          /\ c \notin registered => c \notin registered'
          /\ c \notin viewed => c \notin viewed'
          /\ "stored" \notin content[c] => "stored" \notin content'[c]]_vars

\* While a file stored under the lock or the parsed document is left of a
\* deleted container, so is its workspace record: a cleanup that was stopped
\* anywhere can still be told which files it shares (the comment at the sort in
\* _erase_document_shop_files).  The view sidecar goes after the record, and an
\* erasure stopped between the two leaves it behind.
ContentBeforeRecord ==
    \A c \in marker : ("stored" \in content[c] \/ c \in registered) => disk[c] # NoFile

\* No private file is left of a container whose erasure has finished.
NothingPrivateLeft ==
    \A c \in marker : disk[c] = NoFile => content[c] = {}

\* A container whose recovery deadline has passed is purged, unless its owner
\* takes it out of the trash in time.  (Files of kind "derived" are the
\* subject of NothingPrivateLeft.)
ExpiredIsPurged ==
    \A c \in Containers :
        (Readable(c) /\ Eligible(c, now)) ~> (Gone(c) \/ (Readable(c) /\ ~Eligible(c, now)))
=============================================================================
