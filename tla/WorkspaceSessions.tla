------------------------- MODULE WorkspaceSessions -------------------------
(***************************************************************************)
(* How every governed route of routes/workspace.py reaches the workspace   *)
(* file: _load_workspace_or_404 reads the whole record once, the store's   *)
(* method checks and changes that copy, and CaseWorkspaceStore.save writes *)
(* the copy back, unless the version on disk has moved since the copy was  *)
(* read, in which case it refuses.  The modules CaseReview and WorkProduct *)
(* extend this one with the operations.                                    *)
(*                                                                         *)
(* Sessions share nothing but the file.  The version check and the write   *)
(* are one step, as the container's flock makes them.                      *)
(***************************************************************************)
EXTENDS Naturals

CONSTANTS
    Sessions,       \* requests that may be in flight at the same time
    NoCopy,         \* a session that has nothing loaded
    MaxVersion      \* bound: saves

VARIABLES
    stored,         \* <id>.workspace.json, a record with its version
    held            \* the copy each session has loaded, or NoCopy

ASSUME SessionsAssumption == MaxVersion \in Nat

Holding(s) == held[s] # NoCopy

Load(s) ==
    /\ ~Holding(s)
    /\ held' = [held EXCEPT ![s] = stored]
    /\ UNCHANGED stored

\* What save() puts on disk: the session's changed copy, one version on.
Stamped(ws) == [ws EXCEPT !.version = ws.version + 1]

\* Mutant of SaveThen: read and write back, without the version check.
SaveUnchecked(s, ws, after) ==
    /\ stored.version < MaxVersion
    /\ stored' = Stamped(ws)
    /\ held' = [held EXCEPT ![s] = after]

\* The save() that goes through.  The route ends, or goes on with the copy it
\* has just saved, as `after` says.
SaveThen(s, ws, after) ==
    /\ stored.version < MaxVersion
    /\ ws.version = stored.version
    /\ stored' = Stamped(ws)
    /\ held' = [held EXCEPT ![s] = after]

Save(s, ws) == SaveThen(s, ws, NoCopy)

\* A route ends without saving: a check of the store refused, the version had
\* moved (HTTP 409), or the process died.
GiveUp(s) ==
    /\ Holding(s)
    /\ held' = [held EXCEPT ![s] = NoCopy]
    /\ UNCHANGED stored

\* A copy at the version of the file is the file: versions name states.
CopiesAreTrue ==
    \A s \in Sessions :
        Holding(s) => /\ held[s].version <= stored.version
                      /\ held[s].version = stored.version => held[s] = stored
=============================================================================
