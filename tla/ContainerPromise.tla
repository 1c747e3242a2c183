-------------------------- MODULE ContainerPromise --------------------------
(***************************************************************************)
(* What the workspace store promises about a disposable container of the   *)
(* document desk, without versions, locks, markers or processes: committed *)
(* edits are never lost while the container exists, it moves between the   *)
(* desk, the archive and the trash by its owner's decision only, it is     *)
(* erased only out of the trash and only after its recovery date, and an   *)
(* erased container never comes back.                                      *)
(***************************************************************************)
EXTENDS Naturals

CONSTANTS Containers, Never

VARIABLES
    place,      \* where each container is
    due,        \* its recovery deadline, while it is in the trash
    edits,      \* the edits committed to it
    now

promise == <<place, due, edits, now>>

Init ==
    /\ place = [c \in Containers |-> "active"]
    /\ due = [c \in Containers |-> Never]
    /\ edits = [c \in Containers |-> {}]
    /\ now = 0

Tick == now' = now + 1 /\ UNCHANGED <<place, due, edits>>

\* An edit is added to those already committed; the container stays put.
Edit(c) ==
    /\ place[c] # "gone"
    /\ edits[c] \subseteq edits'[c]
    /\ edits' = [edits EXCEPT ![c] = edits'[c]]
    /\ UNCHANGED <<place, due, now>>

\* Off the desk, or back to it.
Shelve(c, to) ==
    /\ place[c] = "active"
    /\ to \in {"archive", "trash"}
    /\ place' = [place EXCEPT ![c] = to]
    /\ due'[c] = Never <=> to = "archive"
    /\ due' = [due EXCEPT ![c] = due'[c]]
    /\ UNCHANGED <<edits, now>>

Restore(c) ==
    /\ place[c] \in {"archive", "trash"}
    /\ place' = [place EXCEPT ![c] = "active"]
    /\ due' = [due EXCEPT ![c] = Never]
    /\ UNCHANGED <<edits, now>>

Erase(c) ==
    /\ place[c] = "trash" /\ due[c] <= now
    /\ place' = [place EXCEPT ![c] = "gone"]
    /\ due' = [due EXCEPT ![c] = Never]
    /\ edits' = [edits EXCEPT ![c] = {}]
    /\ UNCHANGED now

Next ==
    \/ Tick
    \/ \E c \in Containers :
          Edit(c) \/ Restore(c) \/ Erase(c) \/ \E to \in {"archive", "trash"} : Shelve(c, to)

Spec == Init /\ [][Next]_promise
=============================================================================
