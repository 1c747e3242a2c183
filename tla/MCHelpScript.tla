---------------------------- MODULE MCHelpScript ----------------------------
(* The script gate on two claims resting on one guide.  A behaviour starts  *)
(* with the script as an author or a generation leaves it: one claim, and   *)
(* one scene that cites it.                                                 *)
EXTENDS HelpScript, TLC

CONSTANTS c1, c2, g1, t1

OneGuide == (c1 :> g1) @@ (c2 :> g1)

Authored ==
    /\ version = 0
    /\ sections = <<[kind |-> "scene", text |-> t1, cites |-> {c1},
                     class |-> "ai_proposed", active |-> TRUE]>>
    /\ adoption = [c \in Claims |-> IF c = c1 THEN "open" ELSE "none"]
    /\ superseded = {} /\ stale = {} /\ revised = {}
    /\ fits = <<>> /\ checks = <<>> /\ signs = <<>>
    /\ hand = [p \in Rechecks |-> Idle]
    /\ page = [r \in Reviewers |-> Text]

AuthoredSpec == Authored /\ [][Next]_vars
=============================================================================
