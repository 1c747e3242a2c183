----------------------------- MODULE MCJobStore -----------------------------
EXTENDS JobStore, TLC
CONSTANTS j1, j2, p1, p2

TwoJobs     == {j1, j2}
OneJob      == {j1}
TwoProjects == {p1, p2}
OneProject  == {p1}
\* One job in each of two projects; both in one project.
Apart    == j1 :> p1 @@ j2 :> p2
Together == [j \in Jobs |-> p1]
NoJobs == {}
JustJ1 == {j1}
=============================================================================
