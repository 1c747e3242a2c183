------------------------ MODULE MCContainerLifecycle ------------------------
EXTENDS ContainerLifecycle, TLC
CONSTANTS c1, c2, w1, w2, p1, p2

\* Writers are interchangeable, and so are containers and purgers, where no
\* liveness is checked.
Interchangeable == Permutations(Writers) \cup Permutations(Containers) \cup Permutations(Purgers)
=============================================================================
