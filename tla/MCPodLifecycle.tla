--------------------------- MODULE MCPodLifecycle ---------------------------
(* PodLifecycle for TLC: one or two specifications, two containers. *)
EXTENDS PodLifecycle

CONSTANTS s1, s2, c1, c2

\* s2 adds a container to s1's.
MCContainersOf == [s \in PodSpec |-> IF s = s1 THEN {c1} ELSE {c1, c2}]
=============================================================================
