----------------------------- MODULE MCCoroutines -----------------------------
(* Instances of Coroutines for TLC. *)
EXTENDS Coroutines, TLC

\* Tasks are interchangeable; the liveness runs do not use it.
Symmetry == Permutations(Tasks)

AllOps  == {"spawn", "await", "next", "wait", "drop", "cancel", "all", "any"}
\* Coroutines that yield and handle others, but never wait for one.
FlatOps == {"item", "now", "spawn", "drop", "cancel"}
\* Coroutines that only yield; that await tasks; that do everything.
YieldOps   == {"item", "now"}
AwaitOps   == {"now", "spawn", "await"}
\* What main does in the run that starves it.
SpawnNext  == {"spawn", "next"}
NestedOps  == AllOps \cup YieldOps

\* How often coroutines suspend.  A stream has to suspend twice to be able to
\* yield after it was cancelled.
Once         == [c \in Handles |-> 1]
Twice        == [c \in Handles |-> 2]
StreamsTwice == [c \in Handles |-> IF c \in Streams THEN 2 ELSE 1]
===============================================================================
